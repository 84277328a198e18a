---------------------------- MODULE VerdictProofs ----------------------------
(***************************************************************************)
(* Theorems about the parts that prepare a trace or pass a verdict on what *)
(* others made: Profile.__init__ and its helpers on a machine profile,     *)
(* validate_bound_trace on a bound trace, the RTL scripts on the logs of a *)
(* measurement, runtime_gate.py on a benchmark's run, and Profile.bind on  *)
(* a dynamic trace.  One section for each; the sections share nothing but  *)
(* this module.                                                            *)
(***************************************************************************)
EXTENDS ProfileAdmission, TraceValidation, RtlResults, RuntimeGate, XsaiExpander,
        FiniteSetTheorems, WellFoundedInduction, TLAPS

-----------------------------------------------------------------------------
(***************************************************************************)
(* What the validators of a profile promise to the engine, for every       *)
(* profile and every way of editing one: the checks of the three classes   *)
(* agree, what slips past the first of them comes from one place, and the  *)
(* event loop computes with numbers that are whole ticks.                  *)
(***************************************************************************)

TypeInv == DOMAIN profile = DOMAIN Base /\ ProfileType(profile)
ErrorInv == profilePc # "failed" => profileError = "none"

\* What has been validated by the time each step is reached.
Late == {"resolve", "bind", "construct", "admit", "issue_uops", "starved", "running", "zen4"}
AcceptedInv ==
    /\ profilePc \in {"dependency", "evidence", "overlap", "issue", "dispatch"} \cup Late
                 => TopologyValid(profile)
    /\ profilePc \in {"dispatch"} \cup Late => IssueDomainsValid(profile)
    /\ profilePc \in Late => DispatchDomainsValid(profile)

\* The slots of the engine, and what the constructor has ruled out.
Constructed == {"admit", "issue_uops", "starved", "running"}
BoundInv == profilePc \in Constructed => profileUops = ScheduledUops(profile)
ConstructedInv ==
    profilePc \in Constructed =>
        /\ ~ChoicesDisagree(profile) /\ ~MeasuredDispatchDomain(profile)
        /\ ~MeasuredIssueDomain(profile) /\ ~UnknownIssueDomain(profile)

ProfileIInv ==
    /\ TypeInv /\ ErrorInv /\ AcceptedInv /\ BoundInv /\ ConstructedInv
    /\ EngineAgrees /\ LateErrorOnlyFromPrep /\ DomainsAdmit /\ QueuedWhereListed

-----------------------------------------------------------------------------
(* The helpers. *)

LEMMA LeastMember ==
    ASSUME NEW S \in SUBSET Nat, S # {}
    PROVE  Least(S) \in S /\ \A m \in S : Least(S) <= m
<1>1. PICK n \in S : \A m \in S : ~(<<m, n>> \in OpToRel(<, Nat))
  BY WFMin, NatLessThanWellFounded, Zenon
<1>2. \A m \in Nat : m < n => <<m, n>> \in OpToRel(<, Nat)
  <2> SUFFICES ASSUME NEW m \in Nat, m < n PROVE <<m, n>> \in {ss \in Nat \X Nat : ss[1] < ss[2]}
    BY Zenon DEF OpToRel
  <2> QED
    OBVIOUS
<1>3. \A m \in S : ~(m < n)
  BY <1>1, <1>2, Zenon
<1>4. \A m \in S : n <= m
  BY <1>3
<1> QED
  BY <1>4 DEF Least

\* FirstOf returns one of the reasons, and "none" only if there is none.
LEMMA FirstOfFacts ==
    ASSUME NEW s, DOMAIN s \subseteq Nat
    PROVE  /\ ProfileFirstOf(s) = "none" => \A k \in DOMAIN s : s[k] = "none"
           /\ ProfileFirstOf(s) # "none" => \E k \in DOMAIN s : ProfileFirstOf(s) = s[k]
<1> DEFINE met == {k \in DOMAIN s : s[k] # "none"}
<1>1. CASE met = {}
  BY <1>1 DEF ProfileFirstOf
<1>2. CASE met # {}
  <2>1. Least(met) \in met
    BY <1>2, LeastMember
  <2>2. ProfileFirstOf(s) = s[Least(met)]
    BY <1>2 DEF ProfileFirstOf
  <2> QED
    BY <2>1, <2>2
<1> QED
  BY <1>1, <1>2

\* Each error of the constructor has its own cause.
LEMMA ConstructFacts ==
    ASSUME NEW p
    PROVE  /\ ConstructError(p) = "none" =>
                 /\ ~ChoicesDisagree(p) /\ ~MeasuredDispatchDomain(p)
                 /\ ~MeasuredIssueDomain(p) /\ ~UnknownIssueDomain(p)
           /\ ConstructError(p) = "duplicate" => DuplicateDomain(p)
           /\ ConstructError(p) = "choices" => ChoicesDisagree(p)
           /\ ConstructError(p) = "missing_port" => MissingPort(p)
           /\ ConstructError(p) = "unknown_domain" => UnknownIssueDomain(p)
           /\ ConstructError(p) # "demand" /\ ConstructError(p) \in Errors
           /\ ConstructError(p) = "none" => RenamePolicyError(p.rename) = "none"
           /\ ConstructError(p) = "ticks" =>
                 "ticks" \in {RenamePolicyError(p.rename), VectorMemoryPolicyError(p.vectorMemory),
                              EpochPolicyError(p.epochs)}
<1> DEFINE measured == MeasuredCapacity(p.reads) \/ MeasuredCapacity(p.writes)
           s == <<When(measured, "value"), When(DuplicateDomain(p), "duplicate"),
                  When(ChoicesDisagree(p), "choices"), When(MissingPort(p), "missing_port"),
                  When(MeasuredDispatchDomain(p), "measure"), RenamePolicyError(p.rename),
                  When(MeasuredIssueDomain(p), "value"),
                  When(UnknownIssueDomain(p), "unknown_domain"),
                  VectorMemoryPolicyError(p.vectorMemory), EpochPolicyError(p.epochs)>>
<1>1. ConstructError(p) = ProfileFirstOf(s)
  BY DEF ConstructError
<1>2. \A cs : BadCycles(cs) \in {"none", "measure", "ticks"}
  BY DEF BadCycles
<1>3. /\ RenamePolicyError(p.rename) \in {"none", "measure", "ticks"}
      /\ VectorMemoryPolicyError(p.vectorMemory) \in {"none", "measure", "ticks"}
      /\ EpochPolicyError(p.epochs) \in {"none", "measure", "ticks"}
  BY <1>2 DEF RenamePolicyError, VectorMemoryPolicyError, EpochPolicyError
<1>4. /\ DOMAIN s = 1..10
      /\ s[1] = When(measured, "value") /\ s[2] = When(DuplicateDomain(p), "duplicate")
      /\ s[3] = When(ChoicesDisagree(p), "choices")
      /\ s[4] = When(MissingPort(p), "missing_port")
      /\ s[5] = When(MeasuredDispatchDomain(p), "measure")
      /\ s[6] = RenamePolicyError(p.rename) /\ s[7] = When(MeasuredIssueDomain(p), "value")
      /\ s[8] = When(UnknownIssueDomain(p), "unknown_domain")
      /\ s[9] = VectorMemoryPolicyError(p.vectorMemory) /\ s[10] = EpochPolicyError(p.epochs)
  OBVIOUS
<1> HIDE DEF s, measured
<1>5. /\ ProfileFirstOf(s) = "none" => \A k \in 1..10 : s[k] = "none"
      /\ ProfileFirstOf(s) # "none" => \E k \in 1..10 : ProfileFirstOf(s) = s[k]
  <2>1. DOMAIN s \subseteq Nat
    BY <1>4
  <2> QED
    BY <1>4, <2>1, FirstOfFacts
<1>6. CASE ProfileFirstOf(s) = "none"
  <2>1. s[3] = "none" /\ s[5] = "none" /\ s[6] = "none" /\ s[7] = "none" /\ s[8] = "none"
    BY <1>5, <1>6
  <2> QED
    BY <1>1, <1>4, <1>6, <2>1 DEF When, Errors
<1>7. CASE ProfileFirstOf(s) # "none"
  <2>1. PICK k \in 1..10 : ProfileFirstOf(s) = s[k]
    BY <1>5, <1>7
  <2>2. k \in {1, 2, 3, 4, 5, 6, 7, 8, 9, 10}
    BY <2>1
  <2> QED
    BY <1>1, <1>3, <1>4, <1>7, <2>1, <2>2 DEF When, Errors
<1> QED
  BY <1>6, <1>7

LEMMA StepFacts ==
    /\ DOMAIN Steps = 1..7 /\ Len(Steps) = 7
    /\ Steps[1] = "isa" /\ Steps[2] = "topology" /\ Steps[3] = "dependency"
    /\ Steps[4] = "evidence" /\ Steps[5] = "overlap" /\ Steps[6] = "issue"
    /\ Steps[7] = "dispatch"
BY DEF Steps

\* A validator is passed only by a profile it accepts.
LEMMA ValidateFacts ==
    ASSUME Validate
    PROVE  \/ profilePc' = "failed" /\ profileError' = "profile"
           \/ /\ profileError' = profileError
              /\ \/ profilePc = "isa" /\ profilePc' = "topology"
                 \/ profilePc = "topology" /\ profilePc' = "dependency" /\ TopologyValid(profile)
                 \/ profilePc = "dependency" /\ profilePc' = "evidence"
                 \/ profilePc = "evidence" /\ profilePc' = "overlap"
                 \/ profilePc = "overlap" /\ profilePc' = "issue"
                 \/ profilePc = "issue" /\ profilePc' = "dispatch" /\ IssueDomainsValid(profile)
                 \/ profilePc = "dispatch" /\ profilePc' = "resolve" /\ DispatchDomainsValid(profile)
<1>1. PICK k \in DOMAIN Steps :
         /\ profilePc = Steps[k]
         /\ IF ~ProfileValid(Steps[k], profile) THEN Fail("profile")
            ELSE ProfileGoOn(IF k = Len(Steps) THEN "resolve" ELSE Steps[k + 1])
  BY DEF Validate
<1>2. CASE ~ProfileValid(Steps[k], profile)
  BY <1>1, <1>2 DEF Fail
<1>3. CASE ProfileValid(Steps[k], profile)
  <2>1. k \in {1, 2, 3, 4, 5, 6, 7}
    BY <1>1, StepFacts
  <2>2. profileError' = profileError /\ profilePc' = IF k = 7 THEN "resolve" ELSE Steps[k + 1]
    BY <1>1, <1>3, StepFacts DEF ProfileGoOn
  <2>3. /\ k = 2 => TopologyValid(profile)
        /\ k = 6 => IssueDomainsValid(profile)
        /\ k = 7 => DispatchDomainsValid(profile)
    BY <1>3, StepFacts DEF ProfileValid
  <2> QED
    BY <1>1, <2>1, <2>2, <2>3, StepFacts
<1> QED
  BY <1>2, <1>3

\* An entry after the preparation uops is a uop of the recipe.
LEMMA EntryFacts ==
    ASSUME NEW p, ProfileType(p), NEW k \in DOMAIN Entries(p), ~(k <= Len(p.prep))
    PROVE  \E i \in DOMAIN p.recipe.uops : Entries(p)[k] = p.recipe.uops[i]
<1>1. PICK S, T : p.prep \in Seq(S) /\ p.recipe.uops \in Seq(T)
  BY DEF ProfileType, IsSequence
<1> DEFINE a == p.prep
           b == p.recipe.uops
<1>2. a \in Seq(S \cup T) /\ b \in Seq(S \cup T) /\ Len(a) \in Nat /\ Len(b) \in Nat
  BY <1>1
<1>3. Entries(p) = a \o b
  BY DEF Entries
<1> HIDE DEF a, b
<1>4. k \in 1..(Len(a) + Len(b))
  BY <1>2, <1>3
<1>5. k - Len(a) \in 1..Len(b) /\ (a \o b)[k] = b[k - Len(a)] /\ DOMAIN b = 1..Len(b)
  BY <1>2, <1>4 DEF a
<1> QED
  BY <1>3, <1>5 DEF b

\* A validated uop of the recipe names issue domains that exist and hold it.
LEMMA RecipeFits ==
    ASSUME NEW p, ProfileType(p), IssueDomainsValid(p),
           NEW k \in DOMAIN Entries(p), ~BoundUop(p, k).prep,
           NEW d \in BoundUop(p, k).domains
    PROVE  /\ d \in DOMAIN p.issueDomains
           /\ ~MeasuredIssueDomain(p) => ~(Demand(BoundUop(p, k), d) > p.issueDomains[d])
<1> DEFINE e == Entries(p)[k]
<1>1. /\ BoundUop(p, k).prep = (k <= Len(p.prep))
      /\ BoundUop(p, k).domains = e.domains /\ BoundUop(p, k).demands = e.demands
  BY DEF BoundUop
<1>2. PICK i \in DOMAIN p.recipe.uops : e = p.recipe.uops[i]
  BY <1>1, EntryFacts
<1>3. DemandsFit(e, e.domains, p.issueDomains)
  BY <1>2 DEF IssueDomainsValid
<1>4. /\ d \in DOMAIN p.issueDomains
      /\ IsInt(p.issueDomains[d]) => Demand(e, d) <= p.issueDomains[d]
  BY <1>1, <1>3 DEF DemandsFit
<1>5. p.issueDomains[d] \in Nat \cup {Measure}
  BY <1>4 DEF ProfileType
<1>6. Demand(BoundUop(p, k), d) = Demand(e, d)
  BY <1>1 DEF Demand
<1>7. Demand(e, d) \in Int
  <2>1. IntegerValued(e.demands)
    BY <1>2 DEF ProfileType
  <2> QED
    BY <2>1 DEF IntegerValued, Demand
<1> QED
  BY <1>4, <1>5, <1>6, <1>7 DEF IsInt, Measure, MeasuredIssueDomain

\* The dispatch domains of a validated recipe take it when they are empty.
LEMMA RecipeDispatches ==
    ASSUME NEW p, ProfileType(p), TopologyValid(p), DispatchDomainsValid(p),
           ~MeasuredDispatchDomain(p)
    PROVE  FrontBlocker(p) # "dispatch_domain_full" /\ RenameBlocker(p) # "dispatch_domain_full"
<1> DEFINE full == \E d \in ToSet(p.recipe.domains) : Demand(p.recipe, d) > p.dispatchDomains[d]
           rob == Accounted(p, p.basis.rob) > p.robEntries
           wide == Renames(p) /\ Allocations(p) > p.rename.allocation
           short == Renames(p) /\ \E f \in DOMAIN p.recipe.rename :
                        p.rename.lists[f] - p.recipe.rename[f] < p.rename.guard
<1>1. ASSUME NEW d \in ToSet(p.recipe.domains) PROVE ~(Demand(p.recipe, d) > p.dispatchDomains[d])
  <2>1. /\ d \in DOMAIN p.dispatchDomains
        /\ IsInt(p.dispatchDomains[d]) => Demand(p.recipe, d) <= p.dispatchDomains[d]
    BY <1>1 DEF DispatchDomainsValid, DemandsFit
  <2>2. Positive(p.dispatchDomains[d])
    BY <2>1 DEF TopologyValid, DispatchCapacitiesValid
  <2>3. p.dispatchDomains[d] \in Int /\ Demand(p.recipe, d) \in Int
    BY <2>1 DEF ProfileType, IntegerValued, Demand
  <2> QED
    BY <2>1, <2>2, <2>3 DEF Positive, IsInt, MeasuredDispatchDomain
<1>2. ~full
  BY <1>1
<1> DEFINE f == <<When(rob, "rob_full"), When(full, "dispatch_domain_full")>>
           r == <<When(wide, "rename_allocation_width"), When(short, "rename_free_list")>>
<1>3. FrontBlocker(p) = ProfileFirstOf(f) /\ RenameBlocker(p) = ProfileFirstOf(r)
  BY Zenon DEF FrontBlocker, RenameBlocker
<1> HIDE DEF full, rob, wide, short
<1>4. /\ DOMAIN f = 1..2 /\ f[1] # "dispatch_domain_full" /\ f[2] # "dispatch_domain_full"
      /\ DOMAIN r = 1..2 /\ r[1] # "dispatch_domain_full" /\ r[2] # "dispatch_domain_full"
  BY <1>2 DEF When
<1> HIDE DEF f, r
<1>5. DOMAIN f \subseteq Nat /\ DOMAIN r \subseteq Nat
  BY <1>4
<1>6. /\ ProfileFirstOf(f) # "none" => \E k \in 1..2 : ProfileFirstOf(f) = f[k]
      /\ ProfileFirstOf(r) # "none" => \E k \in 1..2 : ProfileFirstOf(r) = r[k]
  BY <1>4, <1>5, FirstOfFacts
<1>7. 1..2 = {1, 2}
  OBVIOUS
<1> QED
  BY <1>3, <1>4, <1>6, <1>7

\* A unit that can execute a bound uop is one of the profile's, in a partition
\* that lists it, with register ports that exist or none at all.
LEMMA UnitFacts ==
    ASSUME NEW p, TopologyValid(p), NEW k \in DOMAIN Entries(p), NEW u \in BoundUop(p, k).units
    PROVE  /\ u \in DOMAIN p.units
           /\ BoundUop(p, k).resources \cap p.units[u].resources # {}
           /\ p.units[u].partition \in BoundUop(p, k).partitions
           /\ \E j \in DOMAIN p.partitions :
                 Lists(p, j, u) /\ p.partitions[j].id = p.units[u].partition
           /\ p.units[u].write \notin DomainIds(p.writes) => p.units[u].write = ProfileNone
           /\ p.units[u].read \notin DomainIds(p.reads) => p.units[u].read = ProfileNone
<1>1. /\ BoundUop(p, k).units = UnitChoices(p, Entries(p)[k])
      /\ BoundUop(p, k).resources = Entries(p)[k].resources
      /\ BoundUop(p, k).partitions
            = {p.units[v].partition : v \in UnitChoices(p, Entries(p)[k])}
  BY DEF BoundUop
<1>2. /\ u \in DOMAIN p.units /\ BoundUop(p, k).resources \cap p.units[u].resources # {}
      /\ p.units[u].partition \in BoundUop(p, k).partitions
  BY <1>1 DEF UnitChoices
<1>3. PICK j \in DOMAIN p.partitions : Lists(p, j, u)
  BY <1>2 DEF TopologyValid, PartitionsAgree
<1>4. p.partitions[j].id = p.units[u].partition
  BY <1>3 DEF TopologyValid, PartitionsAgree, Lists
<1> QED
  BY <1>2, <1>3, <1>4 DEF TopologyValid, PortsKnown

\* The entries of an instruction: some preparation, and at least one uop.
LEMMA EntryCount ==
    ASSUME NEW p, ProfileType(p)
    PROVE  \E n, m \in Nat : Len(p.prep) = n /\ DOMAIN Entries(p) = 1..m /\ n < m
<1>1. PICK S, T : p.prep \in Seq(S) /\ p.recipe.uops \in Seq(T) /\ p.recipe.uops # <<>>
  BY DEF ProfileType, IsSequence
<1> DEFINE a == p.prep
           b == p.recipe.uops
<1>2. /\ a \in Seq(S \cup T) /\ b \in Seq(S \cup T)
      /\ Len(a) \in Nat /\ Len(b) \in Nat /\ Len(b) # 0
  BY <1>1
<1>3. Entries(p) = a \o b /\ Len(p.prep) = Len(a)
  BY DEF Entries
<1> HIDE DEF a, b
<1>4. DOMAIN (a \o b) = 1..(Len(a) + Len(b)) /\ Len(a) < Len(a) + Len(b) /\ Len(a) + Len(b) \in Nat
  BY <1>2
<1> QED
  BY <1>2, <1>3, <1>4

LEMMA GreatestMember ==
    ASSUME NEW m \in Nat, NEW S \in SUBSET (1..m), S # {}
    PROVE  \E k \in S : \A j \in S : j <= k
<1> DEFINE D == {m - k : k \in S}
<1>1. D \in SUBSET Nat /\ D # {}
  <2>1. \A k \in S : k \in 1..m /\ m - k \in Nat
    OBVIOUS
  <2> QED
    BY <2>1
<1>2. PICK d \in D : \A x \in D : d <= x
  <2> HIDE DEF D
  <2> QED
    BY <1>1, LeastMember
<1>3. PICK k \in S : d = m - k
  BY <1>2
<1>4. ASSUME NEW j \in S PROVE j <= k
  <2>1. m - j \in D /\ m - k <= m - j
    BY <1>2, <1>3
  <2>2. j \in 1..m /\ k \in 1..m
    OBVIOUS
  <2> QED
    BY <2>1, <2>2
<1> QED
  BY <1>4

\* A slot has a uop at least, and no others than those of the instruction.
LEMMA GroupsAreEntries ==
    ASSUME NEW p, ProfileType(p), NEW s \in DOMAIN SlotGroups(p)
    PROVE  SlotGroups(p)[s] \subseteq DOMAIN Entries(p) /\ SlotGroups(p)[s] # {}
<1>1. PICK n, m \in Nat : Len(p.prep) = n /\ DOMAIN Entries(p) = 1..m /\ n < m
  BY EntryCount
<1>2. Grouping(p) \in {"each", "part", "whole"}
  BY DEF ProfileType, Grouping
<1>3. CASE Grouping(p) = "each"
  <2>1. SlotGroups(p) = [k \in 1..m |-> {k}]
    BY <1>1, <1>3 DEF SlotGroups
  <2> QED
    BY <1>1, <2>1
<1>4. CASE Grouping(p) = "part"
  <2>1. SlotGroups(p) = [k \in 1..(n + 1) |-> IF k <= n THEN {k} ELSE {j \in 1..m : j > n}]
    BY <1>1, <1>4 DEF SlotGroups
  <2>2. m \in {j \in 1..m : j > n}
    BY <1>1
  <2>3. s \in 1..(n + 1) /\ (s <= n => s \in 1..m)
    BY <1>1, <2>1
  <2>4. SlotGroups(p)[s] = IF s <= n THEN {s} ELSE {j \in 1..m : j > n}
    BY <2>1, <2>3
  <2> QED
    BY <1>1, <2>2, <2>3, <2>4
<1>5. CASE Grouping(p) = "whole"
  <2>1. SlotGroups(p) = <<1..m>>
    BY <1>1, <1>5 DEF SlotGroups
  <2> QED
    BY <1>1, <2>1
<1> QED
  BY <1>2, <1>3, <1>4, <1>5

\* A slot is one of its uops in all but its units and partitions, which are those
\* of all its uops.
LEMMA ScheduledFacts ==
    ASSUME NEW p, ProfileType(p), NEW s \in DOMAIN ScheduledUops(p)
    PROVE  /\ s \in DOMAIN SlotGroups(p) /\ SlotGroups(p)[s] \subseteq DOMAIN Entries(p)
           /\ ScheduledUops(p)[s].units = UNION {BoundUop(p, k).units : k \in SlotGroups(p)[s]}
           /\ ScheduledUops(p)[s].partitions = UNION {BoundUop(p, k).partitions : k \in SlotGroups(p)[s]}
           /\ \E e \in SlotGroups(p)[s] :
                 /\ Entries(p)[e].data \/ \A i \in SlotGroups(p)[s] : ~Entries(p)[i].data
                 /\ ScheduledUops(p)[s].resources = BoundUop(p, e).resources
                 /\ ScheduledUops(p)[s].domains = BoundUop(p, e).domains
                 /\ ScheduledUops(p)[s].demands = BoundUop(p, e).demands
                 /\ ScheduledUops(p)[s].prep = BoundUop(p, e).prep
<1> DEFINE G == SlotGroups(p)[s]
           data == {k \in G : Entries(p)[k].data}
           candidates == IF data = {} THEN G ELSE data
           e == SlotOwner(p, G)
           units == UNION {BoundUop(p, k).units : k \in G}
           partitions == UNION {BoundUop(p, k).partitions : k \in G}
<1>1. s \in DOMAIN SlotGroups(p)
  BY DEF ScheduledUops
<1>2. G \subseteq DOMAIN Entries(p) /\ G # {}
  BY <1>1, GroupsAreEntries
<1>3. PICK m \in Nat : DOMAIN Entries(p) = 1..m
  BY EntryCount
<1>4. candidates \in SUBSET (1..m) /\ candidates # {} /\ candidates \subseteq G
  BY <1>2, <1>3
<1>5. e = CHOOSE k \in candidates : \A j \in candidates : j <= k
  BY Zenon DEF SlotOwner
<1>6. e \in candidates
  <2> HIDE DEF candidates, e
  <2>1. \E k \in candidates : \A j \in candidates : j <= k
    BY <1>4, GreatestMember
  <2> QED
    BY <1>5, <2>1
<1>7. e \in G /\ (Entries(p)[e].data \/ \A i \in G : ~Entries(p)[i].data)
  BY <1>4, <1>6
<1>8. ScheduledUops(p)[s] = [BoundUop(p, e) EXCEPT !.units = units, !.partitions = partitions]
  BY <1>1, Zenon DEF ScheduledUops, ScheduledUop
<1> HIDE DEF e, units, partitions
<1>9. \A r : r = [BoundUop(p, e) EXCEPT !.units = units, !.partitions = partitions] =>
         /\ r.units = units /\ r.partitions = partitions /\ r.resources = BoundUop(p, e).resources
         /\ r.domains = BoundUop(p, e).domains /\ r.demands = BoundUop(p, e).demands
         /\ r.prep = BoundUop(p, e).prep
  BY DEF BoundUop
<1> QED
  BY <1>1, <1>2, <1>7, <1>8, <1>9 DEF units, partitions

\* What UnitFacts says of the uops of a trace, of the slots that are made of them.
LEMMA ScheduledUnits ==
    ASSUME NEW p, ProfileType(p), TopologyValid(p), NEW s \in DOMAIN ScheduledUops(p),
           NEW u \in ScheduledUops(p)[s].units
    PROVE  /\ \E k \in SlotGroups(p)[s] : u \in UnitChoices(p, Entries(p)[k])
           /\ u \in DOMAIN p.units /\ p.units[u].partition \in ScheduledUops(p)[s].partitions
           /\ \E j \in DOMAIN p.partitions :
                 Lists(p, j, u) /\ p.partitions[j].id = p.units[u].partition
           /\ p.units[u].write \notin DomainIds(p.writes) => p.units[u].write = ProfileNone
           /\ p.units[u].read \notin DomainIds(p.reads) => p.units[u].read = ProfileNone
<1>1. PICK k \in SlotGroups(p)[s] : u \in BoundUop(p, k).units
  BY ScheduledFacts
<1>2. k \in DOMAIN Entries(p) /\ BoundUop(p, k).partitions \subseteq ScheduledUops(p)[s].partitions
  BY ScheduledFacts
<1>3. u \in UnitChoices(p, Entries(p)[k])
  BY <1>1 DEF BoundUop
<1> QED
  BY <1>1, <1>2, <1>3, UnitFacts

\* What RecipeFits says of a uop, of a slot that is made of it.
LEMMA ScheduledFits ==
    ASSUME NEW p, ProfileType(p), IssueDomainsValid(p), NEW s \in DOMAIN ScheduledUops(p),
           ~ScheduledUops(p)[s].prep, NEW d \in ScheduledUops(p)[s].domains
    PROVE  /\ d \in DOMAIN p.issueDomains
           /\ ~MeasuredIssueDomain(p) => ~(Demand(ScheduledUops(p)[s], d) > p.issueDomains[d])
<1>1. PICK e \in DOMAIN Entries(p) :
         /\ ScheduledUops(p)[s].domains = BoundUop(p, e).domains
         /\ ScheduledUops(p)[s].demands = BoundUop(p, e).demands
         /\ ScheduledUops(p)[s].prep = BoundUop(p, e).prep
  BY ScheduledFacts
<1>2. Demand(ScheduledUops(p)[s], d) = Demand(BoundUop(p, e), d)
  BY <1>1 DEF Demand
<1> QED
  BY <1>1, <1>2, RecipeFits

-----------------------------------------------------------------------------
(***************************************************************************)
(* Multiples.  A finite set of positive numbers has a common multiple,     *)
(* their product, so that there is a least one among the candidates.       *)
(***************************************************************************)
Times(d, n) == \E q \in Nat : n = q * d

LEMMA MultipleOf ==
    ASSUME NEW n \in Nat, NEW d \in Nat \ {0}
    PROVE  n % d = 0 <=> Times(d, n)
<1>1. n = d * (n \div d) + (n % d) /\ n \div d \in Nat /\ n % d \in 0..(d - 1)
  OBVIOUS
<1>2. ASSUME n % d = 0 PROVE Times(d, n)
  <2>1. PICK q \in Nat : n = d * q + (n % d)
    BY <1>1
  <2>2. d * q + 0 = q * d
    OBVIOUS
  <2> QED
    BY <1>2, <2>1, <2>2 DEF Times
<1>3. ASSUME NEW q \in Nat, n = q * d PROVE n % d = 0
  BY <1>3
<1> QED
  BY <1>2, <1>3 DEF Times

LEMMA TimesAgain ==
    ASSUME NEW n \in Nat, NEW d \in Nat \ {0}, Times(d, n), NEW k \in Nat
    PROVE  Times(d, k * n)
<1>1. PICK q \in Nat : n = q * d
  BY DEF Times
<1>2. k * n = (k * q) * d /\ k * q \in Nat
  BY <1>1
<1> QED
  BY <1>2 DEF Times

Picked(s) == CHOOSE x \in s : TRUE
IsProduct(S, g) ==
    g = [s \in SUBSET S |-> IF s = {} THEN 1 ELSE Picked(s) * g[s \ {Picked(s)}]]
Product(S) == FoldSet(LAMBDA a, b : a * b, 1, S)

LEMMA ProductIsFold ==
    ASSUME NEW S
    PROVE  Product(S) = (CHOOSE g : IsProduct(S, g))[S]
BY Zenon DEF Product, FoldSet, MapThenFoldSet, IsProduct, Picked

LEMMA LcmIsLeast ==
    ASSUME NEW S
    PROVE  Lcm(S) = Least({n \in 1..Product(S) : \A d \in S : n % d = 0})
BY Zenon DEF Lcm, Product

\* Subsets of a finite set: fewer members without one of them.
LEMMA Smaller ==
    ASSUME NEW S, IsFiniteSet(S), NEW s \in SUBSET S
    PROVE  /\ IsFiniteSet(s) /\ Cardinality(s) \in Nat
           /\ Cardinality(s) = 0 <=> s = {}
           /\ \A x \in s : Cardinality(s \ {x}) = Cardinality(s) - 1
           /\ s # {} => Picked(s) \in s
<1>1. IsFiniteSet(s)
  BY FS_Subset
<1>2. Cardinality(s) \in Nat /\ (Cardinality(s) = 0 <=> s = {})
  BY <1>1, FS_CardinalityType, FS_EmptySet
<1>3. \A x \in s : Cardinality(s \ {x}) = Cardinality(s) - 1
  BY <1>1, FS_RemoveElement
<1>4. s # {} => Picked(s) \in s
  BY DEF Picked
<1> QED
  BY <1>1, <1>2, <1>3, <1>4

\* The recursion of the fold has a solution: take the least cardinality up to
\* which there is none.
LEMMA ProductExists ==
    ASSUME NEW S, IsFiniteSet(S)
    PROVE  \E g : IsProduct(S, g)
<1> DEFINE Upto(n) == {s \in SUBSET S : Cardinality(s) <= n}
           Solves(n, g) == g = [s \in Upto(n) |->
                              IF s = {} THEN 1 ELSE Picked(s) * g[s \ {Picked(s)}]]
           Bad == {n \in Nat : ~\E g : Solves(n, g)}
<1>1. Bad = {}
  <2> SUFFICES ASSUME Bad # {} PROVE FALSE
    OBVIOUS
  <2>1. PICK n \in Bad : \A m \in Bad : n <= m
    <3>1. Bad \subseteq Nat
      OBVIOUS
    <3> HIDE DEF Bad
    <3> QED
      BY <3>1, LeastMember
  <2>2. n \in Nat /\ ~\E g : Solves(n, g)
    OBVIOUS
  <2>3. CASE n = 0
    <3> DEFINE g == [s \in Upto(n) |-> 1]
    <3>1. \A s \in Upto(n) : s = {}
      BY <2>3, Smaller
    <3>2. Solves(n, g)
      <4> HIDE DEF Upto
      <4> QED
        BY <3>1
    <3> QED
      BY <2>2, <3>2
  <2>4. CASE n # 0
    <3>1. n - 1 \in Nat /\ n - 1 \notin Bad
      <4>1. n - 1 \in Nat /\ ~(n <= n - 1)
        BY <2>2, <2>4
      <4> HIDE DEF Bad
      <4> QED
        BY <2>1, <4>1
    <3>2. PICK g : Solves(n - 1, g)
      BY <3>1
    <3> DEFINE h == [s \in Upto(n) |->
                        IF s = {} THEN 1 ELSE Picked(s) * g[s \ {Picked(s)}]]
    <3>3. \A s \in Upto(n) : s # {} => s \ {Picked(s)} \in Upto(n - 1)
      BY <2>2, Smaller
    <3>4. \A s \in Upto(n - 1) : s \in Upto(n)
      BY <2>2, Smaller
    <3> HIDE DEF Upto
    <3>5. \A s \in Upto(n - 1) : h[s] = g[s]
      BY <3>2, <3>4
    <3>6. Solves(n, h)
      BY <3>3, <3>5
    <3> QED
      BY <2>2, <3>6
  <2> QED
    BY <2>3, <2>4
<1>2. Cardinality(S) \in Nat /\ S \in SUBSET S
  BY Smaller
<1>3. PICK g : Solves(Cardinality(S), g)
  BY <1>1, <1>2
<1>4. Upto(Cardinality(S)) = SUBSET S
  BY FS_Subset
<1>5. IsProduct(S, g)
  <2> HIDE DEF Upto
  <2> QED
    BY <1>3, <1>4 DEF IsProduct
<1> QED
  BY <1>5

\* The product is a positive multiple of each factor.
LEMMA ProductFacts ==
    ASSUME NEW S, IsFiniteSet(S), S \subseteq Nat \ {0}
    PROVE  Product(S) \in Nat \ {0} /\ \A d \in S : Times(d, Product(S))
<1>1. PICK g : IsProduct(S, g) /\ Product(S) = g[S]
  BY ProductExists, ProductIsFold
<1> DEFINE Good(s) == g[s] \in Nat \ {0} /\ \A d \in s : Times(d, g[s])
           Bad == {n \in Nat : \E s \in SUBSET S : Cardinality(s) = n /\ ~Good(s)}
<1>2. Bad = {}
  <2> SUFFICES ASSUME Bad # {} PROVE FALSE
    OBVIOUS
  <2>1. PICK n \in Bad : \A m \in Bad : n <= m
    <3>1. Bad \subseteq Nat
      OBVIOUS
    <3> HIDE DEF Bad
    <3> QED
      BY <3>1, LeastMember
  <2>2. PICK s \in SUBSET S : n \in Nat /\ Cardinality(s) = n /\ ~Good(s)
    OBVIOUS
  <2>3. s # {}
    BY <1>1, <2>2 DEF IsProduct
  <2>4. PICK x : x = Picked(s) /\ x \in s
    BY <2>3, Smaller
  <2>5. PICK r : r = s \ {x} /\ r \in SUBSET S
    OBVIOUS
  <2>6. Cardinality(r) \in Nat /\ Cardinality(r) < n
    BY <2>2, <2>4, <2>5, Smaller
  <2>7. Cardinality(r) \notin Bad
    <3> HIDE DEF Bad
    <3> QED
      BY <2>1, <2>2, <2>6
  <2>8. Good(r)
    BY <2>5, <2>6, <2>7
  <2>9. g[s] = x * g[r]
    BY <1>1, <2>3, <2>4, <2>5 DEF IsProduct
  <2>10. x \in Nat \ {0} /\ g[s] \in Nat \ {0}
    <3>1. x \in Nat \ {0}
      BY <2>4
    <3>2. \A a, b \in Nat \ {0} : a * b \in Nat \ {0}
      OBVIOUS
    <3> QED
      BY <2>8, <2>9, <3>1, <3>2
  <2>11. Times(x, g[s])
    <3>1. g[s] = g[r] * x
      BY <2>8, <2>9, <2>10
    <3> QED
      BY <2>8, <3>1 DEF Times
  <2>12. \A d \in r : Times(d, g[s])
    <3> SUFFICES ASSUME NEW d \in r PROVE Times(d, g[s])
      OBVIOUS
    <3>1. Times(d, g[r]) /\ d \in Nat \ {0} /\ g[r] \in Nat /\ x \in Nat
      BY <2>5, <2>8, <2>10
    <3> QED
      BY <2>9, <3>1, TimesAgain
  <2> QED
    BY <2>2, <2>4, <2>5, <2>10, <2>11, <2>12
<1>3. Good(S)
  <2>1. Cardinality(S) \in Nat /\ Cardinality(S) \notin Bad
    BY <1>2, Smaller
  <2> QED
    BY <2>1
<1> QED
  BY <1>1, <1>3

\* math.lcm of the denominators is a multiple of each.
LEMMA LcmFacts ==
    ASSUME NEW S, IsFiniteSet(S), S \subseteq Nat \ {0}
    PROVE  Lcm(S) \in Nat \ {0} /\ \A d \in S : Times(d, Lcm(S))
<1>1. PICK m : m = Product(S) /\ m \in Nat \ {0} /\ \A d \in S : Times(d, m)
  BY ProductFacts
<1> DEFINE C == {n \in 1..m : \A d \in S : n % d = 0}
<1>2. m \in C
  <2>1. \A d \in S : m % d = 0
    BY <1>1, MultipleOf
  <2> QED
    BY <1>1, <2>1
<1>3. C \subseteq Nat /\ C # {}
  BY <1>1, <1>2
<1>4. Least(C) \in C
  <2> HIDE DEF C
  <2> QED
    BY <1>3, LeastMember
<1>5. Lcm(S) = Least(C)
  BY <1>1, LcmIsLeast
<1>6. Lcm(S) \in C
  BY <1>4, <1>5
<1>7. Lcm(S) \in Nat \ {0} /\ \A d \in S : Lcm(S) % d = 0
  BY <1>1, <1>6
<1> QED
  BY <1>7, MultipleOf

LEMMA TransferFacts ==
    ASSUME NEW w \in Nat, NEW b \in Nat \ {0}
    PROVE  /\ TransferDenominator(w, b) \in Nat \ {0}
           /\ Times(b, w * TransferDenominator(w, b))
<1> DEFINE C == {d \in 1..b : (w * d) % b = 0}
<1>1. b \in C
  <2>1. w * b \in Nat /\ Times(b, w * b)
    BY DEF Times
  <2>2. (w * b) % b = 0
    BY <2>1, MultipleOf
  <2> QED
    BY <2>2
<1>2. Least(C) \in C
  <2>1. C \subseteq 1..b
    BY Zenon
  <2> HIDE DEF C
  <2>2. C \subseteq Nat /\ C # {}
    BY <1>1, <2>1
  <2> QED
    BY <2>2, LeastMember
<1>3. PICK d : d = TransferDenominator(w, b) /\ d \in C
  BY <1>2 DEF TransferDenominator
<1>4. w * d \in Nat
  BY <1>3
<1> QED
  BY <1>3, <1>4, MultipleOf

-----------------------------------------------------------------------------
(* The invariant, action by action. *)

LEMMA ProfileInitInv == ProfileInit => ProfileIInv
<1> SUFFICES ASSUME ProfileInit PROVE ProfileIInv
  OBVIOUS
<1>1. profilePc = "edit" /\ profileError = "none" /\ blocker = "none" /\ profile = Base
  BY DEF ProfileInit
<1>2. TypeInv
  BY <1>1, BaseAssumption DEF TypeInv
<1>3. ErrorInv /\ AcceptedInv /\ BoundInv /\ ConstructedInv
  BY <1>1 DEF ErrorInv, AcceptedInv, BoundInv, ConstructedInv, Late, Constructed
<1>4. EngineAgrees /\ LateErrorOnlyFromPrep /\ DomainsAdmit /\ QueuedWhereListed
  BY <1>1 DEF EngineAgrees, LateErrorOnlyFromPrep, DomainsAdmit, QueuedWhereListed
<1> QED
  BY <1>2, <1>3, <1>4 DEF ProfileIInv

\* Replacing a field keeps the profile a profile.
LEMMA EditType ==
    ASSUME TypeInv, NEW f \in DOMAIN Alternatives, NEW v \in Alternatives[f]
    PROVE  LET q == [profile EXCEPT ![f] = v] IN DOMAIN q = DOMAIN Base /\ ProfileType(q)
<1> DEFINE q == [profile EXCEPT ![f] = v]
           b == [Base EXCEPT ![f] = v]
           Fields == {"prep", "recipe", "resources", "issueDomains", "dispatchDomains",
                      "vectorMemory", "rename", "epochs"}
<1>1. f \in DOMAIN Base /\ ProfileType(b) /\ Fields \subseteq DOMAIN Base
  BY AlternativesAssumption, BaseAssumption
<1>2. DOMAIN q = DOMAIN Base /\ DOMAIN b = DOMAIN Base /\ DOMAIN profile = DOMAIN Base
  BY DEF TypeInv
<1>3. \A x \in Fields : q[x] = b[x] \/ q[x] = profile[x]
  BY <1>1, <1>2
<1>4. /\ q.prep \in {b.prep, profile.prep} /\ q.recipe \in {b.recipe, profile.recipe}
      /\ q.issueDomains \in {b.issueDomains, profile.issueDomains}
      /\ q.dispatchDomains \in {b.dispatchDomains, profile.dispatchDomains}
      /\ q.resources \in {b.resources, profile.resources}
      /\ q.vectorMemory \in {b.vectorMemory, profile.vectorMemory}
      /\ q.rename \in {b.rename, profile.rename} /\ q.epochs \in {b.epochs, profile.epochs}
  BY <1>3
<1> HIDE DEF q, b
<1>5. ProfileType(q)
  BY <1>1, <1>4 DEF TypeInv, ProfileType
<1> QED
  BY <1>2, <1>5 DEF q

LEMMA ProfileEarlyInv ==
    ASSUME ProfileIInv, Edit \/ Load \/ Validate \/ Resolve
    PROVE  ProfileIInv'
<1>1. /\ profileUops' = profileUops /\ blocker' = blocker
      /\ profilePc \in {"edit", "isa", "topology", "dependency", "evidence", "overlap", "issue",
                 "dispatch", "resolve"}
  BY StepFacts DEF Edit, Load, Validate, Resolve
<1>2. profileError = "none" /\ profileError' \in {"none", "profile"}
      /\ profilePc' \in {"edit", "isa", "topology", "dependency", "evidence", "overlap", "issue",
                  "dispatch", "resolve", "bind", "failed"}
      /\ (profileError' # "none" => profilePc' = "failed")
  BY <1>1, ValidateFacts, StepFacts DEF ProfileIInv, ErrorInv, Edit, Load, Resolve, ProfileGoOn
<1>3. TypeInv'
  <2>1. CASE Edit
    <3>0. PICK f \in DOMAIN Alternatives :
             \E v \in Alternatives[f] : profile' = [profile EXCEPT ![f] = v]
      BY <2>1 DEF Edit
    <3>1. PICK v \in Alternatives[f] : profile' = [profile EXCEPT ![f] = v]
      BY <3>0
    <3>2. DOMAIN [profile EXCEPT ![f] = v] = DOMAIN Base
          /\ ProfileType([profile EXCEPT ![f] = v])
      BY EditType, Zenon DEF ProfileIInv
    <3> QED
      BY <3>1, <3>2, Zenon DEF TypeInv
  <2>2. CASE Load \/ Validate \/ Resolve
    <3>1. profile' = profile
      BY <2>2 DEF Load, Validate, Resolve
    <3> QED
      BY <3>1 DEF ProfileIInv, TypeInv
  <2> QED
    BY <2>1, <2>2
<1>4. AcceptedInv'
  <2>1. CASE Edit
    BY <2>1 DEF Edit, AcceptedInv, Late
  <2>2. CASE Load
    BY <2>2, StepFacts DEF Load, ProfileGoOn, AcceptedInv, Late
  <2>3. CASE Validate
    <3>1. profile' = profile
      BY <2>3 DEF Validate
    <3> QED
      BY <2>3, <3>1, ValidateFacts DEF ProfileIInv, AcceptedInv, Late
  <2>4. CASE Resolve
    BY <2>4 DEF Resolve, ProfileGoOn, ProfileIInv, AcceptedInv, Late
  <2> QED
    BY <2>1, <2>2, <2>3, <2>4
<1>5. ErrorInv' /\ BoundInv' /\ ConstructedInv' /\ DomainsAdmit' /\ QueuedWhereListed'
  BY <1>1, <1>2 DEF ProfileIInv, ErrorInv, BoundInv, ConstructedInv, Constructed, DomainsAdmit,
                    QueuedWhereListed
<1>6. EngineAgrees' /\ LateErrorOnlyFromPrep'
  BY <1>2 DEF EngineAgrees, LateErrorOnlyFromPrep
<1> QED
  BY <1>3, <1>4, <1>5, <1>6 DEF ProfileIInv

LEMMA BindInv ==
    ASSUME ProfileIInv, ProfileBind
    PROVE  ProfileIInv'
<1>1. profilePc = "bind" /\ profileError = "none" /\ profile' = profile /\ blocker' = blocker
  BY DEF ProfileBind, ProfileIInv, ErrorInv
<1>2. BindError(profile) \in {"none", "profile", "measure", "ticks"}
  BY DEF BindError, BadCycles
<1>3. \/ profilePc' = "failed" /\ profileError' \in {"profile", "measure", "ticks"}
      \/ profilePc' \in {"construct", "zen4"} /\ profileError' = "none"
  BY <1>1, <1>2 DEF ProfileBind, Fail, ProfileGoOn
<1>4. TypeInv' /\ AcceptedInv'
  BY <1>1, <1>3 DEF ProfileIInv, TypeInv, AcceptedInv, Late
<1>5. ErrorInv' /\ BoundInv' /\ ConstructedInv' /\ DomainsAdmit' /\ QueuedWhereListed'
  BY <1>1, <1>3 DEF ProfileIInv, ErrorInv, BoundInv, ConstructedInv, Constructed, DomainsAdmit,
                    QueuedWhereListed
<1>6. EngineAgrees' /\ LateErrorOnlyFromPrep'
  BY <1>3 DEF EngineAgrees, LateErrorOnlyFromPrep
<1> QED
  BY <1>4, <1>5, <1>6 DEF ProfileIInv

\* The constructor's own checks of the topology find nothing new but in slots of
\* uops on different units.
LEMMA ConstructInv ==
    ASSUME ProfileIInv, Construct
    PROVE  ProfileIInv'
<1> DEFINE slots == ScheduledUops(profile)
<1>1. /\ profilePc = "construct" /\ profileError = "none" /\ profile' = profile /\ profileUops' = slots
      /\ blocker' = blocker
      /\ \/ profilePc' = "failed" /\ profileError' = ConstructError(profile) /\ profileError' # "none"
         \/ profilePc' = "admit" /\ profileError' = "none" /\ ConstructError(profile) = "none"
  BY DEF Construct, Fail, ProfileGoOn, ProfileIInv, ErrorInv
<1>2. ProfileType(profile) /\ TopologyValid(profile) /\ IssueDomainsValid(profile)
  BY <1>1 DEF ProfileIInv, TypeInv, AcceptedInv, Late
<1>3. ~DuplicateDomain(profile)
  BY <1>2 DEF TopologyValid, DomainsKnown, DuplicateDomain
<1>4. ASSUME ChoicesDisagree(profile)
      PROVE  /\ profile.model = "xsai-rvv"
             /\ \E s \in DOMAIN SlotGroups(profile) : \E j, k \in SlotGroups(profile)[s] :
                   /\ ~(UnitChoices(profile, Entries(profile)[k]) \subseteq UnitChoices(profile, Entries(profile)[j]))
                   /\ Entries(profile)[j].data \/ \A i \in SlotGroups(profile)[s] : ~Entries(profile)[i].data
  <2> HIDE DEF slots
  <2>1. PICK s \in DOMAIN ScheduledUops(profile) :
           LET uop == ScheduledUops(profile)[s] IN
           \/ uop.partitions # {profile.units[u].partition : u \in uop.units}
           \/ ~(uop.partitions \subseteq {profile.partitions[j].id : j \in DOMAIN profile.partitions})
           \/ \E u \in uop.units : uop.resources \cap profile.units[u].resources = {}
    BY <1>4, Zenon DEF ChoicesDisagree
  <2> DEFINE uop == ScheduledUops(profile)[s]
             G == SlotGroups(profile)[s]
  <2>2. uop.partitions = {profile.units[u].partition : u \in uop.units}
    <3>1. \A k \in G : BoundUop(profile, k).partitions
                          = {profile.units[u].partition : u \in BoundUop(profile, k).units}
      BY DEF BoundUop
    <3>2. /\ uop.units = UNION {BoundUop(profile, k).units : k \in G}
          /\ uop.partitions = UNION {BoundUop(profile, k).partitions : k \in G}
      BY <1>2, ScheduledFacts
    <3> HIDE DEF uop, G
    <3> QED
      BY <3>1, <3>2
  <2>3. \A u \in uop.units :
           \E j \in DOMAIN profile.partitions : profile.partitions[j].id = profile.units[u].partition
    BY <1>2, ScheduledUnits
  <2>4. uop.partitions \subseteq {profile.partitions[j].id : j \in DOMAIN profile.partitions}
    <3> HIDE DEF uop
    <3> QED
      BY <2>2, <2>3
  <2>5. PICK u \in uop.units : uop.resources \cap profile.units[u].resources = {}
    BY <2>1, <2>2, <2>4
  <2>6. PICK e \in G : /\ Entries(profile)[e].data \/ \A i \in G : ~Entries(profile)[i].data
                       /\ uop.resources = BoundUop(profile, e).resources
    BY <1>2, ScheduledFacts
  <2>7. PICK k \in G : u \in UnitChoices(profile, Entries(profile)[k])
    BY <1>2, ScheduledUnits
  <2>8. u \notin UnitChoices(profile, Entries(profile)[e])
    BY <2>5, <2>6 DEF BoundUop, UnitChoices
  <2>9. s \in DOMAIN SlotGroups(profile) /\ e # k
    BY <1>2, <2>7, <2>8, ScheduledFacts
  <2>10. profile.model = "xsai-rvv"
    <3> SUFFICES ASSUME profile.model # "xsai-rvv" PROVE FALSE
      OBVIOUS
    <3>1. SlotGroups(profile) = [i \in DOMAIN Entries(profile) |-> {i}]
      BY DEF SlotGroups, Grouping
    <3> QED
      BY <2>9, <3>1
  <2> QED
    BY <2>6, <2>7, <2>8, <2>9, <2>10
<1>6. EngineAgrees'
  <2>1. profileError' # "duplicate"
    BY <1>1, <1>3, ConstructFacts
  <2>2. profileError' = "choices" => ChoicesDisagree(profile)
    BY <1>1, ConstructFacts
  <2>3. ASSUME profileError' = "missing_port"
        PROVE  \E k \in DOMAIN slots : \E u \in slots[k].units :
                  \/ slots[k].completion /\ profile.units[u].write = ProfileNone
                  \/ slots[k].read /\ profile.units[u].read = ProfileNone
    <3>1. MissingPort(profile)
      BY <1>1, <2>3, ConstructFacts
    <3>2. PICK k \in DOMAIN slots : \E u \in slots[k].units :
             \/ slots[k].completion /\ profile.units[u].write \notin DomainIds(profile.writes)
             \/ slots[k].read /\ profile.units[u].read \notin DomainIds(profile.reads)
      BY <3>1 DEF MissingPort
    <3> QED
      BY <1>2, <3>2, ScheduledUnits
  <2>4. SlotGroups(profile)' = SlotGroups(profile)
    BY <1>1
  <2> HIDE DEF slots
  <2> QED
    BY <1>1, <1>4, <2>1, <2>2, <2>3, <2>4 DEF EngineAgrees, UnitChoices
<1>7. LateErrorOnlyFromPrep'
  <2>1. profileError' # "demand"
    BY <1>1, ConstructFacts
  <2>2. ASSUME profileError' = "unknown_domain"
        PROVE  \E k \in DOMAIN slots : slots[k].prep
                  /\ \E d \in slots[k].domains : d \notin DOMAIN profile.issueDomains
    <3>1. UnknownIssueDomain(profile)
      BY <1>1, <2>2, ConstructFacts
    <3>2. PICK k \in DOMAIN slots : ~(slots[k].domains \subseteq DOMAIN profile.issueDomains)
      BY <3>1 DEF UnknownIssueDomain
    <3>3. PICK d \in slots[k].domains : d \notin DOMAIN profile.issueDomains
      BY <3>2
    <3>4. slots[k].prep
      BY <1>2, <3>2, <3>3, ScheduledFits
    <3> QED
      BY <3>3, <3>4
  <2> HIDE DEF slots
  <2> QED
    BY <1>1, <2>1, <2>2 DEF LateErrorOnlyFromPrep
<1>8. TypeInv' /\ ErrorInv' /\ AcceptedInv'
  BY <1>1, <1>2 DEF ProfileIInv, TypeInv, ErrorInv, AcceptedInv, Late
<1>9. BoundInv' /\ ConstructedInv'
  <2>1. /\ ScheduledUops(profile)' = ScheduledUops(profile)
        /\ ChoicesDisagree(profile)' = ChoicesDisagree(profile)
        /\ MeasuredDispatchDomain(profile)' = MeasuredDispatchDomain(profile)
        /\ MeasuredIssueDomain(profile)' = MeasuredIssueDomain(profile)
        /\ UnknownIssueDomain(profile)' = UnknownIssueDomain(profile)
    BY <1>1, Zenon
  <2> HIDE DEF slots
  <2>2. ConstructedInv'
    BY <1>1, <2>1, ConstructFacts DEF ConstructedInv, Constructed
  <2>3. BoundInv'
    BY <1>1, <2>1 DEF BoundInv, Constructed, slots
  <2> QED
    BY <2>2, <2>3
<1>10. DomainsAdmit' /\ QueuedWhereListed'
  BY <1>1 DEF ProfileIInv, DomainsAdmit, QueuedWhereListed
<1> QED
  BY <1>6, <1>7, <1>8, <1>9, <1>10 DEF ProfileIInv

\* What the constructor leaves behind is not changed any more.
LEMMA ConstructedKept ==
    ASSUME BoundInv, ConstructedInv, UNCHANGED <<profile, profileUops>>,
           profilePc' \in Constructed => profilePc \in Constructed
    PROVE  BoundInv' /\ ConstructedInv'
<1>1. /\ ScheduledUops(profile)' = ScheduledUops(profile)
      /\ ChoicesDisagree(profile)' = ChoicesDisagree(profile)
      /\ MeasuredDispatchDomain(profile)' = MeasuredDispatchDomain(profile)
      /\ MeasuredIssueDomain(profile)' = MeasuredIssueDomain(profile)
      /\ UnknownIssueDomain(profile)' = UnknownIssueDomain(profile)
  BY Zenon
<1>2. BoundInv'
  BY <1>1 DEF BoundInv, Constructed
<1>3. ConstructedInv'
  BY <1>1 DEF ConstructedInv, Constructed
<1> QED
  BY <1>2, <1>3

LEMMA AdmitInv ==
    ASSUME ProfileIInv, Admit
    PROVE  ProfileIInv'
<1>1. /\ profilePc = "admit" /\ profileError = "none" /\ profile' = profile /\ profileUops' = profileUops
      /\ \/ profilePc' = "failed" /\ profileError' = "unknown_list" /\ blocker' = blocker
         \/ /\ profilePc' \in {"issue_uops", "starved"} /\ profileError' = "none"
            /\ blocker' \in {FrontBlocker(profile), RenameBlocker(profile)}
  BY DEF Admit, Fail, ProfileGoOn, ProfileIInv, ErrorInv
<1>2. DomainsAdmit'
  <2>1. /\ ProfileType(profile) /\ TopologyValid(profile) /\ DispatchDomainsValid(profile)
        /\ ~MeasuredDispatchDomain(profile)
    BY <1>1 DEF ProfileIInv, TypeInv, AcceptedInv, ConstructedInv, Late, Constructed
  <2>2. FrontBlocker(profile) # "dispatch_domain_full"
        /\ RenameBlocker(profile) # "dispatch_domain_full"
    BY <2>1, RecipeDispatches
  <2> QED
    BY <1>1, <2>2 DEF ProfileIInv, DomainsAdmit
<1>3. TypeInv' /\ ErrorInv' /\ AcceptedInv'
  BY <1>1 DEF ProfileIInv, TypeInv, ErrorInv, AcceptedInv, Late
<1>4. BoundInv' /\ ConstructedInv'
  BY <1>1, ConstructedKept DEF ProfileIInv, Constructed
<1>5. EngineAgrees' /\ LateErrorOnlyFromPrep' /\ QueuedWhereListed'
  BY <1>1 DEF EngineAgrees, LateErrorOnlyFromPrep, QueuedWhereListed
<1> QED
  BY <1>2, <1>3, <1>4, <1>5 DEF ProfileIInv

LEMMA IssueInv ==
    ASSUME ProfileIInv, IssueUops
    PROVE  ProfileIInv'
<1> DEFINE slots == ScheduledUops(profile)
<1>1. /\ profilePc = "issue_uops" /\ profileError = "none" /\ profile' = profile /\ profileUops' = profileUops
      /\ blocker' = blocker
      /\ \/ profilePc' = "failed" /\ profileError' = "demand" /\ \E k \in DOMAIN profileUops : TooLargeDemand(profileUops[k])
         \/ profilePc' = "running" /\ profileError' = "none"
  BY DEF IssueUops, Fail, ProfileGoOn, ProfileIInv, ErrorInv
<1>2. /\ ProfileType(profile) /\ TopologyValid(profile) /\ IssueDomainsValid(profile)
      /\ profileUops = slots /\ ~MeasuredIssueDomain(profile) /\ ~ChoicesDisagree(profile)
  BY <1>1 DEF ProfileIInv, TypeInv, AcceptedInv, BoundInv, ConstructedInv, Late, Constructed
<1>3. slots' = slots
  BY <1>1, Zenon
<1> HIDE DEF slots
<1>4. LateErrorOnlyFromPrep'
  <2>1. ASSUME profileError' = "demand"
        PROVE  \E k \in DOMAIN profileUops : profileUops[k].prep
                  /\ \E d \in profileUops[k].domains : Demand(profileUops[k], d) > profile.issueDomains[d]
    <3>1. PICK k \in DOMAIN profileUops : TooLargeDemand(profileUops[k])
      BY <1>1, <2>1
    <3>2. PICK d \in profileUops[k].domains : Demand(profileUops[k], d) > profile.issueDomains[d]
      BY <3>1 DEF TooLargeDemand
    <3>3. profileUops[k].prep
      BY <1>2, <3>1, <3>2, ScheduledFits DEF slots
    <3> QED
      BY <3>2, <3>3
  <2> QED
    BY <1>1, <2>1 DEF LateErrorOnlyFromPrep
<1>5. QueuedWhereListed'
  <2>1. \A k \in DOMAIN slots : \A u \in slots[k].units :
           slots[k].resources \cap profile.units[u].resources # {}
    BY <1>2, Zenon DEF ChoicesDisagree, slots
  <2>2. \A k \in DOMAIN slots : \A u \in slots[k].units :
           \E j \in DOMAIN profile.partitions :
               /\ Lists(profile, j, u)
               /\ profile.partitions[j].id \in slots[k].partitions
               /\ profile.partitions[j].id = profile.units[u].partition
    <3> SUFFICES ASSUME NEW k \in DOMAIN slots, NEW u \in slots[k].units
                 PROVE  \E j \in DOMAIN profile.partitions :
                           /\ Lists(profile, j, u)
                           /\ profile.partitions[j].id \in slots[k].partitions
                           /\ profile.partitions[j].id = profile.units[u].partition
      OBVIOUS
    <3>1. /\ profile.units[u].partition \in slots[k].partitions
          /\ \E j \in DOMAIN profile.partitions :
                Lists(profile, j, u) /\ profile.partitions[j].id = profile.units[u].partition
      BY <1>2, ScheduledUnits DEF slots
    <3> QED
      BY <3>1
  <2> QED
    BY <1>1, <1>2, <2>1, <2>2 DEF QueuedWhereListed, Lists
<1>6. TypeInv' /\ ErrorInv' /\ AcceptedInv'
  BY <1>1 DEF ProfileIInv, TypeInv, ErrorInv, AcceptedInv, Late
<1>7. BoundInv' /\ ConstructedInv'
  BY <1>1, ConstructedKept DEF ProfileIInv, Constructed
<1>8. EngineAgrees' /\ DomainsAdmit'
  BY <1>1 DEF ProfileIInv, EngineAgrees, DomainsAdmit
<1> QED
  BY <1>4, <1>5, <1>6, <1>7, <1>8 DEF ProfileIInv

LEMMA StutterInv ==
    ASSUME ProfileIInv, UNCHANGED profileVars
    PROVE  ProfileIInv'
<1>1. UNCHANGED <<profile, profilePc, profileError, profileUops, blocker>>
  BY DEF profileVars
<1>2. BoundInv' /\ ConstructedInv'
  BY <1>1, ConstructedKept DEF ProfileIInv, Constructed
<1>3. SlotGroups(profile)' = SlotGroups(profile)
  BY <1>1
<1>4. EngineAgrees' /\ LateErrorOnlyFromPrep' /\ DomainsAdmit' /\ QueuedWhereListed'
  BY <1>1, <1>3 DEF ProfileIInv, EngineAgrees, LateErrorOnlyFromPrep, DomainsAdmit, QueuedWhereListed, Lists,
                    UnitChoices
<1> QED
  BY <1>1, <1>2, <1>4 DEF ProfileIInv, TypeInv, ErrorInv, AcceptedInv, Late

\* The inductive invariant: what each step of the pipeline has established.
THEOREM ProfileInvariance == ProfileSpec => []ProfileIInv
<1>1. ProfileInit => ProfileIInv
  BY ProfileInitInv
<1>2. ProfileIInv /\ [ProfileNext]_profileVars => ProfileIInv'
  BY ProfileEarlyInv, BindInv, ConstructInv, AdmitInv, IssueInv, StutterInv DEF ProfileNext, ProfileStopped
<1> QED
  BY <1>1, <1>2, PTL DEF ProfileSpec

\* _validate_topology_choices of the engine never rejects what Profile.__init__
\* accepted and bind derived, but for a slot of uops that may be given different
\* units and for a port that the profile does not name; and a running uop has a
\* resource on its unit and waits in the partition that lists it.
THEOREM TopologyChecksAgree == ProfileSpec => []TopologyAgrees
<1>1. ProfileIInv => TopologyAgrees
  BY DEF ProfileIInv, TopologyAgrees
<1> QED
  BY <1>1, ProfileInvariance, PTL

\* A macro-op's dispatch demand always fits the empty domain, so that
\* _dispatch_blocker never refuses it for ever on that account.
THEOREM DispatchNeverStarves == ProfileSpec => []DomainsAdmit
<1>1. ProfileIInv => DomainsAdmit
  BY DEF ProfileIInv
<1> QED
  BY <1>1, ProfileInvariance, PTL

\* The only way past _validate_issue_domains to an issue-domain error during
\* the simulation is a preparation uop of backend.vector_decomposition.
THEOREM IssueErrorsFromPreparation == ProfileSpec => []LateErrorOnlyFromPrep
<1>1. ProfileIInv => LateErrorOnlyFromPrep
  BY DEF ProfileIInv
<1> QED
  BY <1>1, ProfileInvariance, PTL

-----------------------------------------------------------------------------
(***************************************************************************)
(* The numbers.  The ticks of a cycle are a common multiple of all         *)
(* denominators from the moment they are derived, and each stage leaves    *)
(* behind the parameters it has found to be numbers.                       *)
(***************************************************************************)
LEMMA EntryTypes ==
    ASSUME NEW p, ProfileType(p)
    PROVE  /\ \E n \in Nat : DOMAIN Entries(p) = 1..n
           /\ \A k \in DOMAIN Entries(p) :
                 /\ IsCycles(Entries(p)[k].latency) /\ Entries(p)[k].latency[1] >= Measure
                 /\ k <= Len(p.prep) => k \in DOMAIN p.prep /\ Entries(p)[k] = p.prep[k]
<1>1. PICK S, T : p.prep \in Seq(S) /\ p.recipe.uops \in Seq(T)
  BY DEF ProfileType, IsSequence
<1> DEFINE a == p.prep
           b == p.recipe.uops
<1>2. a \in Seq(S \cup T) /\ b \in Seq(S \cup T) /\ Len(a) \in Nat /\ Len(b) \in Nat
  BY <1>1
<1>3. Entries(p) = a \o b
  BY DEF Entries
<1> HIDE DEF a, b
<1>4. DOMAIN (a \o b) = 1..(Len(a) + Len(b)) /\ DOMAIN a = 1..Len(a)
  BY <1>2
<1>5. \A k \in DOMAIN (a \o b) : k <= Len(a) => k \in DOMAIN a /\ (a \o b)[k] = a[k]
  BY <1>2, <1>4
<1>6. ASSUME NEW k \in DOMAIN Entries(p)
      PROVE  IsCycles(Entries(p)[k].latency) /\ Entries(p)[k].latency[1] >= Measure
  <2>1. CASE k <= Len(p.prep)
    <3>1. k \in DOMAIN p.prep /\ Entries(p)[k] = p.prep[k]
      BY <1>3, <1>5, <1>6, <2>1 DEF a
    <3> QED
      BY <3>1 DEF ProfileType
  <2>2. CASE ~(k <= Len(p.prep))
    <3>1. PICK i \in DOMAIN p.recipe.uops : Entries(p)[k] = p.recipe.uops[i]
      BY <1>6, <2>2, EntryFacts
    <3> QED
      BY <3>1 DEF ProfileType
  <2> QED
    BY <2>1, <2>2
<1>7. Len(a) + Len(b) \in Nat
  BY <1>2
<1>8. \A k \in DOMAIN Entries(p) :
         k <= Len(p.prep) => k \in DOMAIN p.prep /\ Entries(p)[k] = p.prep[k]
  BY <1>3, <1>5 DEF a
<1> QED
  BY <1>3, <1>4, <1>6, <1>7, <1>8

LEMMA FiniteRange ==
    ASSUME NEW f, IsFiniteSet(DOMAIN f)
    PROVE  IsFiniteSet({f[x] : x \in DOMAIN f})
<1> DEFINE T == {f[x] : x \in DOMAIN f}
<1>1. [x \in DOMAIN f |-> f[x]] \in Surjection(DOMAIN f, T)
  BY DEF Surjection
<1> QED
  BY <1>1, FS_Surjection

\* The cycle counts of a profile are finitely many fractions.
LEMMA CycleTypes ==
    ASSUME NEW p, ProfileType(p)
    PROVE  IsFiniteSet(CycleParameters(p)) /\ \A c \in CycleParameters(p) : IsCycles(c[3])
<1> DEFINE L == {<<"latency", k, Entries(p)[k].latency>> : k \in DOMAIN Entries(p)}
           M == {<<"vector_memory", "completion", p.vectorMemory.completion>>,
                 <<"vector_memory", "service", p.vectorMemory.service>>,
                 <<"vector_memory", "flow", p.vectorMemory.flowCycles>>,
                 <<"rename", "release", p.rename.releaseDelay>>,
                 <<"rename", "availability", p.rename.availabilityDelay>>}
           E == {<<"epochs", c, c>> : c \in p.epochs.cycles}
<1>1. CycleParameters(p) = (L \cup M) \cup E
  BY Zenon DEF CycleParameters
<1>2. IsFiniteSet(L) /\ \A c \in L : IsCycles(c[3])
  <2>1. PICK n \in Nat : DOMAIN Entries(p) = 1..n
    BY EntryTypes
  <2>2. IsFiniteSet(1..n)
    BY FS_Interval
  <2>3. PICK D : D = DOMAIN Entries(p) /\ IsFiniteSet(D)
    BY <2>1, <2>2
  <2>4. IsFiniteSet({<<"latency", k, Entries(p)[k].latency>> : k \in D})
    <3> DEFINE f == [k \in D |-> <<"latency", k, Entries(p)[k].latency>>]
    <3>1. /\ DOMAIN f = D
          /\ {f[k] : k \in DOMAIN f} = {<<"latency", k, Entries(p)[k].latency>> : k \in D}
      OBVIOUS
    <3> HIDE DEF f
    <3>2. IsFiniteSet({f[k] : k \in DOMAIN f})
      BY <2>3, <3>1, FiniteRange
    <3> QED
      BY <3>1, <3>2
  <2> QED
    BY <2>3, <2>4, EntryTypes
<1>3. IsFiniteSet(M) /\ \A c \in M : IsCycles(c[3])
  <2>1. \A x1, x2, x3, x4, x5 : IsFiniteSet({x1, x2, x3, x4, x5})
    <3> TAKE x1, x2, x3, x4, x5
    <3>1. IsFiniteSet({}) /\ IsFiniteSet({x1}) /\ IsFiniteSet({x1} \cup {x2})
      BY FS_EmptySet, FS_AddElement, FS_Singleton
    <3>2. IsFiniteSet(({x1} \cup {x2}) \cup {x3})
      BY <3>1, FS_AddElement
    <3>3. IsFiniteSet((({x1} \cup {x2}) \cup {x3}) \cup {x4})
      BY <3>2, FS_AddElement
    <3>4. IsFiniteSet(((({x1} \cup {x2}) \cup {x3}) \cup {x4}) \cup {x5})
      BY <3>3, FS_AddElement
    <3>5. {x1, x2, x3, x4, x5} = ((({x1} \cup {x2}) \cup {x3}) \cup {x4}) \cup {x5}
      OBVIOUS
    <3> QED
      BY <3>4, <3>5
  <2>2. IsFiniteSet(M)
    BY <2>1, Zenon
  <2> QED
    BY <2>2 DEF ProfileType
<1>4. IsFiniteSet(E) /\ \A c \in E : IsCycles(c[3])
  <2>1. PICK D : D = p.epochs.cycles /\ IsFiniteSet(D) /\ \A c \in D : IsCycles(c)
    BY DEF ProfileType
  <2>2. IsFiniteSet({<<"epochs", c, c>> : c \in D})
    <3> DEFINE f == [c \in D |-> <<"epochs", c, c>>]
    <3>1. DOMAIN f = D /\ {f[c] : c \in DOMAIN f} = {<<"epochs", c, c>> : c \in D}
      OBVIOUS
    <3> HIDE DEF f
    <3>2. IsFiniteSet({f[c] : c \in DOMAIN f})
      BY <2>1, <3>1, FiniteRange
    <3> QED
      BY <3>1, <3>2
  <2> QED
    BY <2>1, <2>2
<1> HIDE DEF L, M, E
<1>5. IsFiniteSet((L \cup M) \cup E)
  <2>1. IsFiniteSet(L \cup M)
    BY <1>2, <1>3, FS_Union
  <2> QED
    BY <2>1, <1>4, FS_Union
<1> QED
  BY <1>1, <1>2, <1>3, <1>4, <1>5

LEMMA DenominatorTypes ==
    ASSUME NEW p, ProfileType(p)
    PROVE  /\ IsFiniteSet(Denominators(p)) /\ Denominators(p) \subseteq Nat \ {0}
           /\ Bandwidths(p) \subseteq Nat \ {0}
           /\ \A c \in CycleParameters(p) : c[3][2] \in Denominators(p)
           /\ \A w \in Widths, b \in Bandwidths(p) :
                 TransferDenominator(w, b) \in Denominators(p)
<1> DEFINE F == {c[3][2] : c \in CycleParameters(p)}
           Pairs == Widths \X Bandwidths(p)
           T == {TransferDenominator(x[1], x[2]) : x \in Pairs}
           R == {TransferDenominator(w, b) : w \in Widths, b \in Bandwidths(p)}
<1>1. R = T
  <2>1. \A w \in Widths, b \in Bandwidths(p) : TransferDenominator(w, b) \in T
    <3> SUFFICES ASSUME NEW w \in Widths, NEW b \in Bandwidths(p)
                 PROVE  \E x \in Pairs : TransferDenominator(w, b)
                                        = TransferDenominator(x[1], x[2])
      OBVIOUS
    <3> WITNESS <<w, b>> \in Pairs
    <3> QED
      OBVIOUS
  <2>2. \A x \in Pairs : TransferDenominator(x[1], x[2]) \in R
    OBVIOUS
  <2> QED
    BY <2>1, <2>2
<1>2. Denominators(p) = ({1} \cup F) \cup R
  BY SMT DEF Denominators
<1>3. Bandwidths(p) \subseteq Nat \ {0} /\ IsFiniteSet(Bandwidths(p))
  <2>1. PICK D : D = {s \in DOMAIN p.resources : p.resources[s].bytes > 0}
    OBVIOUS
  <2>2. D \subseteq DOMAIN p.resources /\ IsFiniteSet(DOMAIN p.resources)
        /\ \A r \in D : p.resources[r].bytes \in Nat \ {0}
    BY <2>1 DEF ProfileType
  <2>3. IsFiniteSet(D)
    BY <2>2, FS_Subset
  <2>4. IsFiniteSet({p.resources[r].bytes : r \in D})
    <3> DEFINE f == [r \in D |-> p.resources[r].bytes]
    <3>1. DOMAIN f = D /\ {f[r] : r \in DOMAIN f} = {p.resources[r].bytes : r \in D}
      OBVIOUS
    <3> HIDE DEF f
    <3>2. IsFiniteSet({f[r] : r \in DOMAIN f})
      BY <2>3, <3>1, FiniteRange
    <3> QED
      BY <3>1, <3>2
  <2>5. Bandwidths(p) = {p.resources[r].bytes : r \in D}
    BY <2>1 DEF Bandwidths
  <2> QED
    BY <2>2, <2>4, <2>5
<1>4. Widths \subseteq Nat /\ IsFiniteSet(Widths)
  <2>1. IsFiniteSet(1..64)
    <3>1. PICK n \in Int : n = 64
      OBVIOUS
    <3>2. IsFiniteSet(1..n)
      BY FS_Interval
    <3> QED
      BY <3>1, <3>2
  <2>2. Widths \subseteq 1..64
    BY DEF Widths
  <2>3. IsFiniteSet(Widths)
    BY <2>1, <2>2, FS_Subset
  <2> QED
    BY <2>3 DEF Widths
<1>5. IsFiniteSet(T) /\ T \subseteq Nat \ {0}
  <2>1. PICK Q : Q = Pairs /\ IsFiniteSet(Q)
    BY <1>3, <1>4, FS_Product
  <2>2. IsFiniteSet({TransferDenominator(x[1], x[2]) : x \in Q})
    <3> DEFINE f == [x \in Q |-> TransferDenominator(x[1], x[2])]
    <3>1. DOMAIN f = Q /\ {f[x] : x \in DOMAIN f} = {TransferDenominator(x[1], x[2]) : x \in Q}
      OBVIOUS
    <3> HIDE DEF f
    <3>2. IsFiniteSet({f[x] : x \in DOMAIN f})
      BY <2>1, <3>1, FiniteRange
    <3> QED
      BY <3>1, <3>2
  <2>3. \A w \in Widths, b \in Bandwidths(p) : TransferDenominator(w, b) \in Nat \ {0}
    BY <1>3, <1>4, TransferFacts
  <2> QED
    BY <2>1, <2>2, <2>3
<1>6. IsFiniteSet(F) /\ F \subseteq Nat \ {0}
  <2>1. PICK C : C = CycleParameters(p) /\ IsFiniteSet(C) /\ \A c \in C : IsCycles(c[3])
    BY CycleTypes
  <2>2. IsFiniteSet({c[3][2] : c \in C})
    <3> DEFINE f == [c \in C |-> c[3][2]]
    <3>1. DOMAIN f = C /\ {f[c] : c \in DOMAIN f} = {c[3][2] : c \in C}
      OBVIOUS
    <3> HIDE DEF f
    <3>2. IsFiniteSet({f[c] : c \in DOMAIN f})
      BY <2>1, <3>1, FiniteRange
    <3> QED
      BY <3>1, <3>2
  <2>3. \A c \in C : c[3][2] \in Nat \ {0}
    BY <2>1 DEF IsCycles
  <2> QED
    BY <2>1, <2>2, <2>3
<1>7. /\ \A c \in CycleParameters(p) : c[3][2] \in F
      /\ \A w \in Widths, b \in Bandwidths(p) : TransferDenominator(w, b) \in R
  OBVIOUS
<1> HIDE DEF F, T, R
<1>8. IsFiniteSet(({1} \cup F) \cup T)
  <2>1. IsFiniteSet({1} \cup F)
    BY <1>6, FS_Union, FS_Singleton
  <2> QED
    BY <2>1, <1>5, FS_Union
<1> QED
  BY <1>1, <1>2, <1>3, <1>5, <1>6, <1>7, <1>8

\* The derived ticks are a multiple of every denominator.
LEMMA TicksFacts ==
    ASSUME NEW p, ProfileType(p)
    PROVE  /\ TicksPerCycle(p) \in Nat \ {0}
           /\ \A c \in CycleParameters(p) : Times(c[3][2], TicksPerCycle(p))
           /\ \A w \in Widths, b \in Bandwidths(p) :
                 Times(TransferDenominator(w, b), TicksPerCycle(p))
<1>1. PICK S : /\ S = Denominators(p) /\ IsFiniteSet(S) /\ S \subseteq Nat \ {0}
               /\ \A c \in CycleParameters(p) : c[3][2] \in S
               /\ \A w \in Widths, b \in Bandwidths(p) : TransferDenominator(w, b) \in S
  BY DenominatorTypes
<1>2. Lcm(S) \in Nat \ {0} /\ \A d \in S : Times(d, Lcm(S))
  BY <1>1, LcmFacts
<1>3. TicksPerCycle(p) = Lcm(S)
  BY <1>1, Zenon DEF TicksPerCycle
<1> QED
  BY <1>1, <1>2, <1>3

\* The cycle counts of a profile convert to ticks.
CyclesOf(p) == {c[3] : c \in CycleParameters(p)}
LEMMA CyclesConvert ==
    ASSUME ProfileType(profile), tpc = TicksPerCycle(profile), NEW cs,
           cs \subseteq CyclesOf(profile)
    PROVE  BadCycles(cs) # "ticks"
<1>1. ASSUME NEW c \in cs PROVE ~BadTicks(c)
  <2>1. PICK x \in CycleParameters(profile) : c = x[3]
    BY <1>1 DEF CyclesOf
  <2>2. c[1] \in Int /\ c[2] \in Nat \ {0} /\ Times(c[2], tpc) /\ tpc \in Nat \ {0}
    BY <2>1, CycleTypes, TicksFacts DEF IsCycles
  <2>3. CASE c[1] >= 0
    <3>1. Times(c[2], c[1] * tpc) /\ c[1] * tpc \in Nat
      BY <2>2, <2>3, TimesAgain
    <3>2. (c[1] * tpc) % c[2] = 0
      BY <2>2, <3>1, MultipleOf
    <3> QED
      BY <3>2 DEF BadTicks
  <2>4. CASE ~(c[1] >= 0)
    BY <2>4 DEF BadTicks
  <2> QED
    BY <2>3, <2>4
<1> QED
  BY <1>1 DEF BadCycles

LEMMA NamedCycles ==
    ASSUME NEW p
    PROVE  /\ {Entries(p)[k].latency : k \in DOMAIN Entries(p)} \subseteq CyclesOf(p)
           /\ {p.rename.releaseDelay, p.rename.availabilityDelay} \subseteq CyclesOf(p)
           /\ {p.vectorMemory.completion, p.vectorMemory.service, p.vectorMemory.flowCycles}
                 \subseteq CyclesOf(p)
           /\ p.epochs.cycles \subseteq CyclesOf(p)
<1>1. \A x, y, z : <<x, y, z>> \in CycleParameters(p) => z \in CyclesOf(p)
  BY DEF CyclesOf
<1>2. \A k \in DOMAIN Entries(p) : <<"latency", k, Entries(p)[k].latency>> \in CycleParameters(p)
  BY DEF CycleParameters
<1>3. /\ <<"vector_memory", "completion", p.vectorMemory.completion>> \in CycleParameters(p)
      /\ <<"vector_memory", "service", p.vectorMemory.service>> \in CycleParameters(p)
      /\ <<"vector_memory", "flow", p.vectorMemory.flowCycles>> \in CycleParameters(p)
      /\ <<"rename", "release", p.rename.releaseDelay>> \in CycleParameters(p)
      /\ <<"rename", "availability", p.rename.availabilityDelay>> \in CycleParameters(p)
  BY DEF CycleParameters
<1>4. \A c \in p.epochs.cycles : <<"epochs", c, c>> \in CycleParameters(p)
  BY DEF CycleParameters
<1> QED
  BY <1>1, <1>2, <1>3, <1>4

\* A transfer of any number of 4-byte elements takes whole ticks: those of four
\* bytes do, and the others are so many times as long.
LEMMA TransfersConvert ==
    ASSUME NEW p, ProfileType(p), NEW b \in Bandwidths(p), NEW n \in 1..16
    PROVE  (4 * n * TicksPerCycle(p)) % b = 0
<1>1. b \in Nat \ {0} /\ 4 \in Widths
  BY DenominatorTypes DEF Widths
<1>2. PICK d : d = TransferDenominator(4, b) /\ d \in Nat \ {0} /\ Times(b, 4 * d)
  BY <1>1, TransferFacts
<1>3. PICK t : t = TicksPerCycle(p) /\ t \in Nat \ {0} /\ Times(d, t)
  BY <1>1, <1>2, TicksFacts
<1>4. PICK q \in Nat : t = q * d
  BY <1>3 DEF Times
<1>5. n \in Nat /\ n * q \in Nat /\ 4 * d \in Nat
  BY <1>2, <1>4
<1>6. Times(b, (n * q) * (4 * d))
  BY <1>1, <1>2, <1>5, TimesAgain
<1>7. 4 * n * t = (n * q) * (4 * d) /\ 4 * n * t \in Nat
  BY <1>2, <1>3, <1>4, <1>5
<1> QED
  BY <1>1, <1>3, <1>6, <1>7, MultipleOf

LEMMA BlockerNames ==
    ASSUME NEW p
    PROVE  {FrontBlocker(p), RenameBlocker(p)} \subseteq
              {"none", "rob_full", "dispatch_domain_full", "rename_allocation_width",
               "rename_free_list"}
<1> DEFINE full == \E d \in ToSet(p.recipe.domains) : Demand(p.recipe, d) > p.dispatchDomains[d]
           rob == Accounted(p, p.basis.rob) > p.robEntries
           wide == Renames(p) /\ Allocations(p) > p.rename.allocation
           short == Renames(p) /\ \E f \in DOMAIN p.recipe.rename :
                        p.rename.lists[f] - p.recipe.rename[f] < p.rename.guard
           f == <<When(rob, "rob_full"), When(full, "dispatch_domain_full")>>
           r == <<When(wide, "rename_allocation_width"), When(short, "rename_free_list")>>
<1>1. FrontBlocker(p) = ProfileFirstOf(f) /\ RenameBlocker(p) = ProfileFirstOf(r)
  BY Zenon DEF FrontBlocker, RenameBlocker
<1> HIDE DEF full, rob, wide, short
<1>2. /\ DOMAIN f = 1..2 /\ \A k \in {1, 2} : f[k] \in {"none", "rob_full", "dispatch_domain_full"}
      /\ DOMAIN r = 1..2
      /\ \A k \in {1, 2} : r[k] \in {"none", "rename_allocation_width", "rename_free_list"}
  BY DEF When
<1> HIDE DEF f, r
<1>3. DOMAIN f \subseteq Nat /\ DOMAIN r \subseteq Nat /\ 1..2 = {1, 2}
  BY <1>2
<1>4. /\ ProfileFirstOf(f) # "none" => \E k \in {1, 2} : ProfileFirstOf(f) = f[k]
      /\ ProfileFirstOf(r) # "none" => \E k \in {1, 2} : ProfileFirstOf(r) = r[k]
  BY <1>2, <1>3, FirstOfFacts
<1> QED
  BY <1>1, <1>2, <1>4

\* The stages before the ticks are derived, and those after.
Underived == {"edit", "isa", "topology", "dependency", "evidence", "overlap", "issue",
              "dispatch", "resolve"}
Derived == {"bind", "construct", "admit", "issue_uops", "starved", "running", "zen4"}

Edits == edited \subseteq DOMAIN Alternatives /\ IsFiniteSet(edited)
            /\ Cardinality(edited) <= MaxEdits
Named ==
    /\ profilePc \in {"failed"} \cup Underived \cup Derived
    /\ profileError \in Errors /\ (profileError # "none" <=> profilePc = "failed")
    /\ blocker \in {"none", "rob_full", "dispatch_domain_full", "rename_allocation_width",
                    "rename_free_list"}
Ticked ==
    /\ profilePc \in Underived => tpc = 0
    /\ profilePc \in Derived => tpc = TicksPerCycle(profile)
    /\ tpc \in {0, TicksPerCycle(profile)}
    /\ profileError # "ticks"
Numeric(p) ==
    /\ \A k \in DOMAIN Entries(p) : Entries(p)[k].latency[1] # Measure
    /\ Required(p) \subseteq DOMAIN p.resources
    /\ \A r \in Required(p) : Measure \notin {p.resources[r].capacity, p.resources[r].bytes}
Resolved ==
    /\ profilePc \in {"construct"} \cup Constructed => Numeric(profile)
    /\ profilePc \in Constructed => RenamePolicyError(profile.rename) = "none"
    /\ profilePc = "running" => \A k \in DOMAIN profileUops : ~TooLargeDemand(profileUops[k])
NInv == Edits /\ Named /\ Ticked /\ Resolved

LEMMA NumbersFromInvariant == ProfileIInv /\ NInv => NumbersSound
<1> SUFFICES ASSUME ProfileIInv, NInv PROVE NumbersSound
  OBVIOUS
<1>1. ProfileType(profile)
  BY DEF ProfileIInv, TypeInv
<1>2. TicksPerCycle(profile) \in Nat \ {0}
  BY <1>1, TicksFacts
<1>3. ProfileTypeOK
  <2>1. profilePc \in {"edit", "failed"} \cup ToSet(Steps)
              \cup {"resolve", "bind", "construct", "admit", "issue_uops",
                    "starved", "running", "zen4"}
    <3>1. {"isa", "topology", "dependency", "evidence", "overlap", "issue", "dispatch"}
             \subseteq ToSet(Steps)
      BY StepFacts DEF ToSet
    <3> QED
      BY <3>1 DEF NInv, Named, Underived, Derived
  <2>2. tpc \in Nat /\ (profilePc \in {"bind", "construct", "admit", "running"} => tpc >= 1)
    BY <1>2 DEF NInv, Ticked, Derived
  <2> QED
    BY <2>1, <2>2 DEF ProfileTypeOK, NInv, Named, Edits
<1>4. RunsOnNumbers
  <2> SUFFICES ASSUME profilePc = "running" PROVE RunsOnNumbers
    BY DEF RunsOnNumbers
  <2>0. /\ TopologyValid(profile) /\ IssueDomainsValid(profile) /\ DispatchDomainsValid(profile)
        /\ profileUops = ScheduledUops(profile)
        /\ ~MeasuredDispatchDomain(profile) /\ ~MeasuredIssueDomain(profile)
        /\ ~UnknownIssueDomain(profile)
    BY DEF ProfileIInv, AcceptedInv, BoundInv, ConstructedInv, Late, Constructed
  <2>1. ASSUME NEW r \in Required(profile)
        PROVE  profile.resources[r].capacity >= 1 /\ profile.resources[r].bytes # Measure
    <3>1. r \in DOMAIN profile.resources /\ profile.resources[r].capacity # Measure
          /\ profile.resources[r].bytes # Measure
      BY <2>1 DEF NInv, Resolved, Constructed, Numeric
    <3> QED
      BY <1>1, <3>1 DEF ProfileType, Positive
  <2>2. ASSUME NEW k \in DOMAIN Entries(profile) PROVE Entries(profile)[k].latency[1] >= 0
    <3>1. Entries(profile)[k].latency[1] >= Measure /\ IsCycles(Entries(profile)[k].latency)
      BY <1>1, EntryTypes
    <3>2. Entries(profile)[k].latency[1] # Measure
      BY DEF NInv, Resolved, Constructed, Numeric
    <3> QED
      BY <3>1, <3>2 DEF Measure, IsCycles
  <2>5. ASSUME NEW s \in DOMAIN profileUops, NEW d \in profileUops[s].domains
        PROVE  profile.issueDomains[d] >= 1
    <3> DEFINE slot == profileUops[s]
    <3>1. d \in DOMAIN profile.issueDomains
      BY <2>0, <2>5, Zenon DEF UnknownIssueDomain
    <3>2. profile.issueDomains[d] \in Nat
      BY <1>1, <2>0, <3>1 DEF ProfileType, MeasuredIssueDomain
    <3>3. ~(Demand(slot, d) > profile.issueDomains[d])
      BY <2>5 DEF NInv, Resolved, TooLargeDemand
    <3>4. PICK k \in DOMAIN Entries(profile) :
             /\ slot.domains = BoundUop(profile, k).domains /\ slot.demands = BoundUop(profile, k).demands
      BY <1>1, <2>0, ScheduledFacts
    <3> DEFINE e == Entries(profile)[k]
    <3>5. Demand(slot, d) = Demand(e, d) /\ d \in e.domains
      BY <2>5, <3>4 DEF BoundUop, Demand
    <3>6. Demand(e, d) \in Int /\ Demand(e, d) >= 1
      <4>1. CASE k <= Len(profile.prep)
        <5>1. k \in DOMAIN profile.prep /\ e = profile.prep[k]
          BY <1>1, <4>1, EntryTypes
        <5>2. IntegerValued(e.demands) /\ \A x \in DOMAIN e.demands : e.demands[x] >= 1
          BY <1>1, <5>1 DEF ProfileType
        <5> QED
          BY <5>2 DEF IntegerValued, Demand
      <4>2. CASE ~(k <= Len(profile.prep))
        <5>1. PICK i \in DOMAIN profile.recipe.uops : e = profile.recipe.uops[i]
          BY <1>1, <4>2, EntryFacts
        <5>2. IntegerValued(e.demands)
          BY <1>1, <5>1 DEF ProfileType
        <5>3. DemandsFit(e, e.domains, profile.issueDomains)
          BY <2>0, <5>1 DEF IssueDomainsValid
        <5> QED
          BY <3>5, <5>2, <5>3 DEF IntegerValued, Demand, DemandsFit
      <4> QED
        BY <4>1, <4>2
    <3> QED
      BY <3>2, <3>3, <3>5, <3>6
  <2>3. ASSUME NEW d \in ToSet(profile.recipe.domains) PROVE profile.dispatchDomains[d] >= 1
    <3>1. d \in DOMAIN profile.dispatchDomains
      BY <2>0, <2>3 DEF DispatchDomainsValid, DemandsFit
    <3> QED
      BY <2>0, <3>1 DEF TopologyValid, DispatchCapacitiesValid, Positive, MeasuredDispatchDomain
  <2>4. profile.rename.enabled => profile.rename.guard >= 0 /\ profile.rename.allocation >= 1
    <3>1. RenamePolicyError(profile.rename) = "none" /\ RenameValid(profile.rename)
      BY <2>0 DEF NInv, Resolved, Constructed, TopologyValid
    <3> QED
      BY <3>1 DEF RenamePolicyError, RenameValid, Positive, NonNegative
  <2> QED
    BY <2>1, <2>2, <2>3, <2>4, <2>5 DEF RunsOnNumbers
<1>5. TicksNeverFail
  BY DEF NInv, Ticked, TicksNeverFail
<1>6. TransfersExact
  BY <1>1, TransfersConvert DEF NInv, Ticked, TransfersExact
<1> QED
  BY <1>3, <1>4, <1>5, <1>6 DEF NumbersSound

LEMMA InitNumbers == ProfileInit => NInv
<1> SUFFICES ASSUME ProfileInit PROVE NInv
  OBVIOUS
<1>1. /\ profilePc = "edit" /\ profileError = "none" /\ blocker = "none" /\ tpc = 0 /\ edited = {}
  BY DEF ProfileInit
<1>2. Edits
  BY <1>1, FS_EmptySet, EditsAssumption DEF Edits
<1>3. Named /\ Ticked /\ Resolved
  BY <1>1 DEF Named, Ticked, Resolved, Underived, Derived, Constructed, Errors
<1> QED
  BY <1>2, <1>3 DEF NInv

LEMMA EarlyNumbers ==
    ASSUME ProfileIInv, NInv, Edit \/ Load \/ Validate
    PROVE  NInv'
<1>1. /\ profileUops' = profileUops /\ blocker' = blocker /\ tpc' = tpc
      /\ profilePc \in Underived /\ tpc = 0 /\ profileError = "none"
      /\ \/ profilePc' = "failed" /\ profileError' = "profile"
         \/ profilePc' \in Underived /\ profileError' = "none"
  <2>1. profileUops' = profileUops /\ blocker' = blocker /\ tpc' = tpc
    BY DEF Edit, Load, Validate
  <2>2. profilePc \in Underived
    BY StepFacts DEF Edit, Load, Validate, Underived
  <2>3. tpc = 0 /\ profileError = "none"
    BY <2>2 DEF NInv, Ticked, Named, Underived
  <2>4. \/ profilePc' = "failed" /\ profileError' = "profile"
        \/ profilePc' \in Underived /\ profileError' = "none"
    BY <2>2, <2>3, ValidateFacts, StepFacts DEF Edit, Load, ProfileGoOn, Underived
  <2> QED
    BY <2>1, <2>2, <2>3, <2>4
<1>2. Edits'
  <2>1. CASE Edit
    <3>1. PICK f \in DOMAIN Alternatives \ edited : edited' = edited \cup {f}
      BY <2>1 DEF Edit
    <3>2. IsFiniteSet(edited) /\ Cardinality(edited) \in Nat /\ Cardinality(edited) < MaxEdits
          /\ MaxEdits \in Nat
      BY <2>1, FS_CardinalityType, EditsAssumption DEF Edit, NInv, Edits
    <3>3. IsFiniteSet(edited \cup {f}) /\ Cardinality(edited \cup {f}) = Cardinality(edited) + 1
      BY <3>1, <3>2, FS_AddElement
    <3> QED
      BY <3>1, <3>2, <3>3 DEF NInv, Edits
  <2>2. CASE Load \/ Validate
    BY <2>2 DEF Load, Validate, NInv, Edits
  <2> QED
    BY <2>1, <2>2
<1>3. Named' /\ Ticked' /\ Resolved'
  BY <1>1 DEF NInv, Named, Ticked, Resolved, Underived, Derived, Constructed, Errors
<1> QED
  BY <1>2, <1>3 DEF NInv

LEMMA ResolveNumbers ==
    ASSUME ProfileIInv, NInv, Resolve
    PROVE  NInv'
<1>1. /\ profilePc = "resolve" /\ profilePc' = "bind" /\ profileError' = profileError /\ profileError = "none"
      /\ tpc' = TicksPerCycle(profile)
      /\ UNCHANGED <<profile, edited, profileUops, blocker>>
  BY DEF Resolve, ProfileGoOn, NInv, Named
<1>2. TicksPerCycle(profile)' = TicksPerCycle(profile)
  BY <1>1
<1> QED
  BY <1>1, <1>2 DEF NInv, Edits, Named, Ticked, Resolved, Underived, Derived, Constructed, Errors

\* The later stages change neither the profile nor the ticks.
LEMMA LateTicked ==
    ASSUME NInv, profilePc \in Derived, UNCHANGED <<profile, tpc, edited>>, profileError' # "ticks",
           profilePc' \in Derived \cup {"failed"}
    PROVE  Ticked' /\ Edits'
<1>1. TicksPerCycle(profile)' = TicksPerCycle(profile)
  OBVIOUS
<1>2. Derived \cap Underived = {} /\ "failed" \notin Underived
  BY DEF Derived, Underived
<1>3. tpc = TicksPerCycle(profile)
  BY DEF NInv, Ticked
<1> QED
  BY <1>1, <1>2, <1>3 DEF NInv, Edits, Ticked

LEMMA ResolvedKept ==
    ASSUME UNCHANGED <<profile, tpc>>
    PROVE  /\ Numeric(profile)' = Numeric(profile)
           /\ RenamePolicyError(profile.rename)' = RenamePolicyError(profile.rename)
           /\ UNCHANGED profileUops => \A k : TooLargeDemand(profileUops[k])' = TooLargeDemand(profileUops[k])
<1>1. Numeric(profile)' = Numeric(profile)
  BY Zenon
<1>2. \A c : BadTicks(c)' = BadTicks(c)
  BY Zenon DEF BadTicks
<1>3. \A cs : BadCycles(cs)' = BadCycles(cs)
  BY <1>2 DEF BadCycles
<1>4. RenamePolicyError(profile.rename)' = RenamePolicyError(profile.rename)
  BY <1>3 DEF RenamePolicyError
<1>5. UNCHANGED profileUops => \A k : TooLargeDemand(profileUops[k])' = TooLargeDemand(profileUops[k])
  BY DEF TooLargeDemand
<1> QED
  BY <1>1, <1>4, <1>5

LEMMA BindNumbers ==
    ASSUME ProfileIInv, NInv, ProfileBind
    PROVE  NInv'
<1>1. /\ profilePc = "bind" /\ profileError = "none" /\ UNCHANGED <<profile, edited, tpc, blocker>>
      /\ tpc = TicksPerCycle(profile) /\ ProfileType(profile)
  BY DEF ProfileBind, NInv, Named, Ticked, Derived, ProfileIInv, TypeInv
<1>2. BadCycles({Entries(profile)[k].latency : k \in DOMAIN Entries(profile)}) # "ticks"
  BY <1>1, CyclesConvert, NamedCycles
<1>3. BindError(profile) \in {"none", "profile", "measure"}
  BY <1>2 DEF BindError, BadCycles
<1>4. \/ profilePc' = "failed" /\ profileError' = BindError(profile) /\ profileError' # "none"
      \/ profilePc' \in {"construct", "zen4"} /\ profileError' = "none" /\ BindError(profile) = "none"
  BY <1>1 DEF ProfileBind, Fail, ProfileGoOn
<1>5. Ticked' /\ Edits'
  BY <1>1, <1>3, <1>4, LateTicked DEF Derived
<1>6. Named'
  BY <1>1, <1>3, <1>4 DEF NInv, Named, Derived, Errors
<1>7. BindError(profile) = "none" => Numeric(profile)
  BY DEF BindError, BadCycles, Numeric
<1>8. Resolved'
  BY <1>1, <1>4, <1>7, ResolvedKept DEF Resolved, Constructed
<1> QED
  BY <1>5, <1>6, <1>8 DEF NInv

LEMMA ConstructNumbers ==
    ASSUME ProfileIInv, NInv, Construct
    PROVE  NInv'
<1>1. /\ profilePc = "construct" /\ profileError = "none"
      /\ UNCHANGED <<profile, edited, tpc, blocker>>
      /\ tpc = TicksPerCycle(profile) /\ ProfileType(profile)
  BY DEF Construct, NInv, Named, Ticked, Derived, ProfileIInv, TypeInv
<1>2. \/ profilePc' = "failed" /\ profileError' = ConstructError(profile) /\ profileError' # "none"
      \/ profilePc' = "admit" /\ profileError' = "none" /\ ConstructError(profile) = "none"
  BY <1>1 DEF Construct, Fail, ProfileGoOn
<1>3. /\ RenamePolicyError(profile.rename) # "ticks"
      /\ VectorMemoryPolicyError(profile.vectorMemory) # "ticks"
      /\ EpochPolicyError(profile.epochs) # "ticks"
  BY <1>1, CyclesConvert, NamedCycles
     DEF RenamePolicyError, VectorMemoryPolicyError, EpochPolicyError
<1>4. /\ ConstructError(profile) # "ticks" /\ ConstructError(profile) \in Errors
      /\ ConstructError(profile) = "none" => RenamePolicyError(profile.rename) = "none"
  BY <1>3, ConstructFacts
<1>5. profileError' # "ticks" /\ profileError' \in Errors
  BY <1>2, <1>4 DEF Errors
<1>6. Ticked' /\ Edits'
  BY <1>1, <1>2, <1>5, LateTicked DEF Derived
<1>7. Named'
  BY <1>1, <1>2, <1>5 DEF NInv, Named, Derived
<1>8. Resolved'
  BY <1>1, <1>2, <1>4, ResolvedKept DEF NInv, Resolved, Constructed
<1> QED
  BY <1>6, <1>7, <1>8 DEF NInv

LEMMA AdmitNumbers ==
    ASSUME ProfileIInv, NInv, Admit \/ IssueUops
    PROVE  NInv'
<1>1. /\ profilePc \in {"admit", "issue_uops"} /\ profileError = "none"
      /\ UNCHANGED <<profile, edited, tpc, profileUops>>
  BY DEF Admit, IssueUops, NInv, Named
<1>2. /\ \/ profilePc' = "failed" /\ profileError' \in {"unknown_list", "demand"}
         \/ /\ profilePc' \in {"issue_uops", "starved", "running"} /\ profileError' = "none"
            /\ profilePc' = "running" => \A k \in DOMAIN profileUops : ~TooLargeDemand(profileUops[k])
      /\ blocker' \in {blocker, FrontBlocker(profile), RenameBlocker(profile)}
  BY <1>1 DEF Admit, IssueUops, Fail, ProfileGoOn
<1>3. Ticked' /\ Edits'
  BY <1>1, <1>2, LateTicked DEF Derived
<1>4. Named'
  BY <1>1, <1>2, BlockerNames DEF NInv, Named, Derived, Errors
<1>5. Resolved'
  BY <1>1, <1>2, ResolvedKept DEF NInv, Resolved, Constructed
<1> QED
  BY <1>3, <1>4, <1>5 DEF NInv

LEMMA StutterNumbers ==
    ASSUME NInv, UNCHANGED profileVars
    PROVE  NInv'
<1>1. UNCHANGED <<profile, edited, profilePc, profileError, tpc, profileUops, blocker>>
  BY DEF profileVars
<1>2. Resolved'
  BY <1>1, ResolvedKept DEF NInv, Resolved
<1> QED
  BY <1>1, <1>2 DEF NInv, Edits, Named, Ticked

\* The event loop computes with numbers only, no modelled cycle count fails to
\* convert to ticks, and the transfers of whole elements take whole ticks, for every
\* profile whose fields are of the types the schema gives them.
THEOREM NumbersSoundHolds == ProfileSpec => []NumbersSound
<1>1. ProfileInit => NInv
  BY InitNumbers
<1>2. ProfileIInv /\ NInv /\ [ProfileNext]_profileVars => NInv'
  BY EarlyNumbers, ResolveNumbers, BindNumbers, ConstructNumbers, AdmitNumbers,
     StutterNumbers DEF ProfileNext, ProfileStopped
<1> QED
  BY <1>1, <1>2, NumbersFromInvariant, ProfileInvariance, PTL DEF ProfileSpec

-----------------------------------------------------------------------------
(***************************************************************************)
(* validate_bound_trace decides whether the dependencies are acyclic, for  *)
(* every trace: for what Kahn's loop accepts they have an order, and what  *)
(* it calls a cycle has none.  It decides nothing about issue_after_uop:   *)
(* that is the one way left for the uops of an accepted trace to wait for  *)
(* each other.                                                             *)
(***************************************************************************)

Deps(x) == {d \in Id : DependsOn(x, d)}
Popped == {x \in UopIds : rank[x] # 0}

TraceTypes ==
    /\ boundTrace \in Traces
    /\ visited \in Nat /\ rank \in [UopIds -> Nat] /\ ready \subseteq UopIds
    /\ DOMAIN indegree = UopIds /\ DOMAIN consumers = UopIds

UniqueInv == tracePc \in {"macros", "uops", "kahn", "accepted"} => Unique(boundTrace.uops)

\* Nothing is visited before the graph is built ...
TraceEarlyInv ==
    tracePc \in {"ids", "macros", "uops"} =>
        rank = [x \in UopIds |-> 0] /\ visited = 0 /\ ready = {} /\ traceError = "none"
StartInv ==
    tracePc \in {"ids", "macros"} => \A x \in UopIds : indegree[x] = 0 /\ consumers[x] = {}
\* ... which holds the edges of the uops looked at so far.
BuildInv ==
    tracePc = "uops" =>
        /\ traceAt \in Nat \ {0}
        /\ \A k \in DOMAIN boundTrace.uops :
              /\ indegree[boundTrace.uops[k].id] =
                    IF k < traceAt THEN Cardinality(boundTrace.uops[k].dependencies) ELSE 0
              /\ k < traceAt => boundTrace.uops[k].dependencies \subseteq UopIds
        /\ \A d \in UopIds : consumers[d] =
              {boundTrace.uops[j].id : j \in {i \in DOMAIN boundTrace.uops :
                                            i < traceAt /\ d \in boundTrace.uops[i].dependencies}}

\* Kahn's loop: an indegree counts the producers that are not visited.
Counted ==
    /\ \A x \in UopIds : Deps(x) \subseteq UopIds
    /\ \A x \in UopIds : indegree[x] = Cardinality(Deps(x) \ Popped)
    /\ \A d \in UopIds : consumers[d] = {x \in UopIds : d \in Deps(x)}
    /\ ready = {x \in UopIds \ Popped : indegree[x] = 0}
    /\ visited = Cardinality(Popped)
Ranked ==
    /\ \A x \in UopIds : rank[x] <= visited
    /\ \A x \in Popped : \A d \in Deps(x) : d \in Popped /\ rank[d] < rank[x]
KahnInv ==
    /\ tracePc \in {"kahn", "accepted"} \/ traceError = "cycle" => Counted /\ Ranked
    /\ tracePc \in {"kahn", "accepted"} => traceError = "none"
    /\ tracePc = "accepted" => visited = Cardinality(UopIds)
    /\ traceError = "cycle" => visited # Cardinality(UopIds) /\ ready = {}

TraceIInv == TraceTypes /\ UniqueInv /\ TraceEarlyInv /\ StartInv /\ BuildInv /\ KahnInv

-----------------------------------------------------------------------------
LEMMA FiniteIds ==
    ASSUME TraceTypes
    PROVE  /\ UopIds \subseteq Id /\ IsFiniteSet(UopIds) /\ Cardinality(UopIds) \in Nat
           /\ \A x : IsFiniteSet(Deps(x))
           /\ Len(boundTrace.uops) \in Nat /\ DOMAIN boundTrace.uops = 1..Len(boundTrace.uops)
           /\ \A k \in DOMAIN boundTrace.uops :
                 boundTrace.uops[k].id \in UopIds /\ boundTrace.uops[k].dependencies \subseteq Id
<1>1. \A k \in DOMAIN boundTrace.uops :
         boundTrace.uops[k].id \in Id /\ boundTrace.uops[k].dependencies \subseteq Id
  BY TracesAssumption DEF TraceTypes
<1>2. UopIds \subseteq Id
  BY <1>1 DEF UopIds
<1>3. IsFiniteSet(UopIds) /\ Cardinality(UopIds) \in Nat
  BY <1>2, IdAssumption, FS_Subset, FS_CardinalityType
<1>4. \A x : IsFiniteSet(Deps(x))
  BY IdAssumption, FS_Subset DEF Deps
<1>5. boundTrace.uops \in Seq({boundTrace.uops[k] : k \in DOMAIN boundTrace.uops})
  BY TracesAssumption DEF TraceTypes
<1>6. Len(boundTrace.uops) \in Nat /\ DOMAIN boundTrace.uops = 1..Len(boundTrace.uops)
  BY <1>5
<1> QED
  BY <1>1, <1>2, <1>3, <1>4, <1>6 DEF UopIds

\* With unique ids the producers of a uop are those of its entry.
LEMMA DepsOf ==
    ASSUME TraceTypes, Unique(boundTrace.uops), NEW k \in DOMAIN boundTrace.uops
    PROVE  Deps(boundTrace.uops[k].id) = boundTrace.uops[k].dependencies
<1>1. boundTrace.uops[k].dependencies \subseteq Id
  BY FiniteIds
<1>2. \A j \in DOMAIN boundTrace.uops : boundTrace.uops[j].id = boundTrace.uops[k].id => j = k
  BY DEF Unique
<1> QED
  BY <1>1, <1>2 DEF Deps, DependsOn

LEMMA TraceInitInv == TraceInit => TraceIInv
<1> SUFFICES ASSUME TraceInit PROVE TraceIInv
  OBVIOUS
<1> QED
  BY DEF TraceInit, TraceIInv, TraceTypes, UniqueInv, TraceEarlyInv, StartInv, BuildInv, KahnInv

\* The steps before the uops, and the end of the loop over them.
LEMMA IdsInv ==
    ASSUME TraceIInv, CheckIds \/ CheckMacro
    PROVE  TraceIInv'
<1>1. /\ boundTrace' = boundTrace /\ graph' = graph /\ kahn' = kahn
      /\ tracePc \in {"ids", "macros"} /\ traceError = "none"
      /\ \/ tracePc' = "macros" /\ traceError' = "none" /\ (tracePc = "ids" => Unique(boundTrace.uops))
         \/ tracePc' = "raised" /\ traceError' # "cycle"
  BY DEF CheckIds, CheckMacro, TraceGoOn, Raise, MacroError, TraceIInv, TraceEarlyInv
<1>2. UopIds' = UopIds
  BY <1>1 DEF UopIds
<1>3. TraceTypes'
  BY <1>1, <1>2 DEF TraceIInv, TraceTypes, graph, kahn
<1>4. UniqueInv'
  BY <1>1 DEF TraceIInv, UniqueInv, Unique
<1>5. TraceEarlyInv' /\ StartInv' /\ BuildInv'
  BY <1>1, <1>2 DEF TraceIInv, TraceEarlyInv, StartInv, BuildInv, graph, kahn
<1>6. KahnInv'
  BY <1>1 DEF KahnInv
<1> QED
  BY <1>3, <1>4, <1>5, <1>6 DEF TraceIInv

LEMMA MacrosInv ==
    ASSUME TraceIInv, MacrosReturn
    PROVE  TraceIInv'
<1>1. /\ boundTrace' = boundTrace /\ graph' = graph /\ kahn' = kahn /\ traceAt' = 1
      /\ tracePc = "macros" /\ traceError = "none"
      /\ \/ tracePc' = "uops" /\ traceError' = "none"
         \/ tracePc' = "raised" /\ traceError' # "cycle"
  BY DEF MacrosReturn, TraceGoOn, Raise, TraceIInv, TraceEarlyInv
<1>2. UopIds' = UopIds
  BY <1>1 DEF UopIds
<1>3. TraceTypes' /\ UniqueInv' /\ TraceEarlyInv' /\ StartInv'
  BY <1>1, <1>2 DEF TraceIInv, TraceTypes, UniqueInv, Unique, TraceEarlyInv, StartInv, graph, kahn
<1>4. BuildInv'
  <2>1. \A k \in DOMAIN boundTrace.uops : k \in Nat /\ ~(k < 1) /\ boundTrace.uops[k].id \in UopIds
    BY FiniteIds DEF TraceIInv
  <2>2. \A x \in UopIds : indegree[x] = 0 /\ consumers[x] = {}
    BY <1>1 DEF TraceIInv, StartInv
  <2> QED
    BY <1>1, <1>2, <2>1, <2>2 DEF BuildInv, graph
<1>5. KahnInv'
  BY <1>1 DEF KahnInv
<1> QED
  BY <1>3, <1>4, <1>5 DEF TraceIInv

\* A uop adds its edges.
LEMMA UopInv ==
    ASSUME TraceIInv, CheckUop
    PROVE  TraceIInv'
<1> DEFINE uop == boundTrace.uops[traceAt]
<1>1. /\ boundTrace' = boundTrace /\ kahn' = kahn
      /\ tracePc = "uops" /\ traceError = "none" /\ traceAt <= Len(boundTrace.uops)
      /\ \/ tracePc' = "raised" /\ traceError' # "cycle" /\ graph' = graph
         \/ /\ tracePc' = "uops" /\ traceError' = "none" /\ traceAt' = traceAt + 1
            /\ uop.dependencies \subseteq UopIds
            /\ indegree' = IndegreeOf(uop) /\ consumers' = ConsumersOf(uop)
  BY DEF CheckUop, TraceGoOn, Raise, UopError, TraceIInv, TraceEarlyInv, graph
<1>2. UopIds' = UopIds
  BY <1>1 DEF UopIds
<1>3. TraceTypes'
  BY <1>1, <1>2 DEF TraceIInv, TraceTypes, graph, kahn, IndegreeOf, ConsumersOf
<1>4. UniqueInv' /\ TraceEarlyInv' /\ StartInv'
  BY <1>1, <1>2 DEF TraceIInv, UniqueInv, Unique, TraceEarlyInv, StartInv, kahn
<1>5. KahnInv'
  BY <1>1 DEF KahnInv
<1>6. BuildInv'
  <2> SUFFICES ASSUME tracePc' = "uops" PROVE BuildInv'
    BY DEF BuildInv
  <2>1. /\ traceAt' = traceAt + 1 /\ uop.dependencies \subseteq UopIds
        /\ indegree' = IndegreeOf(uop) /\ consumers' = ConsumersOf(uop)
    BY <1>1
  <2>2. /\ traceAt \in Nat \ {0} /\ Unique(boundTrace.uops) /\ DOMAIN indegree = UopIds
        /\ \A k \in DOMAIN boundTrace.uops :
              /\ indegree[boundTrace.uops[k].id] =
                    IF k < traceAt THEN Cardinality(boundTrace.uops[k].dependencies) ELSE 0
              /\ k < traceAt => boundTrace.uops[k].dependencies \subseteq UopIds
        /\ \A d \in UopIds : consumers[d] =
              {boundTrace.uops[j].id : j \in {i \in DOMAIN boundTrace.uops :
                                            i < traceAt /\ d \in boundTrace.uops[i].dependencies}}
    BY <1>1 DEF TraceIInv, BuildInv, UniqueInv, TraceTypes
  <2>3. /\ Len(boundTrace.uops) \in Nat /\ DOMAIN boundTrace.uops = 1..Len(boundTrace.uops)
        /\ \A k \in DOMAIN boundTrace.uops : boundTrace.uops[k].id \in UopIds
    BY FiniteIds DEF TraceIInv
  <2>4. traceAt \in DOMAIN boundTrace.uops
    BY <1>1, <2>2, <2>3
  <2>5. Cardinality(uop.dependencies) \in Nat
    BY <2>4, FiniteIds, IdAssumption, FS_Subset, FS_CardinalityType DEF TraceIInv
  <2>6. \A k \in DOMAIN boundTrace.uops :
           indegree'[boundTrace.uops[k].id] =
                 IF k < traceAt + 1 THEN Cardinality(boundTrace.uops[k].dependencies) ELSE 0
    <3> SUFFICES ASSUME NEW k \in DOMAIN boundTrace.uops
                 PROVE  indegree'[boundTrace.uops[k].id] =
                           IF k < traceAt + 1 THEN Cardinality(boundTrace.uops[k].dependencies) ELSE 0
      OBVIOUS
    <3>1. CASE k = traceAt
      <4>1. indegree[uop.id] = 0
        BY <2>2, <2>4
      <4>2. indegree'[uop.id] = 0 + Cardinality(uop.dependencies)
        BY <4>1, <2>1, <2>2, <2>3, <2>4 DEF IndegreeOf
      <4> QED
        BY <4>2, <3>1, <2>5, <2>2
    <3>2. CASE k # traceAt
      <4>1. boundTrace.uops[k].id # uop.id
        BY <3>2, <2>2, <2>4 DEF Unique
      <4>2. indegree'[boundTrace.uops[k].id] = indegree[boundTrace.uops[k].id]
        BY <4>1, <2>1, <2>2, <2>3 DEF IndegreeOf
      <4>3. k < traceAt + 1 <=> k < traceAt
        BY <3>2, <2>2, <2>3
      <4> QED
        BY <4>2, <4>3, <2>2
    <3> QED
      BY <3>1, <3>2
  <2>7. \A k \in DOMAIN boundTrace.uops : k < traceAt + 1 => boundTrace.uops[k].dependencies \subseteq UopIds
    <3> SUFFICES ASSUME NEW k \in DOMAIN boundTrace.uops, k < traceAt + 1
                 PROVE  boundTrace.uops[k].dependencies \subseteq UopIds
      OBVIOUS
    <3>1. k < traceAt \/ k = traceAt
      BY <2>2, <2>3
    <3> QED
      BY <3>1, <2>1, <2>2
  <2>8. ASSUME NEW d \in UopIds
        PROVE  consumers'[d] =
                  {boundTrace.uops[j].id : j \in {i \in DOMAIN boundTrace.uops :
                                                i < traceAt + 1 /\ d \in boundTrace.uops[i].dependencies}}
    <3>1. \A i \in DOMAIN boundTrace.uops : i < traceAt + 1 <=> i < traceAt \/ i = traceAt
      BY <2>2, <2>3
    <3>2. consumers'[d] = IF d \in uop.dependencies
                          THEN consumers[d] \cup {uop.id} ELSE consumers[d]
      BY <2>1 DEF ConsumersOf
    <3> QED
      BY <2>2, <2>4, <3>1, <3>2
  <2> QED
    BY <1>1, <1>2, <2>1, <2>2, <2>6, <2>7, <2>8 DEF BuildInv
<1> QED
  BY <1>3, <1>4, <1>5, <1>6 DEF TraceIInv

\* Once all uops are looked at, the graph is that of the dependencies.
LEMMA UopsReturnInv ==
    ASSUME TraceIInv, UopsReturn
    PROVE  TraceIInv'
<1>1. /\ boundTrace' = boundTrace /\ graph' = graph /\ rank' = rank /\ visited' = visited
      /\ tracePc = "uops" /\ traceAt > Len(boundTrace.uops) /\ tracePc' = "kahn" /\ traceError = "none" /\ traceError' = "none"
      /\ ready' = {x \in UopIds : indegree[x] = 0}
  BY DEF UopsReturn, TraceGoOn, TraceIInv, TraceEarlyInv
<1>2. UopIds' = UopIds /\ \A x : Deps(x)' = Deps(x)
  BY <1>1 DEF UopIds, Deps, DependsOn
<1>3. TraceTypes' /\ UniqueInv' /\ TraceEarlyInv' /\ StartInv' /\ BuildInv'
  BY <1>1, <1>2 DEF TraceIInv, TraceTypes, UniqueInv, Unique, TraceEarlyInv, StartInv, BuildInv, graph
<1>4. /\ Popped = {} /\ Popped' = {} /\ visited' = 0
      /\ \A x \in UopIds : rank'[x] = 0
  BY <1>1, <1>2 DEF TraceIInv, TraceEarlyInv, Popped
<1>5. /\ traceAt \in Nat /\ Len(boundTrace.uops) \in Nat /\ DOMAIN boundTrace.uops = 1..Len(boundTrace.uops)
      /\ Unique(boundTrace.uops)
  BY <1>1, FiniteIds DEF TraceIInv, BuildInv, UniqueInv
<1>6. \A k \in DOMAIN boundTrace.uops :
         /\ k < traceAt /\ Deps(boundTrace.uops[k].id) = boundTrace.uops[k].dependencies
         /\ indegree[boundTrace.uops[k].id] = Cardinality(boundTrace.uops[k].dependencies)
         /\ boundTrace.uops[k].dependencies \subseteq UopIds
  <2> SUFFICES ASSUME NEW k \in DOMAIN boundTrace.uops
               PROVE /\ k < traceAt /\ Deps(boundTrace.uops[k].id) = boundTrace.uops[k].dependencies
                     /\ indegree[boundTrace.uops[k].id] = Cardinality(boundTrace.uops[k].dependencies)
                     /\ boundTrace.uops[k].dependencies \subseteq UopIds
    OBVIOUS
  <2>1. k < traceAt
    BY <1>1, <1>5
  <2> QED
    BY <2>1, <1>1, <1>5, DepsOf DEF TraceIInv, BuildInv
<1>7. \A x \in UopIds : Deps(x) \subseteq UopIds /\ indegree[x] = Cardinality(Deps(x))
  <2> SUFFICES ASSUME NEW x \in UopIds
               PROVE  Deps(x) \subseteq UopIds /\ indegree[x] = Cardinality(Deps(x))
    OBVIOUS
  <2>1. PICK k \in DOMAIN boundTrace.uops : x = boundTrace.uops[k].id
    BY DEF UopIds
  <2> QED
    BY <1>6, <2>1
<1>8. \A d \in UopIds : consumers[d] = {x \in UopIds : d \in Deps(x)}
  <2> SUFFICES ASSUME NEW d \in UopIds
               PROVE  consumers[d] = {x \in UopIds : d \in Deps(x)}
    OBVIOUS
  <2>1. consumers[d] = {boundTrace.uops[j].id : j \in {i \in DOMAIN boundTrace.uops :
                                            i < traceAt /\ d \in boundTrace.uops[i].dependencies}}
    BY <1>1 DEF TraceIInv, BuildInv
  <2>2. \A i \in DOMAIN boundTrace.uops :
           i < traceAt /\ d \in boundTrace.uops[i].dependencies <=> d \in Deps(boundTrace.uops[i].id)
    BY <1>6
  <2> QED
    BY <2>1, <2>2 DEF UopIds
<1>9. Counted'
  <2>1. \A x : Deps(x) \ {} = Deps(x)
    OBVIOUS
  <2>2. visited' = Cardinality(Popped')
    BY <1>4, FS_EmptySet
  <2> QED
    BY <1>1, <1>2, <1>4, <1>7, <1>8, <2>1, <2>2 DEF Counted, graph
<1>10. Ranked'
  BY <1>2, <1>4 DEF Ranked
<1>11. KahnInv'
  BY <1>1, <1>9, <1>10 DEF KahnInv
<1> QED
  BY <1>3, <1>11 DEF TraceIInv

\* A visit removes one producer from every consumer of the uop; the uop itself
\* is a consumer of none that was visited.
LEMMA PopInv ==
    ASSUME TraceIInv, NEW x \in Id, Pop(x)
    PROVE  TraceIInv'
<1>1. /\ boundTrace' = boundTrace /\ consumers' = consumers /\ tracePc = "kahn" /\ tracePc' = "kahn"
      /\ traceError = "none" /\ traceError' = "none" /\ x \in ready
      /\ visited' = visited + 1 /\ rank' = [rank EXCEPT ![x] = visited + 1]
      /\ indegree' = [y \in UopIds |-> IF y \in consumers[x] THEN indegree[y] - 1 ELSE indegree[y]]
      /\ ready' = (ready \ {x}) \cup {y \in consumers[x] : indegree'[y] = 0}
  BY DEF Pop, TraceIInv, KahnInv
<1>2. UopIds' = UopIds /\ \A y : Deps(y)' = Deps(y)
  BY <1>1 DEF UopIds, Deps, DependsOn
<1>3. TraceTypes /\ Counted /\ Ranked
  BY <1>1 DEF TraceIInv, KahnInv
<1>4. x \in UopIds /\ x \notin Popped /\ indegree[x] = 0
  BY <1>1, <1>3 DEF Counted
<1>5. Popped' = Popped \cup {x}
  BY <1>1, <1>2, <1>3, <1>4 DEF Popped, TraceTypes
<1>6. /\ IsFiniteSet(UopIds) /\ IsFiniteSet(Popped) /\ Cardinality(Popped) \in Nat
      /\ \A y : IsFiniteSet(Deps(y) \ Popped) /\ Cardinality(Deps(y) \ Popped) \in Nat
  <2>1. IsFiniteSet(UopIds) /\ \A y : IsFiniteSet(Deps(y))
    BY FiniteIds, <1>3
  <2>2. IsFiniteSet(Popped)
    BY <2>1, FS_Subset DEF Popped
  <2>3. ASSUME NEW y PROVE IsFiniteSet(Deps(y) \ Popped)
    BY <2>1, FS_Subset
  <2> QED
    BY <2>1, <2>2, <2>3, FS_CardinalityType
<1>7. TraceTypes'
  BY <1>1, <1>2, <1>3 DEF TraceTypes, Counted
<1>8. UniqueInv' /\ TraceEarlyInv' /\ StartInv' /\ BuildInv'
  BY <1>1 DEF TraceIInv, UniqueInv, Unique, TraceEarlyInv, StartInv, BuildInv
<1>9. \A y \in Deps(x) : y \in Popped
  <2>1. Cardinality(Deps(x) \ Popped) = 0
    BY <1>3, <1>4 DEF Counted
  <2> QED
    BY <2>1, <1>6, FS_EmptySet
<1>10. visited' = Cardinality(Popped')
  BY <1>1, <1>3, <1>4, <1>5, <1>6, FS_AddElement DEF Counted
<1>11. ASSUME NEW y \in UopIds
       PROVE  indegree'[y] = Cardinality(Deps(y) \ Popped')
  <2>1. Deps(y) \ Popped' = (Deps(y) \ Popped) \ {x}
    BY <1>5
  <2>2. Cardinality(Deps(y) \ Popped') =
          IF x \in Deps(y) \ Popped THEN Cardinality(Deps(y) \ Popped) - 1
          ELSE Cardinality(Deps(y) \ Popped)
    <3> DEFINE R == Deps(y) \ Popped
    <3>1. IsFiniteSet(R)
      BY <1>6
    <3> HIDE DEF R
    <3>2. Cardinality(R \ {x}) = IF x \in R THEN Cardinality(R) - 1 ELSE Cardinality(R)
      BY <3>1, FS_RemoveElement
    <3> QED
      BY <2>1, <3>2 DEF R
  <2>3. y \in consumers[x] <=> x \in Deps(y)
    BY <1>3, <1>4 DEF Counted
  <2>4. indegree[y] = Cardinality(Deps(y) \ Popped)
    BY <1>3 DEF Counted
  <2> QED
    BY <1>1, <1>4, <2>2, <2>3, <2>4
<1>12. ready' = {y \in UopIds \ Popped' : indegree'[y] = 0}
  <2>1. \A y \in Popped : x \notin Deps(y)
    BY <1>3, <1>4 DEF Ranked
  <2>2. x \notin consumers[x] /\ \A y \in consumers[x] : y \in UopIds /\ y \notin Popped
    BY <1>3, <1>4, <1>9, <2>1 DEF Counted
  <2>3. \A y \in UopIds : y \notin consumers[x] => indegree'[y] = indegree[y]
    BY <1>1
  <2>4. \A y \in consumers[x] : y \notin ready
    <3> SUFFICES ASSUME NEW y \in consumers[x], y \in ready PROVE FALSE
      OBVIOUS
    <3>1. y \in UopIds /\ x \in Deps(y) /\ Cardinality(Deps(y) \ Popped) = 0
      BY <1>3, <1>4 DEF Counted
    <3> QED
      BY <3>1, <1>4, <1>6, FS_EmptySet
  <2>5. ready = {y \in UopIds \ Popped : indegree[y] = 0}
    BY <1>3 DEF Counted
  <2> QED
    BY <1>1, <1>5, <2>2, <2>3, <2>4, <2>5
<1>13. Counted'
  <2>1. \A y \in UopIds : Deps(y) \subseteq UopIds
    BY <1>3 DEF Counted
  <2>2. \A d \in UopIds : consumers[d] = {y \in UopIds : d \in Deps(y)}
    BY <1>3 DEF Counted
  <2> QED
    BY <1>1, <1>2, <1>10, <1>11, <1>12, <2>1, <2>2 DEF Counted
<1>14. Ranked'
  <2>1. visited \in Nat /\ rank \in [UopIds -> Nat] /\ \A y \in UopIds : rank[y] <= visited
    BY <1>3 DEF TraceTypes, Ranked
  <2>2. \A y \in UopIds : rank'[y] = IF y = x THEN visited + 1 ELSE rank[y]
    BY <1>1, <2>1
  <2>3. \A y \in UopIds : rank'[y] <= visited'
    BY <1>1, <2>1, <2>2
  <2>4. ASSUME NEW y \in Popped', NEW d \in Deps(y)
        PROVE  d \in Popped' /\ rank'[d] < rank'[y]
    <3>1. CASE y = x
      <4>1. d \in Popped /\ d # x /\ d \in UopIds
        BY <3>1, <1>4, <1>9 DEF Popped
      <4> QED
        BY <4>1, <3>1, <1>4, <1>5, <2>1, <2>2
    <3>2. CASE y # x
      <4>1. y \in Popped /\ d \in Popped /\ rank[d] < rank[y] /\ d # x
        BY <3>2, <1>3, <1>4, <1>5 DEF Ranked
      <4> QED
        BY <4>1, <3>2, <1>5, <2>2 DEF Popped
    <3> QED
      BY <3>1, <3>2
  <2> QED
    BY <1>2, <2>3, <2>4 DEF Ranked
<1>15. KahnInv'
  BY <1>1, <1>13, <1>14 DEF KahnInv
<1> QED
  BY <1>7, <1>8, <1>15 DEF TraceIInv

\* The verdict, and a validation that is over.
LEMMA FrameInv ==
    ASSUME TraceIInv, KahnReturns \/ UNCHANGED traceVars
    PROVE  TraceIInv'
<1>1. /\ boundTrace' = boundTrace /\ traceAt' = traceAt /\ graph' = graph /\ kahn' = kahn
      /\ \/ tracePc' = tracePc /\ traceError' = traceError
         \/ /\ tracePc = "kahn" /\ traceError = "none" /\ ready = {}
            /\ \/ tracePc' = "accepted" /\ traceError' = "none" /\ visited = Cardinality(UopIds)
               \/ tracePc' = "raised" /\ traceError' = "cycle" /\ visited # Cardinality(UopIds)
  BY DEF KahnReturns, TraceGoOn, Raise, TraceIInv, KahnInv, traceVars
<1>2. UopIds' = UopIds /\ Popped' = Popped /\ \A x : Deps(x)' = Deps(x)
  BY <1>1 DEF UopIds, Popped, Deps, DependsOn, kahn
<1>3. TraceTypes' /\ UniqueInv' /\ TraceEarlyInv' /\ StartInv' /\ BuildInv'
  BY <1>1, <1>2 DEF TraceIInv, TraceTypes, UniqueInv, Unique, TraceEarlyInv, StartInv, BuildInv, graph, kahn
<1>4. Counted /\ Ranked => Counted' /\ Ranked'
  BY <1>1, <1>2 DEF Counted, Ranked, graph, kahn
<1>5. KahnInv'
  BY <1>1, <1>2, <1>4 DEF TraceIInv, KahnInv, kahn
<1> QED
  BY <1>3, <1>5 DEF TraceIInv

\* The inductive invariant.
THEOREM Validated == TraceSpec => []TraceIInv
<1>1. TraceIInv /\ [TraceNext]_traceVars => TraceIInv'
  <2> SUFFICES ASSUME TraceIInv, [TraceNext]_traceVars PROVE TraceIInv'
    OBVIOUS
  <2>1. CASE \E x \in Id : Pop(x)
    BY <2>1, PopInv
  <2> QED
    BY <2>1, IdsInv, MacrosInv, UopInv, UopsReturnInv, FrameInv DEF TraceNext, TraceStopped
<1> QED
  BY <1>1, TraceInitInv, PTL DEF TraceSpec

\* The dependencies of what validate_bound_trace accepts have an order, whatever
\* the trace: every uop was visited, after its producers.
LEMMA AcceptedIsOrdered == TraceIInv => DependenciesOrdered
<1> SUFFICES ASSUME TraceIInv, tracePc = "accepted", NEW x \in UopIds
             PROVE  /\ rank[x] # 0
                    /\ \A d \in Id : DependsOn(x, d) =>
                          d \in UopIds /\ rank[d] # 0 /\ rank[d] < rank[x]
  BY DEF DependenciesOrdered
<1>1. Counted /\ Ranked /\ Cardinality(Popped) = Cardinality(UopIds)
  BY DEF TraceIInv, KahnInv, Counted
<1>2. Popped \subseteq UopIds /\ IsFiniteSet(UopIds)
  BY FiniteIds DEF TraceIInv, Popped
<1>3. Popped = UopIds
  BY <1>1, <1>2, FS_Subset
<1> QED
  BY <1>1, <1>3 DEF Ranked, Deps, Popped

\* validate_bound_trace accepts no trace whose uops wait for each other for ever,
\* but for those that do so through issue_after_uop: of uops that wait for each
\* other, the one of least rank has no producer among them.
THEOREM OnlyPredecessorsDeadlockHolds == TraceSpec => [](DependenciesOrdered /\ OnlyPredecessorsDeadlock)
<1>1. TraceIInv => OnlyPredecessorsDeadlock
  <2> SUFFICES ASSUME TraceIInv, tracePc = "accepted", NEW S \in SUBSET UopIds, Deadlocked(S)
               PROVE  \E x, y \in S : Follows(x, y)
    BY DEF OnlyPredecessorsDeadlock
  <2>1. DependenciesOrdered /\ rank \in [UopIds -> Nat] /\ UopIds \subseteq Id
    BY AcceptedIsOrdered, FiniteIds DEF TraceIInv, TraceTypes
  <2> DEFINE ranks == {rank[x] : x \in S}
  <2>2. ranks \in SUBSET Nat /\ ranks # {}
    BY <2>1 DEF Deadlocked
  <2>3. PICK n \in ranks : \A m \in ranks : n <= m
    <3> HIDE DEF ranks
    <3> QED
      BY <2>2, LeastMember
  <2>4. PICK x \in S : rank[x] = n
    BY <2>3
  <2>5. PICK d \in S : DependsOn(x, d) \/ Follows(x, d)
    BY DEF Deadlocked
  <2>6. ~DependsOn(x, d)
    <3> SUFFICES ASSUME DependsOn(x, d) PROVE FALSE
      OBVIOUS
    <3>1. rank[d] < rank[x]
      BY <2>1, tracePc = "accepted" DEF DependenciesOrdered
    <3>2. rank[x] <= rank[d] /\ rank[x] \in Nat /\ rank[d] \in Nat
      BY <2>1, <2>3, <2>4
    <3> QED
      BY <3>1, <3>2
  <2> QED
    BY <2>4, <2>5, <2>6
<1> QED
  BY <1>1, AcceptedIsOrdered, Validated, PTL

\* "dependency graph contains a cycle" is right, whatever the trace: every uop
\* that was not visited waits for another such uop.
THEOREM CycleIsRealHolds == TraceSpec => []CycleIsReal
<1>1. TraceIInv => CycleIsReal
  <2> DEFINE stuck == {x \in UopIds : rank[x] = 0}
  <2> SUFFICES ASSUME TraceIInv, traceError = "cycle"
               PROVE  stuck # {} /\ \A x \in stuck : \E d \in stuck : DependsOn(x, d)
    BY DEF CycleIsReal
  <2>1. TraceTypes /\ Counted /\ ready = {} /\ Cardinality(Popped) # Cardinality(UopIds)
    BY DEF TraceIInv, KahnInv, Counted
  <2>2. stuck # {}
    <3> SUFFICES ASSUME stuck = {} PROVE FALSE
      OBVIOUS
    <3>1. Popped = UopIds
      BY DEF Popped
    <3> QED
      BY <2>1, <3>1
  <2>3. ASSUME NEW x \in stuck PROVE \E d \in stuck : DependsOn(x, d)
    <3>1. x \in UopIds \ Popped
      BY DEF Popped
    <3>2. Cardinality(Deps(x) \ Popped) # 0 /\ Deps(x) \subseteq UopIds
      BY <2>1, <3>1 DEF Counted
    <3>3. Deps(x) \ Popped # {}
      BY <3>2, FS_EmptySet
    <3> QED
      BY <3>2, <3>3 DEF Popped, Deps
  <2> QED
    BY <2>2, <2>3
<1> QED
  BY <1>1, Validated, PTL

-----------------------------------------------------------------------------
(***************************************************************************)
(* The macro-ops: each is checked against the uops it names, and together  *)
(* they name them all.                                                     *)
(***************************************************************************)
MacroInv ==
    /\ tracePc = "ids" => traceAt = 1 /\ referenced = {}
    /\ tracePc \in {"macros", "uops", "kahn", "accepted"} => Unique(boundTrace.macros)
    /\ tracePc = "macros" =>
               /\ traceAt \in Nat \ {0}
               /\ \A m \in DOMAIN boundTrace.macros : m < traceAt => MacroError(boundTrace.macros[m]) = "none"
               /\ \A x \in referenced : \E m \in DOMAIN boundTrace.macros : x \in ToSet(boundTrace.macros[m].uops)
    /\ tracePc \in {"uops", "kahn", "accepted"} =>
               /\ \A m \in DOMAIN boundTrace.macros : MacroError(boundTrace.macros[m]) = "none"
               /\ \A x \in UopIds : \E m \in DOMAIN boundTrace.macros : x \in ToSet(boundTrace.macros[m].uops)

CInv == TraceTypeOK /\ MacroInv

LEMMA MacroNumbers ==
    ASSUME boundTrace \in Traces
    PROVE  Len(boundTrace.macros) \in Nat /\ DOMAIN boundTrace.macros = 1..Len(boundTrace.macros)
<1>1. boundTrace.macros \in Seq({boundTrace.macros[k] : k \in DOMAIN boundTrace.macros})
  BY TracesAssumption
<1> QED
  BY <1>1

LEMMA InitClosed == TraceInit => CInv
<1> SUFFICES ASSUME TraceInit PROVE CInv
  OBVIOUS
<1>1. Cardinality(UopIds) \in Nat
  BY FiniteIds, TraceInitInv DEF TraceIInv
<1> QED
  BY <1>1 DEF TraceInit, CInv, TraceTypeOK, MacroInv

LEMMA MacrosClosed ==
    ASSUME TraceIInv, CInv, CheckIds \/ CheckMacro \/ MacrosReturn
    PROVE  CInv'
<1>1. /\ boundTrace' = boundTrace /\ graph' = graph /\ kahn' = kahn
      /\ tracePc \in {"ids", "macros"} /\ traceError = "none"
      /\ tracePc' \in {"macros", "uops", "raised"} /\ (tracePc' = "raised" <=> traceError' # "none")
  BY DEF CheckIds, CheckMacro, MacrosReturn, TraceGoOn, Raise, TraceIInv, TraceEarlyInv
<1>2. UopIds' = UopIds /\ \A macro : MacroError(macro)' = MacroError(macro)
  BY <1>1 DEF UopIds, MacroError, ParentIs
<1>3. TraceTypeOK'
  BY <1>1, <1>2 DEF CInv, TraceTypeOK, graph, kahn
<1>4. Len(boundTrace.macros) \in Nat /\ DOMAIN boundTrace.macros = 1..Len(boundTrace.macros)
  BY MacroNumbers DEF CInv, TraceTypeOK
<1>5. CASE CheckIds
  <2>1. traceAt' = 1 /\ referenced' = {} /\ (tracePc' = "macros" => Unique(boundTrace.macros)) /\ tracePc' # "uops"
    BY <1>5 DEF CheckIds, TraceGoOn, Raise, CInv, MacroInv
  <2>2. \A m \in DOMAIN boundTrace.macros : ~(m < 1)
    BY <1>4
  <2> QED
    BY <1>1, <1>3, <2>1, <2>2 DEF CInv, MacroInv, Unique
<1>6. CASE CheckMacro
  <2>1. CASE tracePc' = "raised"
    BY <2>1, <1>3 DEF CInv, MacroInv
  <2>2. CASE tracePc' # "raised"
    <3>1. /\ tracePc' = "macros" /\ traceAt' = traceAt + 1 /\ MacroError(boundTrace.macros[traceAt]) = "none"
          /\ referenced' = referenced \cup ToSet(boundTrace.macros[traceAt].uops) /\ traceAt <= Len(boundTrace.macros)
          /\ traceAt \in Nat \ {0} /\ tracePc = "macros"
      BY <1>6, <2>2 DEF CheckMacro, TraceGoOn, Raise, CInv, MacroInv
    <3>2. /\ traceAt \in DOMAIN boundTrace.macros
          /\ \A m \in DOMAIN boundTrace.macros : m < traceAt + 1 => m < traceAt \/ m = traceAt
      BY <1>4, <3>1
    <3>3. \A m \in DOMAIN boundTrace.macros : m < traceAt' => MacroError(boundTrace.macros[m]) = "none"
      BY <3>1, <3>2 DEF CInv, MacroInv
    <3>4. \A x \in referenced' : \E m \in DOMAIN boundTrace.macros : x \in ToSet(boundTrace.macros[m].uops)
      BY <3>1, <3>2 DEF CInv, MacroInv
    <3>5. Unique(boundTrace.macros)
      BY <3>1 DEF CInv, MacroInv
    <3> QED
      BY <1>1, <1>2, <1>3, <3>1, <3>3, <3>4, <3>5 DEF CInv, MacroInv, Unique
  <2> QED
    BY <2>1, <2>2
<1>7. CASE MacrosReturn
  <2>1. CASE tracePc' = "raised"
    BY <2>1, <1>3 DEF CInv, MacroInv
  <2>2. CASE tracePc' # "raised"
    <3>1. tracePc' = "uops" /\ tracePc = "macros" /\ referenced = UopIds /\ traceAt > Len(boundTrace.macros)
      BY <1>7, <2>2 DEF MacrosReturn, TraceGoOn, Raise
    <3>2. \A m \in DOMAIN boundTrace.macros : m < traceAt
      BY <1>4, <3>1 DEF CInv, MacroInv
    <3> QED
      BY <1>1, <1>2, <1>3, <3>1, <3>2 DEF CInv, MacroInv, Unique
  <2> QED
    BY <2>1, <2>2
<1> QED
  BY <1>5, <1>6, <1>7

LEMMA UopsClosed ==
    ASSUME TraceIInv, CInv, TraceIInv',
           CheckUop \/ UopsReturn \/ KahnReturns \/ (\E x \in Id : Pop(x)) \/ UNCHANGED traceVars
    PROVE  CInv'
<1>1. /\ boundTrace' = boundTrace /\ referenced' = referenced
      /\ tracePc \notin {"uops", "kahn"} => UNCHANGED traceVars
      /\ tracePc \in {"uops", "kahn"} => tracePc' \in {"uops", "kahn", "accepted", "raised"} /\ traceError = "none"
      /\ tracePc \in {"uops", "kahn"} => (tracePc' = "raised" <=> traceError' # "none")
  BY DEF CheckUop, UopsReturn, KahnReturns, Pop, TraceGoOn, Raise, UopError, TraceIInv, TraceEarlyInv, KahnInv,
         traceVars
<1>2. UopIds' = UopIds /\ \A macro : MacroError(macro)' = MacroError(macro)
  BY <1>1 DEF UopIds, MacroError, ParentIs
<1>3. MacroInv'
  BY <1>1, <1>2 DEF CInv, MacroInv, Unique, traceVars
<1>4. /\ IsFiniteSet(UopIds) /\ Cardinality(UopIds) \in Nat
      /\ \A k \in DOMAIN boundTrace.uops :
            boundTrace.uops[k].id \in UopIds /\ Cardinality(boundTrace.uops[k].dependencies) \in Nat
  BY FiniteIds, IdAssumption, FS_Subset, FS_CardinalityType DEF TraceIInv
<1>5. CASE CheckUop
  <2>1. kahn' = kahn
    BY <1>5 DEF CheckUop
  <2>2. CASE graph' = graph
    BY <1>1, <1>2, <1>3, <1>5, <2>1, <2>2 DEF CInv, TraceTypeOK, graph, kahn, CheckUop
  <2>3. CASE indegree' = IndegreeOf(boundTrace.uops[traceAt]) /\ consumers' = ConsumersOf(boundTrace.uops[traceAt])
    <3> DEFINE uop == boundTrace.uops[traceAt]
    <3>1. traceAt \in DOMAIN boundTrace.uops
      BY <1>5, FiniteIds DEF CheckUop, TraceIInv, BuildInv
    <3>2. uop.id \in UopIds /\ Cardinality(uop.dependencies) \in Nat
      BY <1>4, <3>1
    <3>3. indegree \in [UopIds -> Nat] /\ consumers \in [UopIds -> SUBSET UopIds]
      BY DEF CInv, TraceTypeOK
    <3>4. indegree' \in [UopIds -> Nat] /\ consumers' \in [UopIds -> SUBSET UopIds]
      BY <2>3, <3>2, <3>3 DEF IndegreeOf, ConsumersOf
    <3> QED
      BY <1>1, <1>2, <1>3, <1>5, <2>1, <3>4 DEF CInv, TraceTypeOK, kahn, CheckUop
  <2> QED
    BY <1>5, <2>2, <2>3 DEF CheckUop, graph
<1>6. CASE UopsReturn
  BY <1>1, <1>2, <1>3, <1>6 DEF UopsReturn, CInv, TraceTypeOK, graph
<1>7. CASE KahnReturns \/ UNCHANGED traceVars
  BY <1>1, <1>2, <1>3, <1>7 DEF KahnReturns, CInv, TraceTypeOK, graph, kahn, traceVars
<1>8. ASSUME NEW x \in Id, Pop(x) PROVE CInv'
  <2>1. tracePc' = "kahn" /\ consumers' = consumers /\ Counted' /\ Ranked' /\ TraceTypes'
    BY <1>8 DEF Pop, TraceIInv, KahnInv
  <2>2. Popped' \subseteq UopIds /\ \A y : IsFiniteSet(Deps(y)')
    BY <1>2, <2>1, IdAssumption, FS_Subset DEF Popped, Deps
  <2>3. \A y \in UopIds : Cardinality(Deps(y)' \ Popped') \in Nat
    BY <2>2, FS_Subset, FS_CardinalityType
  <2>4. indegree' \in [UopIds -> Nat]
    <3>1. \A y \in UopIds : indegree'[y] = Cardinality(Deps(y)' \ Popped')
      BY <1>2, <2>1 DEF Counted
    <3>2. indegree' = [y \in UopIds |-> indegree'[y]]
      <4>1. indegree' = [y \in UopIds |-> IF y \in consumers[x] THEN indegree[y] - 1 ELSE indegree[y]]
        BY <1>8 DEF Pop
      <4> QED
        BY <4>1
    <3> QED
      BY <2>3, <3>1, <3>2
  <2>5. visited' \in Nat /\ visited' <= Cardinality(UopIds)
    BY <1>4, <2>1, <2>2, FS_Subset DEF Counted, TraceTypes
  <2>6. rank' \in [UopIds -> 0..visited'] /\ ready' \subseteq UopIds
    BY <1>2, <2>1, <2>5 DEF TraceTypes, Ranked
  <2> QED
    BY <1>1, <1>2, <1>3, <1>4, <1>8, <2>1, <2>4, <2>5, <2>6 DEF CInv, TraceTypeOK, Pop
<1> QED
  BY <1>5, <1>6, <1>7, <1>8

\* Every uop of a trace that validate_bound_trace accepts belongs to one macro-op
\* of the trace, and names it; and the validator's own state is what its types
\* say, whatever the trace.
THEOREM AcceptedIsClosedHolds == TraceSpec => []AcceptedIsClosed
<1>1. TraceIInv /\ CInv /\ [TraceNext]_traceVars /\ TraceIInv' => CInv'
  BY MacrosClosed, UopsClosed DEF TraceNext, TraceStopped
<1>2. CInv => AcceptedIsClosed
  <2> SUFFICES ASSUME CInv, tracePc = "accepted", NEW x \in UopIds
               PROVE  \E m \in DOMAIN boundTrace.macros :
                         /\ x \in ToSet(boundTrace.macros[m].uops) /\ ParentIs(x, boundTrace.macros[m].id)
                         /\ \A n \in DOMAIN boundTrace.macros : x \in ToSet(boundTrace.macros[n].uops) => n = m
    BY DEF AcceptedIsClosed, CInv
  <2>1. \A m \in DOMAIN boundTrace.macros :
           \A y \in ToSet(boundTrace.macros[m].uops) : ParentIs(y, boundTrace.macros[m].id)
    BY DEF CInv, MacroInv, MacroError, ToSet
  <2>2. PICK m \in DOMAIN boundTrace.macros : x \in ToSet(boundTrace.macros[m].uops)
    BY DEF CInv, MacroInv
  <2>3. PICK k \in DOMAIN boundTrace.uops : boundTrace.uops[k].id = x
    BY DEF UopIds
  <2>4. ASSUME NEW n \in DOMAIN boundTrace.macros, x \in ToSet(boundTrace.macros[n].uops) PROVE n = m
    <3>1. boundTrace.macros[n].id = boundTrace.macros[m].id
      BY <2>1, <2>2, <2>3, <2>4 DEF ParentIs
    <3> QED
      BY <3>1 DEF CInv, MacroInv, Unique
  <2> QED
    BY <2>1, <2>2, <2>4
<1> QED
  BY <1>1, <1>2, InitClosed, Validated, PTL DEF TraceSpec

\* What the back ends may take for granted of an accepted trace holds, for any
\* set of traces: its dependencies have an order, only issue predecessors can
\* deadlock it, and every uop has one macro-op.
THEOREM AcceptedIsSoundHolds == TraceSpec => []AcceptedIsSound
<1>1. DependenciesOrdered /\ OnlyPredecessorsDeadlock /\ AcceptedIsClosed <=> AcceptedIsSound
  BY DEF AcceptedIsSound
<1> QED
  BY <1>1, OnlyPredecessorsDeadlockHolds, AcceptedIsClosedHolds, PTL

-----------------------------------------------------------------------------
(***************************************************************************)
(* Theorems about RtlResults, for any number of runs, builds, points and   *)
(* samples: what the results directory and alignment.json claim holds      *)
(* whatever was killed, refused, rebuilt or overlapped.                    *)
(***************************************************************************)

(***************************************************************************)
(* The inductive invariant.                                                *)
(***************************************************************************)
RtlTypes ==
    /\ rtlPc \in {"idle", "emulate", "check", "parse", "open", "write", "refresh", "replace"}
    /\ rtlAt \in 1..6 /\ build \in 0..MaxBuilds
    /\ logs \in Seq(Logs) /\ loaded \in Seq(Nat)
    /\ Len(logs) = Len(loaded) /\ Len(logs) <= MaxRuns
    /\ DOMAIN disk = File
    /\ rtlPc # "idle" => Current # 0
    /\ align \in {"idle", "profile", "simulate"}

\* The log is that of the last run, or of one before it; a table stems from a
\* run that was accepted.
FilesSound ==
    /\ disk["log"].run \in 0..Current
    /\ \A f \in ToSet(Tables) :
          disk[f] # RtlAbsent => disk[f].run \in Run /\ Accepted(logs[disk[f].run])

\* What run_rtl.sh has seen when it is past a step.
Checked ==
    /\ rtlPc \notin {"idle", "emulate"} => disk["log"] = Whole(Current) /\ Log.exits
    /\ rtlPc \in {"parse", "open", "write", "refresh", "replace"} => Marked(Log)
    /\ rtlPc \in {"open", "write", "refresh", "replace"} =>
             RtlValid(Log) /\ \A i \in 1..(rtlAt - 1) : disk[Tables[i]] = Whole(Current)
    /\ rtlPc = "write" => rtlAt <= Written(Log)
    /\ rtlPc \in {"refresh", "replace"} => rtlAt > Written(Log)

\* The files whose hashes say something about the run r.
Of(r) ==
    {f \in {"log", "summary", "profile_summary", "result_metadata"} :
        f # "profile_summary" \/ logs[r].params # "none"}
Hashing == rtlPc = "replace" => hashed.files = [f \in Artifacts |-> disk[f]]
MetadataSound ==
    LET metadata == disk["metadata"] IN
    /\ metadata.run \in 0..Current
    /\ metadata.hashes # NoHashes =>
          /\ metadata.run \in Run /\ Accepted(logs[metadata.run])
          /\ DOMAIN metadata.hashes.files = Artifacts
          /\ \A f \in Of(metadata.run) : metadata.hashes.files[f] = Whole(metadata.run)

\* run_alignment.py holds a whole table of an accepted run.
Shape == DOMAIN read = {"summary", "profile"}
ReadSound ==
    /\ Shape
    /\ align # "idle" =>
        /\ read.summary.run \in Run /\ Accepted(logs[read.summary.run])
    /\ alignment # NoAlignment =>
        /\ alignment.run \in Run /\ Accepted(logs[alignment.run])
        /\ alignment.records = Records(alignment.run)
RtlIInv ==
    /\ RtlTypes /\ FilesSound /\ Checked /\ Hashing /\ MetadataSound /\ ReadSound

-----------------------------------------------------------------------------
(***************************************************************************)
(* Facts about the operators.                                              *)
(***************************************************************************)
LEMMA TableNames ==
    /\ Len(Tables) = 5 /\ DOMAIN Tables = 1..5
    /\ Tables[1] = "samples" /\ Tables[2] = "summary" /\ Tables[3] = "result_metadata"
    /\ Tables[4] = "profile_samples" /\ Tables[5] = "profile_summary"
    /\ ToSet(Tables) = {"samples", "summary", "result_metadata", "profile_samples",
                        "profile_summary"}
    /\ \A i \in 1..5 : Tables[i] \in ToSet(Tables)
    /\ "log" \notin ToSet(Tables) /\ "metadata" \notin ToSet(Tables)
    /\ File = {"log", "metadata"} \cup ToSet(Tables)
<1>1. DOMAIN Tables = 1..5 /\ Len(Tables) = 5
  BY DEF Tables
<1>2. ToSet(Tables) = {Tables[1], Tables[2], Tables[3], Tables[4], Tables[5]}
  BY <1>1 DEF ToSet
<1> QED
  BY <1>1, <1>2 DEF Tables, File

\* The files that a run with these microbenchmarks writes.
LEMMA WrittenTables ==
    ASSUME NEW l
    PROVE  /\ Written(l) \in 3..5
           /\ l.params # "none" => Written(l) = 5
BY TableNames DEF Written

\* A run that ended the way run_rtl.sh requires is an accepted one.
LEMMA AcceptedLog ==
    ASSUME NEW l, l.exits, Marked(l), RtlValid(l)
    PROVE  Accepted(l)
BY DEF Marked, RtlValid, Accepted

\* An earlier run's log is not touched by the start of another.
LEMMA LogsGrow ==
    ASSUME logs \in Seq(Logs), NEW l \in Logs, logs' = Append(logs, l)
    PROVE  /\ logs' \in Seq(Logs) /\ Len(logs') = Len(logs) + 1 /\ Len(logs) \in Nat
           /\ \A r \in Run : r \in Run' /\ logs'[r] = logs[r]
           /\ logs'[Len(logs) + 1] = l
BY DEF Run

-----------------------------------------------------------------------------
LEMMA RtlInitially == RtlInit => RtlIInv
<1> SUFFICES ASSUME RtlInit PROVE RtlIInv
  OBVIOUS
<1> USE BoundAssumption
<1>1. RtlTypes
  BY DEF RtlInit, RtlTypes, Current
<1>2. FilesSound
  BY TableNames DEF RtlInit, FilesSound, Current, RtlAbsent, Missing
<1>3. Checked /\ Hashing
  BY DEF RtlInit, Checked, Hashing
<1>4. MetadataSound
  BY TableNames DEF RtlInit, MetadataSound, Current, Missing
<1>5. ReadSound
  BY DEF RtlInit, ReadSound, Shape
<1> QED
  BY <1>1, <1>2, <1>3, <1>4, <1>5 DEF RtlIInv

LEMMA StartPreserves ==
    ASSUME RtlIInv, NEW l \in Logs, Start(l)
    PROVE  RtlIInv'
<1> USE BoundAssumption DEF RtlIInv, Current
<1>1. /\ logs' \in Seq(Logs) /\ Len(logs') = Len(logs) + 1 /\ Len(logs) \in Nat
      /\ \A r \in Run : r \in Run' /\ logs'[r] = logs[r]
  BY LogsGrow DEF Start, RtlTypes
<1>2. disk' = [disk EXCEPT !["log"] = Partial(Current + 1)] /\ DOMAIN disk = File
  BY DEF Start, RtlTypes
<1>3. disk'["log"] = Partial(Current + 1) /\ \A f \in File \ {"log"} : disk'[f] = disk[f]
  BY <1>2, TableNames
<1>4. rtlPc' = "emulate" /\ UNCHANGED <<rtlAt, build, hashed, align, read, alignment>>
  BY DEF Start, consumer
<1>5. RtlTypes'
  BY <1>1, <1>2, <1>4 DEF Start, RtlTypes
<1>6. FilesSound'
  <2>1. disk'["log"].run \in 0..Current'
    BY <1>1, <1>3 DEF Partial
  <2>2. ASSUME NEW f \in ToSet(Tables), disk'[f] # RtlAbsent
        PROVE  disk'[f].run \in Run' /\ Accepted(logs'[disk'[f].run])
    <3>1. disk'[f] = disk[f]
      BY <1>3, TableNames
    <3> QED
      BY <1>1, <2>2, <3>1 DEF FilesSound
  <2> QED
    BY <2>1, <2>2 DEF FilesSound
<1>7. Checked' /\ Hashing'
  BY <1>4 DEF Checked, Hashing
<1>8. MetadataSound'
  <2>1. disk'["metadata"] = disk["metadata"]
    BY <1>3, TableNames
  <2> QED
    BY <1>1, <2>1 DEF MetadataSound, Accepted, Of, Artifacts
<1>9. ReadSound'
  BY <1>1, <1>4 DEF ReadSound, Shape, Accepted, Records, RtlRow
<1> QED
  BY <1>5, <1>6, <1>7, <1>8, <1>9

\* The steps that touch neither the files nor the logs nor the consumer.
LEMMA QuietPreserves ==
    ASSUME RtlIInv, UNCHANGED <<logs, loaded, disk, align, read, alignment>>,
           RtlTypes', Checked', Hashing'
    PROVE  RtlIInv'
<1>1. Current' = Current /\ Run' = Run
  BY DEF Current, Run
<1>2. FilesSound' /\ MetadataSound' /\ ReadSound'
  BY <1>1 DEF RtlIInv, FilesSound, MetadataSound, ReadSound, Shape, Accepted, Of, Records, RtlRow
<1> QED
  BY <1>2 DEF RtlIInv

LEMMA EmulatedPreserves ==
    ASSUME RtlIInv, Emulated
    PROVE  RtlIInv'
<1> USE DEF RtlIInv, Current, Log, Run
<1>1. disk' = [disk EXCEPT !["log"] = Whole(Current)] /\ DOMAIN disk = File
  BY DEF Emulated, RtlTypes
<1>2. disk'["log"] = Whole(Current) /\ \A f \in File \ {"log"} : disk'[f] = disk[f]
  BY <1>1, TableNames
<1>3. UNCHANGED <<rtlAt, logs, loaded, build, hashed, align, read, alignment>>
  BY DEF Emulated, consumer
<1>4. Len(logs) \in Nat
  BY DEF RtlTypes
<1>5. RtlTypes'
  BY <1>1, <1>3 DEF Emulated, RtlTypes
<1>6. FilesSound'
  <2>1. disk'["log"].run \in 0..Current'
    BY <1>2, <1>3, <1>4 DEF Whole
  <2>2. \A f \in ToSet(Tables) : disk'[f] = disk[f]
    BY <1>2, TableNames
  <2> QED
    BY <1>3, <2>1, <2>2 DEF FilesSound
<1>7. Checked' /\ Hashing'
  BY <1>2, <1>3 DEF Emulated, Checked, Hashing
<1>8. MetadataSound'
  <2>1. disk'["metadata"] = disk["metadata"]
    BY <1>2, TableNames
  <2> QED
    BY <1>3, <2>1 DEF MetadataSound, Of
<1>9. ReadSound'
  BY <1>3 DEF ReadSound, Shape, Records
<1> QED
  BY <1>5, <1>6, <1>7, <1>8, <1>9

\* check_rtl_log.py, parse_results.py before it writes, and a crash.
LEMMA JudgePreserves ==
    ASSUME RtlIInv, CheckLog \/ Parse \/ Crash \/ Rebuild
    PROVE  RtlIInv'
<1> USE DEF RtlIInv, Current, Log
<1>1. UNCHANGED <<logs, loaded, disk, align, read, alignment>>
  BY DEF CheckLog, Parse, Crash, Rebuild, consumer, run
<1>2. RtlTypes'
  <2>1. CASE CheckLog \/ Parse
    BY <1>1, <2>1 DEF CheckLog, Parse, RtlTypes
  <2>2. CASE Crash
    BY <1>1, <2>2 DEF Crash, RtlTypes
  <2>3. CASE Rebuild
    BY <1>1, <2>3, BoundAssumption DEF Rebuild, RtlTypes, run
  <2> QED
    BY <2>1, <2>2, <2>3
<1>3. Checked' /\ Hashing'
  <2>1. CASE CheckLog
    BY <1>1, <2>1 DEF CheckLog, Checked, Hashing
  <2>2. CASE Parse
    <3>1. /\ rtlPc = "parse" /\ rtlPc' \in {"open", "idle"} /\ rtlAt' = 1
          /\ rtlPc' = "open" => RtlValid(Log)
      BY <2>2 DEF Parse
    <3> QED
      BY <1>1, <3>1 DEF Checked, Hashing
  <2>3. CASE Crash
    BY <1>1, <2>3 DEF Crash, Checked, Hashing
  <2>4. CASE Rebuild
    BY <1>1, <2>4 DEF Rebuild, run, Checked, Hashing, Written
  <2> QED
    BY <2>1, <2>2, <2>3, <2>4
<1> QED
  BY <1>1, <1>2, <1>3, QuietPreserves

\* A table of the run that was just accepted: opened, then complete.
LEMMA TablePreserves ==
    ASSUME RtlIInv, NEW w \in BOOLEAN, rtlPc \in {"open", "write"}, rtlAt <= Written(Log),
           disk' = [disk EXCEPT ![Tables[rtlAt]] = [run |-> Current, whole |-> w]],
           w => rtlPc' = "open" /\ rtlAt' = rtlAt + 1,
           ~w => rtlPc' = "write" /\ rtlAt' = rtlAt,
           UNCHANGED <<logs, loaded, build, hashed, align, read, alignment>>
    PROVE  RtlIInv'
<1> USE DEF RtlIInv, Current, Log, Run
<1>1. rtlAt \in 1..5 /\ Written(Log) \in 3..5
  BY WrittenTables DEF RtlTypes
<1>2. /\ disk'[Tables[rtlAt]] = [run |-> Current, whole |-> w]
      /\ \A f \in File \ {Tables[rtlAt]} : disk'[f] = disk[f]
      /\ Tables[rtlAt] \in ToSet(Tables) /\ DOMAIN disk' = File
  BY <1>1, TableNames DEF RtlTypes
<1>3. Len(logs) \in Nat /\ Len(logs) # 0 /\ Accepted(Log)
  BY AcceptedLog DEF RtlTypes, Checked
<1>4. RtlTypes'
  BY <1>1, <1>2 DEF RtlTypes
<1>5. FilesSound'
  <2>1. disk'["log"] = disk["log"]
    BY <1>2, TableNames
  <2>2. ASSUME NEW f \in ToSet(Tables), disk'[f] # RtlAbsent
        PROVE  disk'[f].run \in Run /\ Accepted(logs[disk'[f].run])
    <3>1. CASE f = Tables[rtlAt]
      BY <1>2, <1>3, <3>1
    <3>2. CASE f # Tables[rtlAt]
      BY <1>2, <2>2, <3>2, TableNames DEF FilesSound
    <3> QED
      BY <3>1, <3>2
  <2> QED
    BY <2>1, <2>2 DEF FilesSound
<1>6. Checked'
  <2>1. disk'["log"] = disk["log"]
    BY <1>2, TableNames
  <2>2. \A i \in 1..(rtlAt - 1) : disk'[Tables[i]] = Whole(Current)
    <3> SUFFICES ASSUME NEW i \in 1..(rtlAt - 1) PROVE disk'[Tables[i]] = Whole(Current)
      OBVIOUS
    <3>1. disk[Tables[i]] = Whole(Current)
      BY DEF Checked
    <3>2. Tables[i] # Tables[rtlAt] /\ Tables[i] \in File
      BY <1>1, TableNames
    <3> QED
      BY <1>2, <3>1, <3>2
  <2>3. ASSUME w PROVE \A i \in 1..rtlAt : disk'[Tables[i]] = Whole(Current)
    <3>1. w = TRUE
      BY <2>3
    <3>2. disk'[Tables[rtlAt]] = Whole(Current)
      BY <1>2, <3>1 DEF Whole
    <3>3. \A i \in 1..rtlAt : i = rtlAt \/ i \in 1..(rtlAt - 1)
      BY <1>1
    <3> HIDE DEF Current
    <3> QED
      BY <2>2, <3>2, <3>3
  <2>4. \A i \in 1..(rtlAt' - 1) : disk'[Tables[i]] = Whole(Current)
    BY <1>1, <2>2, <2>3
  <2> QED
    BY <2>1, <2>4 DEF Checked
<1>7. Hashing'
  BY DEF Hashing
<1>8. MetadataSound'
  <2>1. disk'["metadata"] = disk["metadata"]
    BY <1>2, TableNames
  <2> QED
    BY <2>1 DEF MetadataSound, Of
<1>9. ReadSound'
  BY DEF ReadSound, Shape, Records
<1> QED
  BY <1>4, <1>5, <1>6, <1>7, <1>8, <1>9

\* run_metadata.txt: with the versions only, then with the hashes.
LEMMA MetadataPreserves ==
    ASSUME RtlIInv, NEW h, disk' = [disk EXCEPT !["metadata"] = [run |-> Current, hashes |-> h]],
           UNCHANGED <<rtlAt, logs, loaded, build, align, read, alignment>>,
           \/ rtlPc = "open" /\ rtlAt > Written(Log) /\ rtlPc' = "refresh" /\ h = NoHashes
           \/ rtlPc = "replace" /\ h = hashed /\ rtlPc' = "idle"
    PROVE  RtlIInv'
<1> USE DEF RtlIInv, Current, Log, Run
<1>1. /\ disk'["metadata"] = [run |-> Current, hashes |-> h]
      /\ \A f \in File \ {"metadata"} : disk'[f] = disk[f]
      /\ DOMAIN disk' = File /\ Len(logs) \in Nat /\ Len(logs) # 0
  BY TableNames DEF RtlTypes
<1>2. disk'["log"] = disk["log"] /\ \A f \in ToSet(Tables) : disk'[f] = disk[f]
  BY <1>1, TableNames
<1>3. RtlTypes'
  BY <1>1 DEF RtlTypes
<1>4. FilesSound'
  BY <1>2 DEF FilesSound
<1>5. Checked'
  <2>1. \A i \in 1..(rtlAt - 1) : Tables[i] \in ToSet(Tables)
    BY TableNames DEF RtlTypes
  <2> QED
    BY <1>2, <2>1 DEF Checked
<1>6. Hashing'
  BY DEF Hashing
<1>7. MetadataSound'
  <2>1. disk'["metadata"].run = Current /\ disk'["metadata"].hashes = h
    BY <1>1
  <2>2. ASSUME h # NoHashes
        PROVE  /\ Accepted(Log) /\ DOMAIN h.files = Artifacts
               /\ \A f \in Of(Current) : h.files[f] = Whole(Current)
    <3>1. rtlPc = "replace" /\ h.files = [f \in Artifacts |-> disk[f]]
      BY <2>2 DEF Hashing
    <3>2. Accepted(Log) /\ rtlAt > Written(Log) /\ rtlAt \in 1..6 /\ disk["log"] = Whole(Current)
      BY <3>1, AcceptedLog DEF Checked, RtlTypes
    <3>3. \A i \in 1..(rtlAt - 1) : disk[Tables[i]] = Whole(Current)
      BY <3>1 DEF Checked
    <3>4. 2 \in 1..(rtlAt - 1) /\ 3 \in 1..(rtlAt - 1) /\ (Log.params # "none" => 5 \in 1..(rtlAt - 1))
      BY <3>2, WrittenTables
    <3>5. /\ disk["summary"] = Whole(Current) /\ disk["result_metadata"] = Whole(Current)
          /\ Log.params # "none" => disk["profile_summary"] = Whole(Current)
      BY <3>3, <3>4, TableNames
    <3> QED
      BY <3>1, <3>2, <3>5 DEF Of, Artifacts
  <2> QED
    BY <1>1, <2>1, <2>2 DEF MetadataSound, Of
<1>8. ReadSound'
  BY DEF ReadSound, Shape, Records
<1> QED
  BY <1>3, <1>4, <1>5, <1>6, <1>7, <1>8

LEMMA RefreshPreserves ==
    ASSUME RtlIInv, Refresh
    PROVE  RtlIInv'
<1> USE DEF RtlIInv, Current, Log
<1>1. UNCHANGED <<rtlAt, build, logs, loaded, disk, align, read, alignment>>
  BY DEF Refresh, consumer
<1>2. rtlPc' \in {"idle", "replace"} /\ rtlPc = "refresh"
  BY DEF Refresh
<1>3. RtlTypes'
  BY <1>1, <1>2 DEF RtlTypes
<1>4. Checked'
  BY <1>1, <1>2 DEF Checked
<1>5. Hashing'
  BY <1>1 DEF Refresh, Hashing
<1> QED
  BY <1>1, <1>3, <1>4, <1>5, QuietPreserves

\* run_alignment.py changes nothing that run_rtl.sh looks at.
LEMMA AlignmentPreserves ==
    ASSUME RtlIInv, ReadSummary \/ ReadProfile \/ WriteAlignment \/ AlignmentEnds
    PROVE  RtlIInv'
<1> USE DEF RtlIInv, Current, Log, Run, run
<1>1. UNCHANGED <<rtlPc, rtlAt, logs, loaded, build, disk, hashed>>
  BY DEF ReadSummary, ReadProfile, WriteAlignment, AlignmentEnds
<1>2. RtlTypes'
  BY <1>1 DEF ReadSummary, ReadProfile, WriteAlignment, AlignmentEnds, RtlTypes
<1>3. FilesSound' /\ Checked' /\ Hashing' /\ MetadataSound'
  BY <1>1 DEF FilesSound, Checked, Hashing, MetadataSound, Of
<1>4. ReadSound'
  <2>1. CASE ReadSummary
    <3>1. disk["summary"] # RtlAbsent /\ "summary" \in ToSet(Tables)
      BY <2>1, TableNames DEF ReadSummary, RtlAbsent
    <3>2. disk["summary"].run \in Run /\ Accepted(logs[disk["summary"].run])
      BY <3>1 DEF FilesSound
    <3>3. read'.summary = disk["summary"] /\ alignment' = alignment /\ Shape'
      BY <2>1 DEF ReadSummary, ReadSound, Shape
    <3> QED
      BY <1>1, <3>2, <3>3 DEF ReadSound, Records
  <2>2. CASE ReadProfile
    <3>1. read'.summary = read.summary /\ alignment' = alignment /\ align # "idle" /\ Shape'
      BY <2>2 DEF ReadProfile, ReadSound, Shape
    <3> QED
      BY <1>1, <3>1 DEF ReadSound, Records
  <2>3. CASE WriteAlignment
    BY <1>1, <2>3 DEF WriteAlignment, ReadSound, Shape, Records, NoAlignment
  <2>4. CASE AlignmentEnds
    BY <1>1, <2>4 DEF AlignmentEnds, ReadSound, Shape, Records
  <2> QED
    BY <2>1, <2>2, <2>3, <2>4
<1> QED
  BY <1>2, <1>3, <1>4

LEMMA RtlStepPreserves == RtlIInv /\ [RtlNext]_rtlVars => RtlIInv'
<1> SUFFICES ASSUME RtlIInv, [RtlNext]_rtlVars PROVE RtlIInv'
  OBVIOUS
<1>1. CASE \E l \in Logs : Start(l)
  BY <1>1, StartPreserves
<1>2. CASE Emulated
  BY <1>2, EmulatedPreserves
<1>3. CASE CheckLog \/ Parse \/ Crash \/ Rebuild
  BY <1>3, JudgePreserves
<1>4. CASE OpenTable
  BY <1>4, TablePreserves DEF OpenTable, Partial, consumer
<1>5. CASE WriteTable
  <2>1. rtlAt <= Written(Log)
    BY <1>5 DEF WriteTable, RtlIInv, Checked
  <2> QED
    BY <1>5, <2>1, TablePreserves DEF WriteTable, Whole, consumer
<1>6. CASE WriteVersions
  BY <1>6, MetadataPreserves DEF WriteVersions, consumer
<1>7. CASE Refresh
  BY <1>7, RefreshPreserves
<1>8. CASE Replace
  BY <1>8, MetadataPreserves DEF Replace, consumer
<1>9. CASE ReadSummary \/ ReadProfile \/ WriteAlignment \/ AlignmentEnds
  BY <1>9, AlignmentPreserves
<1>10. CASE SummaryRefused \/ UNCHANGED rtlVars
  <2>1. UNCHANGED <<rtlPc, rtlAt, build, logs, loaded, disk, hashed, align, read, alignment>>
    BY <1>10 DEF SummaryRefused, rtlVars, run, consumer
  <2>2. RtlTypes' /\ Checked' /\ Hashing'
    BY <2>1 DEF RtlIInv, RtlTypes, Checked, Hashing, Current, Log
  <2> QED
    BY <2>1, <2>2, QuietPreserves
<1> QED
  BY <1>1, <1>2, <1>3, <1>4, <1>5, <1>6, <1>7, <1>8, <1>9, <1>10 DEF RtlNext

LEMMA RtlInvariance == RtlSpec => []RtlIInv
BY RtlInitially, RtlStepPreserves, PTL DEF RtlSpec

-----------------------------------------------------------------------------
(***************************************************************************)
(* What the directory and the report claim.                                *)
(***************************************************************************)

\* For any number of runs, killed or refused anywhere: every table stems from an
\* accepted log, and when the hashes in run_metadata.txt are those of the files
\* (refresh_run_metadata.py), the files are whole and of one accepted run.
THEOREM DirectoryCertified == RtlSpec => []FilesCertified
<1>1. RtlIInv => FilesCertified
  <2> SUFFICES ASSUME RtlIInv PROVE FilesCertified
    OBVIOUS
  <2>1. RtlTypeOK
    <3>1. \A f \in File : disk[f].run \in 0..Current
      <4>1. \A f \in ToSet(Tables) : disk[f].run \in 0..Current
        BY DEF RtlIInv, FilesSound, RtlAbsent, Missing, Run, Current, RtlTypes
      <4> QED
        BY <4>1, TableNames DEF RtlIInv, FilesSound, MetadataSound
    <3> QED
      BY <3>1, TableNames DEF RtlIInv, RtlTypes, Checked, RtlTypeOK
  <2>2. HashesCertifyOneRun
    BY DEF RtlIInv, MetadataSound, Of, Artifacts, HashesCertifyOneRun
  <2>3. TablesFromAccepted
    BY DEF RtlIInv, FilesSound, TablesFromAccepted
  <2> QED
    BY <2>1, <2>2, <2>3 DEF FilesCertified
<1> QED
  BY <1>1, RtlInvariance, PTL

\* For any number of points and samples: alignment.json is about an accepted
\* run, and a point enters the fit exactly when it has clean samples, with the
\* median over those (parse_results.py, classify_cache).
THEOREM CleanFit == RtlSpec => []FitUsesCleanRuns
<1>1. RtlIInv => FitUsesCleanRuns
  <2> SUFFICES ASSUME RtlIInv, alignment # NoAlignment, NEW p \in Point
               PROVE  LET clean == logs[alignment.run].clean[p] IN
                      /\ Accepted(logs[alignment.run])
                      /\ alignment.records[p].fit <=> clean # {}
                      /\ alignment.records[p].fit => alignment.records[p].used = clean
    BY DEF FitUsesCleanRuns, RtlIInv, ReadSound
  <2> DEFINE l == logs[alignment.run]
  <2>1. l \in Logs /\ Accepted(l) /\ alignment.records = Records(alignment.run)
    BY DEF RtlIInv, RtlTypes, ReadSound, Run
  <2>2. l.clean[p] \subseteq RtlSample /\ IsFiniteSet(l.clean[p])
    BY <2>1, LogAssumption, SampleAssumption, FS_Subset DEF LogType
  <2>3. Cardinality(l.clean[p]) \in Nat /\ (Cardinality(l.clean[p]) > 0 <=> l.clean[p] # {})
    BY <2>2, FS_CardinalityType, FS_EmptySet
  <2>4. alignment.records[p] = [used |-> RtlRow(l, p).used, fit |-> Eligible(RtlRow(l, p))]
    BY <2>1 DEF Records
  <2> HIDE DEF l
  <2>5. Eligible(RtlRow(l, p)) <=> l.clean[p] # {}
    BY <2>3 DEF Eligible, RtlRow
  <2>6. l.clean[p] # {} => RtlRow(l, p).used = l.clean[p]
    BY DEF RtlRow
  <2> QED
    BY <2>1, <2>4, <2>5, <2>6 DEF l
<1> QED
  BY <1>1, RtlInvariance, PTL

-----------------------------------------------------------------------------
(***************************************************************************)
(* Theorems about RuntimeGate, for any memory, any limit on busy samples   *)
(* and any number of samples, scans and changes of the machine.            *)
(***************************************************************************)

\* A set of natural numbers has a least element: the intervals that end at its
\* members are well-founded.
LEMMA LeastNumber ==
    ASSUME NEW S, S \subseteq Nat, S # {}
    PROVE  \E x \in S : \A y \in S : x <= y
<1> DEFINE Upto(x) == 0..x
           T == {Upto(x) : x \in S}
<1>1. T \subseteq FiniteSubsetsOf(Nat)
  <2> SUFFICES ASSUME NEW x \in S PROVE Upto(x) \in FiniteSubsetsOf(Nat)
    OBVIOUS
  <2>1. IsFiniteSet(0..x)
    BY FS_Interval
  <2> QED
    BY <2>1 DEF FiniteSubsetsOf
<1>2. IsWellFoundedOn(StrictSubsetOrdering(Nat), FiniteSubsetsOf(Nat))
  BY FS_StrictSubsetOrderingWellFounded
<1>3. PICK X \in T : \A Y \in T : <<Y, X>> \notin StrictSubsetOrdering(Nat)
  <2>1. T # {}
    OBVIOUS
  <2> HIDE DEF T
  <2> QED
    BY <1>1, <1>2, <2>1, WFMin
<1>4. PICK x \in S : X = 0..x
  OBVIOUS
<1>5. ASSUME NEW y \in S, y < x PROVE FALSE
  <2>1. 0..y \in SUBSET Nat /\ 0..x \in SUBSET Nat
    OBVIOUS
  <2>2. 0..y \subseteq 0..x /\ x \in 0..x /\ x \notin 0..y
    BY <1>5
  <2>3. <<0..y, 0..x>> \in StrictSubsetOrdering(Nat)
    BY <2>1, <2>2 DEF StrictSubsetOrdering
  <2>4. 0..y \in T
    OBVIOUS
  <2> QED
    BY <1>3, <1>4, <2>3, <2>4
<1> QED
  BY <1>5

\* Min and Max of FiniteSetsExt on numbers are members that bound the others.
LEMMA MinIsLeast ==
    ASSUME NEW S, S \subseteq Nat, S # {}
    PROVE  Min(S) \in S /\ \A y \in S : Min(S) <= y
BY LeastNumber DEF Min

LEMMA MaxIsGreatest ==
    ASSUME NEW n \in Nat, NEW S, S \subseteq 0..n, S # {}
    PROVE  Max(S) \in S /\ \A y \in S : y <= Max(S)
<1> DEFINE T == {n - x : x \in S}
<1>1. T \subseteq Nat /\ T # {}
  <2>1. PICK x \in S : TRUE
    OBVIOUS
  <2>2. n - x \in T
    OBVIOUS
  <2>3. ASSUME NEW y \in S PROVE n - y \in Nat
    <3>1. y \in 0..n
      OBVIOUS
    <3> QED
      BY <3>1
  <2> QED
    BY <2>2, <2>3
<1>2. PICK t \in T : \A u \in T : t <= u
  <2> HIDE DEF T
  <2> QED
    BY <1>1, LeastNumber
<1>3. PICK x \in S : t = n - x
  OBVIOUS
<1>4. ASSUME NEW y \in S PROVE x >= y
  <2>1. n - y \in T
    OBVIOUS
  <2>2. n - x <= n - y
    BY <1>2, <1>3, <2>1
  <2>3. x \in 0..n /\ y \in 0..n
    OBVIOUS
  <2> QED
    BY <2>2, <2>3
<1>5. \E z \in S : \A y \in S : z >= y
  BY <1>4
<1>6. Max(S) \in S /\ \A y \in S : Max(S) >= y
  BY <1>5 DEF Max
<1>7. \A y \in 0..n : y \in Nat
  OBVIOUS
<1> HIDE DEF T
<1> QED
  BY <1>6, <1>7

-----------------------------------------------------------------------------
(***************************************************************************)
(* The summaries of the samples, in terms of single samples.               *)
(***************************************************************************)
Measurement ==
    [procs : BOOLEAN, busy : BOOLEAN, rival : BOOLEAN, swapout : Nat, psi : Nat,
     avail : MemLevels]

LEMMA MemoryNumbers ==
    /\ MemTotal \in Nat /\ MemLevels \subseteq Nat /\ HighSamples \in Nat \ {0}
    /\ Max(MemLevels) \in MemLevels
<1>1. /\ MemTotal \in Nat /\ MemLevels \subseteq 0..MemTotal /\ MemLevels # {}
      /\ HighSamples \in Nat \ {0}
  BY GateAssumption
<1>2. Max(MemLevels) \in MemLevels
  BY <1>1, MaxIsGreatest
<1> QED
  BY <1>1, <1>2

LEMMA LowestIsSampled ==
    ASSUME NEW r \in Seq(Measurement), r # <<>>
    PROVE  /\ TooLittle(r) <=> \E i \in DOMAIN r : 10 * r[i].avail < MemTotal
           /\ Dropped(r) <=> \E i \in DOMAIN r : 20 * (r[1].avail - r[i].avail) > MemTotal
<1> DEFINE S == {r[i].avail : i \in DOMAIN r}
<1>1. 1 \in DOMAIN r /\ DOMAIN r = 1..Len(r)
  OBVIOUS
<1>2. \A i \in DOMAIN r : r[i].avail \in Nat /\ r[i].avail \in S
  <2> SUFFICES ASSUME NEW i \in DOMAIN r PROVE r[i].avail \in Nat /\ r[i].avail \in S
    OBVIOUS
  <2>1. r[i] \in Measurement
    OBVIOUS
  <2>2. r[i].avail \in MemLevels
    BY <2>1 DEF Measurement
  <2> QED
    BY <2>2, MemoryNumbers
<1>3. S \subseteq Nat /\ S # {}
  BY <1>1, <1>2
<1>4. Min(S) \in S /\ \A y \in S : Min(S) <= y
  <2> HIDE DEF S
  <2> QED
    BY <1>3, MinIsLeast
<1>5. PICK m \in DOMAIN r : Min(S) = r[m].avail
  BY <1>4
<1>6. LowestAvailable(r) = r[m].avail
  BY <1>5 DEF LowestAvailable
<1>7. \A i \in DOMAIN r : r[m].avail <= r[i].avail
  BY <1>2, <1>4, <1>5
<1> HIDE DEF S
<1>8. TooLittle(r) <=> \E i \in DOMAIN r : 10 * r[i].avail < MemTotal
  BY <1>2, <1>6, <1>7, MemoryNumbers DEF TooLittle
<1>9. Dropped(r) <=> \E i \in DOMAIN r : 20 * (r[1].avail - r[i].avail) > MemTotal
  BY <1>1, <1>2, <1>6, <1>7, MemoryNumbers DEF Dropped
<1> QED
  BY <1>8, <1>9

\* The length of the stretch of busy samples that ends at i.
LastIdle(r, i) == Max({j \in 0..i : j = 0 \/ ~r[j].busy})
Stretch(r) == [i \in 0..Len(r) |-> i - LastIdle(r, i)]
Counting(r) ==
    CHOOSE streak : streak = [i \in 0..Len(r) |-> IF i = 0 \/ ~r[i].busy THEN 0 ELSE streak[i - 1] + 1]
LEMMA LongestIsCounted ==
    ASSUME NEW r
    PROVE  LongestHighCpuRun(r) = Max({Counting(r)[i] : i \in 0..Len(r)})
BY DEF LongestHighCpuRun, Counting

LEMMA LastIdleIs ==
    ASSUME NEW r, NEW i \in Nat
    PROVE  /\ LastIdle(r, i) \in 0..i
           /\ LastIdle(r, i) = 0 \/ ~r[LastIdle(r, i)].busy
           /\ \A j \in 1..i : ~r[j].busy => j <= LastIdle(r, i)
           /\ \A j \in 0..i : LastIdle(r, i) < j => r[j].busy
<1> DEFINE S == {j \in 0..i : j = 0 \/ ~r[j].busy}
<1>1. 0 \in S /\ S \subseteq 0..i /\ S # {}
  OBVIOUS
<1>2. Max(S) \in S /\ \A y \in S : y <= Max(S)
  <2> HIDE DEF S
  <2> QED
    BY <1>1, MaxIsGreatest
<1>3. LastIdle(r, i) = Max(S)
  BY DEF LastIdle
<1>4. Max(S) \in 0..i /\ (Max(S) = 0 \/ ~r[Max(S)].busy)
  BY <1>2
<1>5. \A j \in 0..i : j = 0 \/ ~r[j].busy => j <= Max(S)
  BY <1>2
<1> HIDE DEF S
<1>6. \A j \in 0..i : Max(S) < j => r[j].busy
  BY <1>4, <1>5
<1> QED
  BY <1>3, <1>4, <1>5, <1>6

\* The function that counts the stretches exists, and is the one meant.
LEMMA CountingIsStretch ==
    ASSUME NEW r \in Seq(Measurement)
    PROVE  Counting(r) = Stretch(r)
<1> DEFINE n == Len(r)
           Step(f, i) == IF i = 0 \/ ~r[i].busy THEN 0 ELSE f[i - 1] + 1
           Counts(f) == f = [i \in 0..n |-> Step(f, i)]
<1>1. n \in Nat
  OBVIOUS
<1>2. \A i \in 0..n : Stretch(r)[i] = i - LastIdle(r, i)
  BY DEF Stretch
<1>3. ASSUME NEW i \in 0..n, i = 0 \/ ~r[i].busy PROVE LastIdle(r, i) = i
  <2>1. LastIdle(r, i) \in 0..i /\ (i # 0 => i <= LastIdle(r, i))
    BY <1>1, <1>3, LastIdleIs
  <2> QED
    BY <1>1, <2>1
<1>4. ASSUME NEW i \in 1..n, r[i].busy PROVE LastIdle(r, i) = LastIdle(r, i - 1)
  <2>1. i \in Nat /\ i - 1 \in Nat
    BY <1>1
  <2> DEFINE a == LastIdle(r, i)
             b == LastIdle(r, i - 1)
  <2>2. a \in 0..i /\ b \in 0..(i - 1) /\ (a = 0 \/ ~r[a].busy) /\ (b = 0 \/ ~r[b].busy)
    BY <2>1, LastIdleIs
  <2>3. a # i
    BY <1>4, <2>1, <2>2
  <2>4. a = 0 \/ a <= b
    <3>1. \A j \in 1..(i - 1) : ~r[j].busy => j <= b
      BY <2>1, LastIdleIs
    <3> HIDE DEF a, b
    <3> QED
      BY <2>1, <2>2, <2>3, <3>1
  <2>5. b = 0 \/ b <= a
    <3>1. \A j \in 1..i : ~r[j].busy => j <= a
      BY <2>1, LastIdleIs
    <3> HIDE DEF a, b
    <3> QED
      BY <2>1, <2>2, <3>1
  <2> HIDE DEF a, b
  <2>6. a = b
    BY <2>1, <2>2, <2>4, <2>5
  <2> QED
    BY <2>6 DEF a, b
<1>5. Counts(Stretch(r))
  <2>1. ASSUME NEW i \in 0..n PROVE Stretch(r)[i] = Step(Stretch(r), i)
    <3>1. CASE i = 0 \/ ~r[i].busy
      BY <1>1, <1>2, <1>3, <3>1
    <3>2. CASE i # 0 /\ r[i].busy
      <4>1. i \in 1..n /\ i - 1 \in 0..n
        BY <1>1, <3>2
      <4>2. LastIdle(r, i) = LastIdle(r, i - 1)
        BY <1>4, <3>2, <4>1
      <4>3. LastIdle(r, i) \in Nat
        BY <1>1, LastIdleIs
      <4>4. Stretch(r)[i - 1] = (i - 1) - LastIdle(r, i)
        BY <1>2, <4>1, <4>2
      <4> QED
        BY <1>2, <3>2, <4>1, <4>3, <4>4
    <3> QED
      BY <3>1, <3>2
  <2>2. Stretch(r) = [i \in 0..n |-> Stretch(r)[i]]
    BY DEF Stretch
  <2> HIDE DEF Step
  <2> QED
    BY <2>1, <2>2
<1>6. Counts(Counting(r))
  BY <1>5 DEF Counting
<1>7. \A i \in 0..n : Counting(r)[i] = Step(Counting(r), i)
  BY <1>6
<1>8. \A i \in 0..n : Stretch(r)[i] = Step(Stretch(r), i)
  BY <1>5
<1>9. \A i \in 0..n : Counting(r)[i] = Stretch(r)[i]
  <2> DEFINE S == {i \in 0..n : Counting(r)[i] # Stretch(r)[i]}
  <2>1. SUFFICES ASSUME S # {} PROVE FALSE
    OBVIOUS
  <2>2. S \subseteq Nat
    BY <1>1
  <2>3. PICK m \in S : \A y \in S : m <= y
    <3> HIDE DEF S
    <3> QED
      BY <2>1, <2>2, LeastNumber
  <2>4. m \in 0..n /\ m \in Nat /\ Counting(r)[m] # Stretch(r)[m] /\ m - 1 \notin S
    BY <1>1, <2>3
  <2>5. m # 0
    BY <1>7, <1>8, <2>4
  <2>6. m - 1 \in 0..n /\ Counting(r)[m - 1] = Stretch(r)[m - 1]
    BY <1>1, <2>4, <2>5
  <2> QED
    BY <1>7, <1>8, <2>4, <2>6
<1> QED
  BY <1>6, <1>9 DEF Stretch

\* So many consecutive samples were busy.
Window(r) ==
    \E i \in 1..Len(r) : /\ i + HighSamples - 1 <= Len(r)
                         /\ \A j \in i..(i + HighSamples - 1) : r[j].busy

LEMMA LongestIsWindow ==
    ASSUME NEW r \in Seq(Measurement)
    PROVE  /\ LongestHighCpuRun(r) \in Nat
           /\ LongestHighCpuRun(r) >= HighSamples <=> Window(r)
<1> DEFINE n == Len(r)
           S == {Stretch(r)[i] : i \in 0..n}
<1>1. n \in Nat /\ HighSamples \in Nat /\ HighSamples > 0
  BY MemoryNumbers
<1>2. \A i \in 0..n : Stretch(r)[i] = i - LastIdle(r, i) /\ LastIdle(r, i) \in 0..i
  BY <1>1, LastIdleIs DEF Stretch
<1>3. S \subseteq 0..n /\ S # {}
  <2>1. ASSUME NEW i \in 0..n PROVE Stretch(r)[i] \in 0..n
    BY <1>1, <1>2
  <2>2. Stretch(r)[0] \in S
    BY <1>1
  <2> QED
    BY <2>1, <2>2
<1>4. LongestHighCpuRun(r) = Max(S)
  BY LongestIsCounted, CountingIsStretch
<1>5. Max(S) \in S /\ \A y \in S : y <= Max(S)
  <2> HIDE DEF S
  <2> QED
    BY <1>1, <1>3, MaxIsGreatest
<1>6. Max(S) \in Nat
  BY <1>1, <1>3, <1>5
<1>7. ASSUME Max(S) >= HighSamples PROVE Window(r)
  <2>1. PICK m \in 0..n : Max(S) = Stretch(r)[m]
    BY <1>5
  <2>2. m \in Nat /\ LastIdle(r, m) \in 0..m /\ m - LastIdle(r, m) >= HighSamples
    BY <1>1, <1>2, <1>7, <2>1
  <2>3. \A j \in 0..m : LastIdle(r, m) < j => r[j].busy
    BY <2>2, LastIdleIs
  <2> DEFINE i == m - HighSamples + 1
  <2>4. i \in 1..n /\ i + HighSamples - 1 <= n
    BY <1>1, <2>2
  <2>5. \A j \in i..(i + HighSamples - 1) : j \in 0..m /\ LastIdle(r, m) < j
    BY <1>1, <2>2
  <2> HIDE DEF i
  <2> QED
    BY <2>3, <2>4, <2>5 DEF Window
<1>8. ASSUME Window(r) PROVE Max(S) >= HighSamples
  <2>1. PICK i \in 1..n : /\ i + HighSamples - 1 <= n
                         /\ \A j \in i..(i + HighSamples - 1) : r[j].busy
    BY <1>8 DEF Window
  <2> DEFINE m == i + HighSamples - 1
             q == LastIdle(r, m)
  <2>2. m \in 0..n /\ m \in Nat
    BY <1>1, <2>1
  <2>3. q \in 0..m /\ (q = 0 \/ ~r[q].busy)
    BY <2>2, LastIdleIs
  <2>4. q < i
    <3> HIDE DEF q
    <3> QED
      BY <1>1, <2>1, <2>3
  <2>5. Stretch(r)[m] = m - q /\ Stretch(r)[m] \in S
    BY <1>2, <2>2
  <2>6. m - q <= Max(S)
    BY <1>5, <2>5
  <2> HIDE DEF q, S
  <2> QED
    BY <1>1, <1>6, <2>2, <2>3, <2>4, <2>6
<1> QED
  BY <1>4, <1>6, <1>7, <1>8

-----------------------------------------------------------------------------
(***************************************************************************)
(* A run of samples breaks a rule once and for all: more samples, and more *)
(* scans, never mend it.                                                   *)
(***************************************************************************)
Breaks(r, i) ==
    \/ r[i].procs \/ r[i].swapout # r[1].swapout \/ r[i].psi # r[1].psi
    \/ 10 * r[i].avail < MemTotal \/ 20 * (r[1].avail - r[i].avail) > MemTotal
Dirty(r) == (\E i \in DOMAIN r : Breaks(r, i)) \/ Window(r)

\* The counters of /proc never go back.
Growing ==
    /\ \A i, j \in DOMAIN rows :
          i <= j => rows[i].swapout <= rows[j].swapout /\ rows[i].psi <= rows[j].psi
    /\ \A i \in DOMAIN rows : rows[i].swapout <= machine.swapout /\ rows[i].psi <= machine.psi

Shapes ==
    /\ gatePc \in {"warm", "refused", "sample", "kill", "wait", "last", "join", "evaluate",
               "passed", "failed"}
    /\ bench \in {"none", "unforked", "running", "exited"}
    /\ timer \in {"none", "running", "exited"} /\ exitCode \in {0, 1}
    /\ monitor \in {"none", "check", "scan", "sleep", "dead", "ended"}
    /\ scans \in Nat /\ rivals \in BOOLEAN /\ stop \in BOOLEAN
    /\ machine \in Measurement /\ rows \in Seq(Measurement)

\* main(), the child and the thread go together.
Together ==
    /\ gatePc \in {"warm", "refused"} => bench = "none" /\ monitor = "none" /\ rows = <<>>
    /\ gatePc \in {"last", "join", "evaluate", "passed", "failed"} => timer = "exited"
    /\ gatePc \in {"evaluate", "passed", "failed"} => monitor \in {"ended", "dead"}
    /\ timer = "exited" => bench = "exited"
Bounds ==
    /\ gatePc = "sample" => Len(rows) < MaxSamples
    /\ gatePc \in {"kill", "wait", "last"} => Len(rows) \in 1..MaxSamples
    /\ gatePc \in {"join", "evaluate", "passed", "failed"} => Len(rows) \in 2..(MaxSamples + 1)
    /\ scans <= MaxScans + 1
    /\ monitor = "none" => scans = 0
    /\ monitor = "scan" \/ (monitor = "check" /\ ~stop) => scans <= MaxScans

\* What a stop and a pass are founded on.
Founded ==
    /\ signalled # {} \/ gatePc = "kill" => rows # <<>> /\ (Dirty(rows) \/ rivals)
    /\ reason = "nonidle" => Window(rows)
    /\ gatePc = "passed" => Checks

GInv == Shapes /\ Growing /\ Together /\ Bounds /\ Founded

LEMMA MeasurementFields ==
    ASSUME NEW r \in Seq(Measurement)
    PROVE  \A i \in DOMAIN r :
              /\ r[i].procs \in BOOLEAN /\ r[i].busy \in BOOLEAN
              /\ r[i].swapout \in Nat /\ r[i].psi \in Nat /\ r[i].avail \in Nat
<1> SUFFICES ASSUME NEW i \in DOMAIN r
             PROVE  /\ r[i].procs \in BOOLEAN /\ r[i].busy \in BOOLEAN
                    /\ r[i].swapout \in Nat /\ r[i].psi \in Nat /\ r[i].avail \in Nat
  OBVIOUS
<1>1. r[i] \in Measurement
  OBVIOUS
<1> QED
  BY <1>1, MemoryNumbers DEF Measurement

\* immediate_violation reports nothing but what breaks a rule ...
LEMMA ViolationBreaks ==
    ASSUME NEW r \in Seq(Measurement), r # <<>>, NEW rival \in BOOLEAN
    PROVE  /\ ImmediateViolation(r, rival) # GateNone => Dirty(r) \/ rival
           /\ ImmediateViolation(r, rival) = "nonidle" => Window(r)
<1>1. Len(r) \in DOMAIN r
  OBVIOUS
<1> DEFINE current == r[Len(r)]
<1>2. current.procs \/ current.swapout # r[1].swapout \/ current.psi # r[1].psi
      => Dirty(r)
  BY <1>1 DEF Dirty, Breaks
<1>3. TooLittle(r) \/ Dropped(r) => Dirty(r)
  BY LowestIsSampled DEF Dirty, Breaks
<1>4. LongestHighCpuRun(r) >= HighSamples => Window(r)
  BY LongestIsWindow
<1> HIDE DEF current
<1>5. Window(r) => Dirty(r)
  BY DEF Dirty
<1>6. ASSUME ImmediateViolation(r, rival) # GateNone PROVE Dirty(r) \/ rival
  BY <1>2, <1>3, <1>4, <1>5, <1>6 DEF ImmediateViolation, current
<1>7. ASSUME ImmediateViolation(r, rival) = "nonidle" PROVE Window(r)
  BY <1>4, <1>7 DEF ImmediateViolation, GateNone
<1> QED
  BY <1>6, <1>7

\* ... what breaks a rule stays in every longer run of samples ...
LEMMA DirtyStays ==
    ASSUME NEW q \in Seq(Measurement), NEW r \in Seq(Measurement), q # <<>>,
           Len(q) <= Len(r), \A i \in DOMAIN q : q[i] = r[i]
    PROVE  /\ Window(q) => Window(r)
           /\ Dirty(q) => Dirty(r)
<1>1. DOMAIN q = 1..Len(q) /\ DOMAIN r = 1..Len(r) /\ Len(q) \in Nat /\ Len(r) \in Nat
  OBVIOUS
<1>2. 1 \in DOMAIN q /\ q[1] = r[1] /\ DOMAIN q \subseteq DOMAIN r
  BY <1>1
<1>3. \A i \in DOMAIN q : Breaks(q, i) => Breaks(r, i)
  BY <1>2 DEF Breaks
<1>4. ASSUME Window(q) PROVE Window(r)
  <2>1. PICK i \in 1..Len(q) : /\ i + HighSamples - 1 <= Len(q)
                              /\ \A j \in i..(i + HighSamples - 1) : q[j].busy
    BY <1>4 DEF Window
  <2>2. \A j \in i..(i + HighSamples - 1) : j \in DOMAIN q
    BY <1>1, <2>1, MemoryNumbers
  <2>3. i \in 1..Len(r) /\ i + HighSamples - 1 <= Len(r)
    BY <1>1, <2>1, MemoryNumbers
  <2> QED
    BY <2>1, <2>2, <2>3 DEF Window
<1> QED
  BY <1>2, <1>3, <1>4 DEF Dirty

\* ... and fails a check of evaluate().
LEMMA ChecksAreClean ==
    ASSUME rows \in Seq(Measurement), rows # <<>>, Growing, Checks
    PROVE  ~Dirty(rows) /\ ~rivals
<1>1. 1 \in DOMAIN rows /\ Len(rows) \in DOMAIN rows /\ DOMAIN rows = 1..Len(rows)
  OBVIOUS
<1>2. ASSUME NEW i \in DOMAIN rows PROVE ~Breaks(rows, i)
  <2>1. i \in Nat /\ 1 <= i /\ i <= Len(rows)
    BY <1>1
  <2>2. rows[i].swapout = rows[1].swapout /\ rows[i].psi = rows[1].psi
    <3>1. /\ rows[1].swapout <= rows[i].swapout /\ rows[i].swapout <= rows[Len(rows)].swapout
          /\ rows[1].psi <= rows[i].psi /\ rows[i].psi <= rows[Len(rows)].psi
      BY <1>1, <2>1 DEF Growing
    <3>2. rows[Len(rows)].swapout = rows[1].swapout /\ rows[Len(rows)].psi = rows[1].psi
      BY DEF Checks
    <3> QED
      BY <1>1, <3>1, <3>2, MeasurementFields
  <2>3. ~rows[i].procs /\ ~TooLittle(rows) /\ ~Dropped(rows)
    BY DEF Checks
  <2> QED
    BY <2>2, <2>3, LowestIsSampled DEF Breaks
<1>3. ~Window(rows)
  <2>1. LongestHighCpuRun(rows) < HighSamples
    BY DEF Checks
  <2> QED
    BY <2>1, LongestIsWindow, MemoryNumbers
<1> QED
  BY <1>2, <1>3 DEF Dirty, Checks

\* Another sample.
LEMMA SampleGrows ==
    ASSUME GInv, rows' = Append(rows, GateRow), UNCHANGED machine
    PROVE  /\ rows' \in Seq(Measurement) /\ rows' # <<>> /\ Len(rows') = Len(rows) + 1
           /\ Growing'
           /\ Window(rows) => Window(rows')
           /\ rows # <<>> /\ Dirty(rows) => Dirty(rows')
<1>1. rows \in Seq(Measurement) /\ machine \in Measurement
  BY DEF GInv, Shapes
<1>2. /\ GateRow \in Measurement /\ GateRow.swapout = machine.swapout /\ GateRow.psi = machine.psi
      /\ machine.swapout \in Nat /\ machine.psi \in Nat
  <2>1. NonIdle \in BOOLEAN
    BY DEF NonIdle
  <2> QED
    BY <1>1, <2>1 DEF GateRow, Measurement
<1> HIDE DEF GateRow
<1>3. /\ rows' \in Seq(Measurement) /\ Len(rows') = Len(rows) + 1 /\ Len(rows) \in Nat
      /\ \A i \in 1..Len(rows) : rows'[i] = rows[i]
      /\ rows'[Len(rows) + 1] = GateRow
      /\ DOMAIN rows = 1..Len(rows) /\ DOMAIN rows' = 1..(Len(rows) + 1) /\ rows' # <<>>
  BY <1>1, <1>2
<1>4. Growing'
  <2>1. ASSUME NEW i \in DOMAIN rows'
        PROVE  rows'[i].swapout <= machine.swapout /\ rows'[i].psi <= machine.psi
    <3>1. CASE i = Len(rows) + 1
      BY <1>2, <1>3, <3>1
    <3>2. CASE i \in DOMAIN rows
      BY <1>3, <3>2 DEF GInv, Growing
    <3> QED
      BY <1>3, <3>1, <3>2
  <2>2. ASSUME NEW i \in DOMAIN rows', NEW j \in DOMAIN rows', i <= j
        PROVE  rows'[i].swapout <= rows'[j].swapout /\ rows'[i].psi <= rows'[j].psi
    <3>1. CASE j = Len(rows) + 1
      BY <1>2, <1>3, <2>1, <3>1
    <3>2. CASE i \in DOMAIN rows /\ j \in DOMAIN rows
      BY <1>3, <2>2, <3>2 DEF GInv, Growing
    <3> QED
      BY <1>3, <2>2, <3>1, <3>2
  <2> QED
    BY <2>1, <2>2 DEF Growing
<1>5. ASSUME rows # <<>>
      PROVE  (Window(rows) => Window(rows')) /\ (Dirty(rows) => Dirty(rows'))
  <2>1. Len(rows) <= Len(rows') /\ \A i \in DOMAIN rows : rows[i] = rows'[i]
    BY <1>3
  <2> QED
    BY <1>1, <1>3, <1>5, <2>1, DirtyStays
<1>6. ASSUME rows = <<>> PROVE ~Window(rows)
  BY <1>6 DEF Window
<1> QED
  BY <1>3, <1>4, <1>5, <1>6

-----------------------------------------------------------------------------
LEMMA GateInitially == GateInit => GInv
<1> SUFFICES ASSUME GateInit PROVE GInv
  OBVIOUS
<1>1. Shapes
  <2>1. Quiet \in Measurement
    BY MemoryNumbers DEF Quiet, Measurement
  <2>2. rows \in Seq(Measurement)
    BY DEF GateInit
  <2> QED
    BY <2>1, <2>2 DEF GateInit, Shapes
<1>2. Growing /\ Together
  BY DEF GateInit, Growing, Together
<1>3. Bounds
  BY GateAssumption DEF GateInit, Bounds
<1>4. Founded
  BY DEF GateInit, Founded, GateNone
<1> QED
  BY <1>1, <1>2, <1>3, <1>4 DEF GInv

\* The steps of main() that take no sample.
LEMMA MainPreserves ==
    ASSUME GInv,
           \/ Refuse \/ Launch \/ Kill \/ TimedOut \/ Ended \/ Join
           \/ \E rates \in BOOLEAN : Evaluate(rates)
    PROVE  GInv'
<1> USE DEF GInv
<1>1. UNCHANGED <<machine, rows, scans, rivals, stop, reason>>
  BY DEF Refuse, Launch, Kill, TimedOut, Ended, Join, Evaluate, machineVars, thread, verdict
<1>2. Growing'
  BY <1>1 DEF Growing
<1>3. CASE Refuse
  BY <1>1, <1>2, <1>3 DEF Refuse, Shapes, Together, Bounds, Founded, child, thread, verdict
<1>4. CASE Launch
  BY <1>1, <1>2, <1>4, GateAssumption DEF Launch, Shapes, Together, Bounds, Founded, verdict
<1>5. CASE Kill
  <2>1. Shapes' /\ Together' /\ Bounds'
    BY <1>1, <1>5 DEF Kill, Shapes, Together, Bounds, thread
  <2>2. Founded'
    BY <1>1, <1>5 DEF Kill, Founded
  <2> QED
    BY <1>2, <2>1, <2>2
<1>6. CASE TimedOut
  BY <1>1, <1>2, <1>6 DEF TimedOut, Shapes, Together, Bounds, Founded, child, thread, verdict
<1>7. CASE Ended
  BY <1>1, <1>2, <1>7 DEF Ended, Shapes, Together, Bounds, Founded, child, thread, verdict
<1>8. CASE Join
  BY <1>1, <1>2, <1>8 DEF Join, Shapes, Together, Bounds, Founded, child, thread, verdict
<1>9. ASSUME NEW rates \in BOOLEAN, Evaluate(rates) PROVE GInv'
  <2>1. Checks' = Checks
    BY <1>1, <1>9 DEF Evaluate, Checks, child
  <2> QED
    BY <1>1, <1>2, <1>9, <2>1
       DEF Evaluate, Shapes, Together, Bounds, Founded, child, thread, verdict
<1> QED
  BY <1>3, <1>4, <1>5, <1>6, <1>7, <1>8, <1>9

\* A sample, judged or the last.
LEMMA SamplePreserves ==
    ASSUME GInv, GateSample \/ LastSample
    PROVE  GInv'
<1> USE DEF GInv
<1>1. /\ rows' = Append(rows, GateRow) /\ UNCHANGED <<machine, bench, timer, exitCode>>
      /\ UNCHANGED <<scans, rivals, monitor, signalled>>
  BY DEF GateSample, LastSample, machineVars, child, thread, verdict
<1>2. /\ rows' \in Seq(Measurement) /\ rows' # <<>> /\ Len(rows') = Len(rows) + 1
      /\ Growing' /\ (Window(rows) => Window(rows'))
      /\ rows # <<>> /\ Dirty(rows) => Dirty(rows')
  BY <1>1, SampleGrows
<1>3. Len(rows) \in Nat
  BY DEF Shapes
<1>4. CASE GateSample
  <2>1. gatePc = "sample" /\ gatePc' \in {"wait", "kill"} /\ stop' = stop
    BY <1>4 DEF GateSample
  <2>2. Shapes' /\ Together' /\ Bounds'
    BY <1>1, <1>2, <1>3, <2>1, GateAssumption DEF Shapes, Together, Bounds
  <2>3. reason' = ImmediateViolation(rows', rivals) /\ (gatePc' = "kill" => reason' # GateNone)
    BY <1>4 DEF GateSample
  <2>4. /\ ImmediateViolation(rows', rivals) # GateNone => Dirty(rows') \/ rivals
        /\ ImmediateViolation(rows', rivals) = "nonidle" => Window(rows')
    <3>1. rivals \in BOOLEAN
      BY DEF Shapes
    <3> QED
      BY <1>2, <3>1, ViolationBreaks
  <2>5. Founded'
    BY <1>1, <1>2, <2>1, <2>3, <2>4 DEF Founded
  <2> QED
    BY <1>2, <2>2, <2>5
<1>5. CASE LastSample
  <2>1. gatePc = "last" /\ gatePc' = "join" /\ stop' = TRUE /\ reason' = reason
    BY <1>5 DEF LastSample, verdict
  <2>2. Shapes' /\ Together' /\ Bounds'
    BY <1>1, <1>2, <1>3, <2>1, GateAssumption DEF Shapes, Together, Bounds
  <2>3. Founded'
    BY <1>1, <1>2, <2>1 DEF Founded
  <2> QED
    BY <1>2, <2>2, <2>3
<1> QED
  BY <1>4, <1>5

\* The competitor thread: what it finds only adds to what breaks a rule.
LEMMA MonitorPreserves ==
    ASSUME GInv, Monitor \/ ScanFails
    PROVE  GInv'
<1> USE DEF GInv
<1>1. UNCHANGED <<gatePc, machine, bench, timer, exitCode, rows, stop, reason, signalled>>
  BY DEF Monitor, MonitorChecks, Scan, ScanFails, MonitorWakes, machineVars, child, verdict
<1>2. gatePc \notin {"evaluate", "passed", "failed", "warm", "refused"}
  BY DEF Monitor, MonitorChecks, Scan, ScanFails, MonitorWakes, Together, Shapes
<1>3. (rivals => rivals') /\ rivals' \in BOOLEAN
  <2>1. machine.rival \in BOOLEAN /\ rivals \in BOOLEAN
    BY DEF Shapes, Measurement
  <2> QED
    BY <2>1 DEF Monitor, MonitorChecks, Scan, ScanFails, MonitorWakes
<1>4. scans' \in Nat
  BY DEF Monitor, MonitorChecks, Scan, ScanFails, MonitorWakes, Shapes
<1>5. monitor' \in {"check", "scan", "sleep", "dead", "ended"}
  BY DEF Monitor, MonitorChecks, Scan, ScanFails, MonitorWakes
<1>6. Shapes' /\ Growing' /\ Together'
  BY <1>1, <1>2, <1>3, <1>4, <1>5 DEF Shapes, Growing, Together
<1>7. Bounds'
  BY <1>1, <1>5, GateAssumption
     DEF Monitor, MonitorChecks, Scan, ScanFails, MonitorWakes, Bounds, Shapes
<1>8. Founded'
  BY <1>1, <1>2, <1>3 DEF Founded
<1> QED
  BY <1>6, <1>7, <1>8

LEMMA ChildPreserves ==
    ASSUME GInv, Child
    PROVE  GInv'
<1> USE DEF GInv
<1>1. /\ UNCHANGED <<gatePc, machine, rows, scans, rivals, monitor, stop, reason, signalled>>
      /\ timer # "exited"
  BY DEF Child, Fork, BenchExits, TimerExits, machineVars, thread, verdict, Together
<1>2. gatePc \notin {"last", "join", "evaluate", "passed", "failed"}
  BY <1>1 DEF Together
<1>3. Shapes' /\ Together'
  BY <1>1, <1>2 DEF Child, Fork, BenchExits, TimerExits, Shapes, Together
<1>4. Growing' /\ Bounds' /\ Founded'
  BY <1>1, <1>2 DEF Growing, Bounds, Founded
<1> QED
  BY <1>3, <1>4

LEMMA ChangePreserves ==
    ASSUME GInv, Change
    PROVE  GInv'
<1> USE DEF GInv
<1>1. UNCHANGED <<gatePc, bench, timer, exitCode, rows, scans, rivals, monitor, stop, reason,
                  signalled>> /\ gatePc # "passed"
  BY DEF Change, child, thread, verdict, Running
<1>2. /\ machine \in Measurement /\ machine.procs \in BOOLEAN /\ machine.busy \in BOOLEAN
      /\ machine.rival \in BOOLEAN /\ machine.swapout \in Nat /\ machine.psi \in Nat
  BY DEF Shapes, Measurement
<1>3. /\ machine' \in Measurement
      /\ machine.swapout <= machine'.swapout /\ machine.psi <= machine'.psi
  <2>1. CASE machine' = [machine EXCEPT !.procs = ~@]
    <3>1. PICK b \in BOOLEAN : machine' = [machine EXCEPT !.procs = b]
      <4>1. (~machine.procs) \in BOOLEAN
        OBVIOUS
      <4> QED
        BY <2>1, <4>1, Zenon
    <3> QED
      BY <1>2, <3>1 DEF Measurement
  <2>2. CASE machine' = [machine EXCEPT !.busy = ~@]
    <3>1. PICK b \in BOOLEAN : machine' = [machine EXCEPT !.busy = b]
      <4>1. (~machine.busy) \in BOOLEAN
        OBVIOUS
      <4> QED
        BY <2>2, <4>1, Zenon
    <3> QED
      BY <1>2, <3>1 DEF Measurement
  <2>3. CASE machine' = [machine EXCEPT !.rival = ~@]
    <3>1. PICK b \in BOOLEAN : machine' = [machine EXCEPT !.rival = b]
      <4>1. (~machine.rival) \in BOOLEAN
        OBVIOUS
      <4> QED
        BY <2>3, <4>1, Zenon
    <3> QED
      BY <1>2, <3>1 DEF Measurement
  <2>4. CASE machine' = [machine EXCEPT !.swapout = @ + 1]
    BY <1>2, <2>4 DEF Measurement
  <2>5. CASE machine' = [machine EXCEPT !.psi = @ + 1]
    BY <1>2, <2>5 DEF Measurement
  <2>6. CASE \E level \in MemLevels \ {machine.avail} : machine' = [machine EXCEPT !.avail = level]
    BY <1>2, <2>6 DEF Measurement
  <2> QED
    BY <2>1, <2>2, <2>3, <2>4, <2>5, <2>6 DEF Change
<1>4. Growing'
  <2>1. ASSUME NEW i \in DOMAIN rows
        PROVE  rows[i].swapout <= machine'.swapout /\ rows[i].psi <= machine'.psi
    <3>1. rows[i].swapout <= machine.swapout /\ rows[i].psi <= machine.psi
      BY DEF Growing
    <3>2. /\ rows[i].swapout \in Nat /\ rows[i].psi \in Nat
          /\ machine.swapout \in Nat /\ machine.psi \in Nat
      BY MeasurementFields DEF Shapes, Measurement
    <3>3. machine'.swapout \in Nat /\ machine'.psi \in Nat
      BY <1>3 DEF Measurement
    <3> QED
      BY <1>3, <3>1, <3>2, <3>3
  <2> QED
    BY <1>1, <2>1 DEF Growing
<1>5. Shapes' /\ Together' /\ Bounds' /\ Founded'
  BY <1>1, <1>3 DEF Shapes, Together, Bounds, Founded
<1> QED
  BY <1>4, <1>5

LEMMA GateStepPreserves == GInv /\ [GateNext]_gateVars => GInv'
<1> SUFFICES ASSUME GInv, [GateNext]_gateVars PROVE GInv'
  OBVIOUS
<1>1. CASE Refuse \/ Main
  BY <1>1, MainPreserves, SamplePreserves DEF Main
<1>2. CASE Monitor \/ ScanFails
  BY <1>2, MonitorPreserves
<1>3. CASE Child
  BY <1>3, ChildPreserves
<1>4. CASE Change
  BY <1>4, ChangePreserves
<1>5. CASE GateStopped \/ UNCHANGED gateVars
  <2>1. UNCHANGED <<gatePc, machine, bench, timer, exitCode, rows, scans, rivals, monitor, stop,
                    reason, signalled>>
    BY <1>5 DEF GateStopped, gateVars, machineVars, child, thread, verdict
  <2> QED
    BY <2>1 DEF GInv, Shapes, Growing, Together, Bounds, Founded, Checks
<1> QED
  BY <1>1, <1>2, <1>3, <1>4, <1>5 DEF GateNext

LEMMA GateInvariance == GateSpec => []GInv
BY GateInitially, GateStepPreserves, PTL DEF GateSpec

-----------------------------------------------------------------------------
(***************************************************************************)
(* What the gate promises.                                                 *)
(***************************************************************************)

\* In every interleaving of main(), the competitor thread, the processes and the
\* machine (runtime_gate.py): a pass is the pass of a run none of whose prefixes
\* broke a rule, a run that was stopped fails, and load stops a run only after
\* so many consecutive busy samples.
THEOREM VerdictEarned == GateSpec => []VerdictSound
<1>1. GInv => VerdictSound
  <2> SUFFICES ASSUME GInv PROVE VerdictSound
    OBVIOUS
  <2>1. GateTypeOK
    BY GateAssumption DEF GInv, Shapes, Together, Bounds, GateTypeOK, Judged
  <2>2. ASSUME gatePc = "passed" PROVE ~Dirty(rows) /\ ~rivals /\ rows # <<>> /\ exitCode = 0
    <3>1. Checks /\ rows \in Seq(Measurement) /\ Growing /\ rows # <<>>
      BY <2>2 DEF GInv, Founded, Shapes, Bounds
    <3>2. exitCode = 0
      BY <3>1 DEF Checks
    <3> QED
      BY <3>1, <3>2, ChecksAreClean
  <2>3. gatePc = "passed" => signalled = {}
    BY <2>2 DEF GInv, Founded
  <2>4. ASSUME gatePc = "passed", NEW k \in 1..Len(rows)
        PROVE  ImmediateViolation(SubSeq(rows, 1, k), rivals) = GateNone
    <3> DEFINE q == SubSeq(rows, 1, k)
    <3>1. rows \in Seq(Measurement) /\ rivals \in BOOLEAN
      BY DEF GInv, Shapes
    <3>2. /\ q \in Seq(Measurement) /\ Len(q) = k /\ k \in Nat /\ k # 0 /\ k <= Len(rows)
          /\ \A i \in 1..k : q[i] = rows[i]
      BY <3>1
    <3>3. q # <<>> /\ DOMAIN q = 1..k
      BY <3>2
    <3> HIDE DEF q
    <3>4. Dirty(q) => Dirty(rows)
      BY <3>1, <3>2, <3>3, DirtyStays
    <3>5. ImmediateViolation(q, rivals) # GateNone => Dirty(q) \/ rivals
      BY <3>1, <3>2, <3>3, ViolationBreaks
    <3>6. ImmediateViolation(q, rivals) = GateNone
      BY <2>2, <2>4, <3>4, <3>5
    <3> QED
      BY <3>6 DEF q
  <2>5. PassIsClean
    BY <2>2, <2>3, <2>4 DEF PassIsClean
  <2>6. StoppedRunFails
    BY <2>3 DEF StoppedRunFails, Judged
  <2>7. OnlyConsecutive
    BY DEF GInv, Founded, Window, OnlyConsecutive
  <2> QED
    BY <2>1, <2>5, <2>6, <2>7 DEF VerdictSound
<1> QED
  BY <1>1, GateInvariance, PTL

-----------------------------------------------------------------------------
(***************************************************************************)
(* What Profile.bind promises of the trace it returns, for every profile,  *)
(* every recipe and every stream of instructions: its edges lead backward; *)
(* under a profile that provides for its instructions no edge of the       *)
(* semantic trace is lost and no byte is moved twice; and under one whose  *)
(* rules match _XsaiUopExpander, the expander accepts what is bound and    *)
(* the slots it makes of it keep its uops, its order and its bytes.        *)
(***************************************************************************)

\* recipe_keys and the preparation take the first candidate there is.
LEMMA FirstIsLeast ==
    ASSUME NEW S \in SUBSET Nat, S # {}
    PROVE  FirstOf(S) \in S /\ \A m \in S : FirstOf(S) <= m
<1>1. PICK n \in S : \A m \in S : ~(<<m, n>> \in OpToRel(<, Nat))
  BY WFMin, NatLessThanWellFounded, Zenon
<1>2. \A m \in Nat : m < n => <<m, n>> \in OpToRel(<, Nat)
  <2> SUFFICES ASSUME NEW m \in Nat, m < n PROVE <<m, n>> \in {ss \in Nat \X Nat : ss[1] < ss[2]}
    BY Zenon DEF OpToRel
  <2> QED
    OBVIOUS
<1>3. \A m \in S : ~(m < n)
  BY <1>1, <1>2, Zenon
<1>4. \A m \in S : n <= m
  BY <1>3
<1> QED
  BY <1>4 DEF FirstOf

\* Division in blocks of n.
LEMMA DivMod ==
    ASSUME NEW n \in Nat \ {0}, NEW x \in Nat
    PROVE  x \div n \in Nat /\ x % n \in 0..(n - 1) /\ x = n * (x \div n) + (x % n)
<1>1. x \div n \in Nat
  OBVIOUS
<1>2. x % n \in 0..(n - 1)
  OBVIOUS
<1>3. x = n * (x \div n) + (x % n)
  OBVIOUS
<1> QED
  BY <1>1, <1>2, <1>3

\* The block in which a number is, and its place there, are unique.
LEMMA BlockOf ==
    ASSUME NEW n \in Nat \ {0}, NEW q \in Nat, NEW r \in 0..(n - 1),
           NEW d \in Nat, NEW m \in 0..(n - 1), n * q + r = n * d + m
    PROVE  d = q /\ m = r
<1>1. n * (d - q) = r - m
  OBVIOUS
<1>2. ~(d > q)
  <2> SUFFICES ASSUME d - q >= 1 PROVE FALSE
    OBVIOUS
  <2>1. n * (d - q) >= n
    OBVIOUS
  <2> QED
    BY <2>1, <1>1
<1>3. ~(d < q)
  <2> SUFFICES ASSUME q - d >= 1 PROVE FALSE
    OBVIOUS
  <2>1. n * (q - d) >= n
    OBVIOUS
  <2>2. n * (q - d) = m - r
    OBVIOUS
  <2> QED
    BY <2>1, <2>2
<1>4. d = q
  BY <1>2, <1>3
<1> QED
  BY <1>4

-----------------------------------------------------------------------------
\* The recipe of an instruction that has one is well-formed, and no preparation
\* uop shares an id with its entries.
LEMMA RecipeIsTyped ==
    ASSUME self \in Profiles, NEW f \in self.forms, HasRecipe(f)
    PROVE  RecipeType(RecipeOf(f)) /\ FormType(f)
<1>1. FormType(f)
  BY ProfilesAssumption DEF SelfType
<1>2. CASE KnownKeys(f) = {}
  <2>1. f.kinds[1] \in STRING
    BY <1>1 DEF FormType
  <2> DEFINE entry == [id |-> "fit", kind |-> f.kinds[1], needs |-> {}, part |-> NoPart]
  <2>3. RecipeOf(f) = [parts |-> 0, decoded |-> 1, uops |-> <<entry>>]
    BY <1>2 DEF RecipeOf, FitRecipe
  <2> HIDE DEF entry
  <2>4. Len(<<entry>>) = 1 /\ DOMAIN <<entry>> = 1..1 /\ <<entry>>[1] = entry
    OBVIOUS
  <2>5. entry.needs = {} /\ entry.part = NoPart /\ entry.kind \in STRING
    BY <2>1 DEF entry
  <2>6. IsInjective([k \in DOMAIN <<entry>> |-> <<entry>>[k].id])
    BY <2>4 DEF IsInjective
  <2> QED
    BY <1>1, <2>3, <2>4, <2>5, <2>6 DEF RecipeType
<1>3. CASE KnownKeys(f) # {}
  <2>1. KnownKeys(f) \in SUBSET Nat
    BY <1>1 DEF KnownKeys, FormType
  <2>2. FirstOf(KnownKeys(f)) \in KnownKeys(f)
    BY <2>1, <1>3, FirstIsLeast
  <2>3. RecipeOf(f) = Recipes[f.keys[FirstOf(KnownKeys(f))]]
    BY <1>3 DEF RecipeOf
  <2> QED
    BY <1>1, <2>2, <2>3, RecipesAssumption DEF KnownKeys
<1> QED
  BY <1>2, <1>3

\* Nor is a preparation uop named like an entry of the recipe it precedes.
LEMMA PrepHasOwnId ==
    ASSUME self \in Profiles, NEW f \in self.forms, HasRecipe(f), NeedsPrep(f), ~PrepMissing(f)
    PROVE  /\ PrepSlot(f).kind \in STRING
           /\ \A e \in DOMAIN RecipeOf(f).uops : RecipeOf(f).uops[e].id # PrepSlot(f).id
<1>1. FormType(f) /\ Category(f) \in DOMAIN self.rules
  BY ProfilesAssumption DEF SelfType, NeedsPrep, Dynamic, Rules
<1>2. PrepClass(f) \in DOMAIN Rule(f).prep
  <2>1. CASE PrepSources(f) = {}
    BY <2>1 DEF PrepClass, PrepMissing
  <2>2. CASE PrepSources(f) # {}
    <3>1. FirstOf(PrepSources(f)) \in PrepSources(f)
      BY <2>2, <1>1, FirstIsLeast DEF PrepSources, FormType
    <3> QED
      BY <3>1, <2>2 DEF PrepSources, PrepClass
  <2> QED
    BY <2>1, <2>2
<1>3. PrepType(Rule(f).prep[PrepClass(f)])
  BY <1>1, <1>2, ProfilesAssumption DEF SelfType, Rule, Rules
<1>4. PrepSlot(f).id = Rule(f).prep[PrepClass(f)].id /\ PrepSlot(f).kind = Rule(f).prep[PrepClass(f)].kind
  BY DEF PrepSlot
<1>5. ASSUME NEW e \in DOMAIN RecipeOf(f).uops
      PROVE  RecipeOf(f).uops[e].id # PrepSlot(f).id
  <2>1. CASE KnownKeys(f) = {}
    <3>1. RecipeOf(f).uops[e].id = "fit"
      BY <2>1, <1>5 DEF RecipeOf, FitRecipe
    <3> QED
      BY <3>1, <1>3, <1>4 DEF PrepType
  <2>2. CASE KnownKeys(f) # {}
    <3>0. KnownKeys(f) \in SUBSET Nat
      BY <1>1 DEF KnownKeys, FormType
    <3>1. FirstOf(KnownKeys(f)) \in KnownKeys(f)
      BY <2>2, <3>0, FirstIsLeast
    <3> QED
      BY <2>2, <3>1, <1>3, <1>4, <1>5 DEF RecipeOf, KnownKeys, PrepType
  <2> QED
    BY <2>1, <2>2
<1> QED
  BY <1>3, <1>4, <1>5 DEF PrepType

\* A rule of the back end makes at least one part.
LEMMA PartsAreCounted ==
    ASSUME self \in Profiles, NEW f \in self.forms, Dynamic(f)
    PROVE  PartCount(f) \in Nat \ {0}
<1>1. FormType(f) /\ Category(f) \in DOMAIN self.rules
  BY ProfilesAssumption DEF SelfType, Dynamic, Rules
<1>2. Rule(f).by \in {"lmul", "count", "dynamic"} /\ (Rule(f).by = "count" => Rule(f).count \in Nat)
  BY <1>1, ProfilesAssumption DEF SelfType, Rule, Rules
<1>3. \A n \in Int : AtLeastOne(n) \in Nat \ {0}
  BY DEF AtLeastOne
<1>4. \A n \in Nat : Ceil(n, WidthBits) \in Int
  BY WidthAssumption DEF Ceil
<1>5. f.lmul \in Nat /\ f.active \in Nat /\ 8 * f.bytes \in Nat
  BY <1>1 DEF FormType
<1> QED
  BY <1>2, <1>3, <1>4, <1>5 DEF PartCount

-----------------------------------------------------------------------------
\* Where the slots of an instruction lie.  Statically they are the entries of
\* its recipe.
LEMMA ExpandedStatic ==
    ASSUME self \in Profiles, NEW f \in self.forms, HasRecipe(f), ~Dynamic(f)
    PROVE  /\ Len(RecipeOf(f).uops) \in Nat \ {0} /\ DOMAIN Expanded(f) = 1..Len(RecipeOf(f).uops)
           /\ Expanded(f) \in Seq(Range(Expanded(f)))
           /\ Len(Expanded(f)) = Len(RecipeOf(f).uops)
           /\ \A k \in DOMAIN Expanded(f) :
                Expanded(f)[k] = Slot(RecipeOf(f).uops[k], k, RecipeOf(f).uops[k].part,
                     IF RecipeOf(f).uops[k].part = NoPart THEN 0 ELSE RecipeOf(f).parts)
<1> DEFINE es == RecipeOf(f).uops
           G(k) == Slot(es[k], k, es[k].part, IF es[k].part = NoPart THEN 0 ELSE RecipeOf(f).parts)
<1>2. Len(es) \in Nat \ {0} /\ DOMAIN es = 1..Len(es)
  BY RecipeIsTyped DEF RecipeType
<1>3. Expanded(f) = [k \in DOMAIN es |-> G(k)]
  BY DEF Expanded
<1> HIDE DEF es, G
<1>4. DOMAIN Expanded(f) = 1..Len(es) /\ \A k \in 1..Len(es) : Expanded(f)[k] = G(k)
  BY <1>2, <1>3
<1>5. Expanded(f) \in [1..Len(es) -> Range(Expanded(f))]
  BY <1>3, <1>4 DEF Range
<1>6. Expanded(f) \in Seq(Range(Expanded(f))) /\ Len(Expanded(f)) = Len(es)
  BY <1>2, <1>5
<1> QED
  BY <1>2, <1>4, <1>6 DEF es, G

\* Under a rule of the back end part q has a slot for every entry l, after the
\* preparation if there is one.
Ahead(f) == IF NeedsPrep(f) THEN 1 ELSE 0
PartEntry(f, q, l) ==
    LET entry == RecipeOf(f).uops[l]
    IN  [Slot(entry, l, q, PartCount(f)) EXCEPT
            !.needs = IF NeedsPrep(f) THEN @ \cup {PrepSlot(f).id} ELSE @]

LEMMA ExpandedDynamic ==
    ASSUME self \in Profiles, NEW f \in self.forms, HasRecipe(f), Dynamic(f)
    PROVE  LET n == Len(RecipeOf(f).uops)
               a == Ahead(f)
           IN  /\ n \in Nat \ {0} /\ PartCount(f) \in Nat \ {0} /\ DOMAIN RecipeOf(f).uops = 1..n
               /\ Expanded(f) \in Seq(Range(Expanded(f))) /\ a \in {0, 1}
               /\ DOMAIN Expanded(f) = 1..(a + PartCount(f) * n)
               /\ Len(Expanded(f)) = a + PartCount(f) * n
               /\ NeedsPrep(f) => a = 1 /\ Expanded(f)[1] = PrepSlot(f)
               /\ \A q \in 0..(PartCount(f) - 1), l \in 1..n :
                    /\ a + n * q + l \in DOMAIN Expanded(f)
                    /\ Expanded(f)[a + n * q + l] = PartEntry(f, q, l)
               /\ \A k \in DOMAIN Expanded(f) :
                    \/ NeedsPrep(f) /\ k = 1
                    \/ \E q \in 0..(PartCount(f) - 1), l \in 1..n : k = a + n * q + l
<1> DEFINE es == RecipeOf(f).uops
           n == Len(es)
           P == PartCount(f)
           parts == [j \in 1..(P * n) |-> PartSlot(f, j)]
           S == Expanded(f)
           a == Ahead(f)
<1>2. n \in Nat \ {0} /\ DOMAIN es = 1..n
  BY RecipeIsTyped DEF RecipeType
<1>3. P \in Nat \ {0} /\ P * n \in Nat
  BY <1>2, PartsAreCounted
<1>4. S = IF NeedsPrep(f) THEN <<PrepSlot(f)>> \o parts ELSE parts
  BY DEF Expanded
<1> HIDE DEF es
<1>5. /\ a \in {0, 1} /\ DOMAIN S = 1..(a + P * n) /\ S \in Seq(Range(S)) /\ Len(S) = a + P * n
      /\ NeedsPrep(f) => a = 1 /\ S[1] = PrepSlot(f)
      /\ \A j \in 1..(P * n) : S[a + j] = PartSlot(f, j)
  <2> DEFINE V == {PartSlot(f, j) : j \in 1..(P * n)}
  <2> DEFINE m == P * n
  <2>1. parts \in [1..m -> V] /\ m \in Nat
    BY <1>3
  <2>2. parts \in Seq(V) /\ Len(parts) = m /\ \A j \in 1..m : parts[j] = PartSlot(f, j)
    <3>1. \A j \in 1..m : parts[j] = PartSlot(f, j)
      OBVIOUS
    <3> HIDE DEF m, V, parts
    <3> QED
      BY <2>1, <3>1
  <2>3. CASE NeedsPrep(f)
    <3> HIDE DEF parts, V, m
    <3> DEFINE X == V \cup {PrepSlot(f)}
    <3>1. S = <<PrepSlot(f)>> \o parts /\ a = 1
      BY <2>3, <1>4 DEF Ahead
    <3>2. <<PrepSlot(f)>> \in Seq(X) /\ parts \in Seq(X)
      BY <2>2
    <3>3. /\ Len(S) = 1 + m /\ DOMAIN S = 1..(1 + m) /\ S[1] = PrepSlot(f)
          /\ \A j \in 1..m : S[1 + j] = parts[j]
      BY <3>1, <3>2, <2>1, <2>2
    <3>4. S \in [1..(1 + m) -> Range(S)]
      <4>1. S \in Seq(X)
        BY <3>1, <3>2
      <4>2. S = [k \in 1..(1 + m) |-> S[k]]
        BY <4>1, <3>3
      <4> QED
        BY <4>2, <3>3 DEF Range
    <3>5. S \in Seq(Range(S))
      BY <3>4, <2>1
    <3> QED
      BY <3>1, <3>3, <3>5, <2>2 DEF m
  <2>4. CASE ~NeedsPrep(f)
    <3> HIDE DEF m, V
    <3>1. S = parts /\ a = 0
      BY <2>4, <1>4 DEF Ahead
    <3> HIDE DEF parts
    <3>2. Len(S) = m /\ DOMAIN S = 1..m /\ \A j \in 1..m : S[j] = PartSlot(f, j)
      BY <3>1, <2>2
    <3>3. S \in [1..m -> Range(S)]
      <4>2. S = [k \in 1..m |-> S[k]]
        BY <3>1, <3>2, <2>1
      <4> QED
        BY <4>2, <3>2 DEF Range
    <3>4. S \in Seq(Range(S))
      BY <3>3, <2>1
    <3> QED
      BY <3>1, <3>2, <3>4, <2>1, <2>4 DEF m
  <2> QED
    BY <2>3, <2>4
<1>6. ASSUME NEW q \in 0..(P - 1), NEW l \in 1..n
      PROVE  n * q + l \in 1..(P * n) /\ PartSlot(f, n * q + l) = PartEntry(f, q, l)
  <2> DEFINE j == n * q + l
  <2>1. j \in 1..(P * n)
    <3>1. n * q + l <= n * (q + 1)
      BY <1>2
    <3>2. n * (q + 1) <= n * P
      BY <1>2, <1>3
    <3> QED
      BY <3>1, <3>2, <1>2, <1>3
  <2>2. (j - 1) \div n = q /\ (j - 1) % n = l - 1
    <3>1. j - 1 = n * q + (l - 1) /\ l - 1 \in 0..(n - 1) /\ q \in Nat
      BY <1>2, <1>3
    <3>2. j - 1 \in Nat
      BY <2>1, <1>3
    <3> DEFINE d == (j - 1) \div n
               m == (j - 1) % n
    <3> HIDE DEF j, n
    <3>3. d \in Nat /\ m \in 0..(n - 1) /\ j - 1 = n * d + m
      BY <3>2, <1>2, DivMod
    <3> HIDE DEF d, m
    <3>4. d = q /\ m = l - 1
      BY <3>1, <3>3, <1>2, BlockOf
    <3> QED
      BY <3>4 DEF d, m
  <2>3. ((j - 1) % n) + 1 = l
    BY <2>2
  <2> HIDE DEF j
  <2>4. PartSlot(f, j) = PartEntry(f, q, l)
    BY <2>2, <2>3 DEF PartSlot, PartEntry, Slot, es
  <2> QED
    BY <2>1, <2>4 DEF j
<1>7. ASSUME NEW j \in 1..(P * n)
      PROVE  \E q \in 0..(P - 1), l \in 1..n : j = n * q + l
  <2> DEFINE q == (j - 1) \div n
             m == (j - 1) % n
  <2>1. q \in Nat /\ m \in 0..(n - 1) /\ j - 1 = n * q + m
    <3>1. j - 1 \in Nat
      BY <1>3
    <3> HIDE DEF n
    <3> QED
      BY <3>1, <1>2, DivMod
  <2> HIDE DEF q, m
  <2>2. ~(q >= P)
    <3> SUFFICES ASSUME q >= P PROVE FALSE
      OBVIOUS
    <3>1. n * q >= n * P
      BY <1>2, <1>3, <2>1
    <3> QED
      BY <3>1, <2>1, <1>2, <1>3
  <2>3. q \in 0..(P - 1) /\ m + 1 \in 1..n /\ j = n * q + (m + 1)
    BY <2>1, <2>2, <1>2, <1>3
  <2> QED
    BY <2>3
<1> HIDE DEF n, P, parts, S, a
<1>8. ASSUME NEW q \in 0..(P - 1), NEW l \in 1..n
      PROVE  a + n * q + l \in DOMAIN S /\ S[a + n * q + l] = PartEntry(f, q, l)
  <2> DEFINE j == n * q + l
  <2>1. j \in 1..(P * n) /\ PartSlot(f, j) = PartEntry(f, q, l)
    BY <1>6
  <2>2. a + n * q + l = a + j
    BY <1>2, <1>3, <1>5
  <2> HIDE DEF j
  <2> QED
    BY <2>1, <2>2, <1>5, <1>3
<1>9. ASSUME NEW k \in DOMAIN S
      PROVE  \/ NeedsPrep(f) /\ k = 1
             \/ \E q \in 0..(P - 1), l \in 1..n : k = a + n * q + l
  <2>1. CASE k > a
    <3>1. k - a \in 1..(P * n)
      BY <2>1, <1>3, <1>5
    <3>2. PICK q \in 0..(P - 1), l \in 1..n : k - a = n * q + l
      BY <3>1, <1>7
    <3>3. k = a + n * q + l
      <4>1. n * q \in Nat /\ k \in Int /\ a \in Int /\ l \in Int
        BY <1>2, <1>3, <1>5
      <4> QED
        BY <4>1, <3>2
    <3> QED
      BY <3>3
  <2>2. CASE k <= a
    BY <2>2, <1>3, <1>5 DEF a, Ahead
  <2> QED
    BY <2>1, <2>2, <1>3, <1>5
<1> QED
  BY <1>2, <1>3, <1>5, <1>8, <1>9 DEF n, P, S, a, es

-----------------------------------------------------------------------------
(* What the expansion of an instruction that is not refused looks like.     *)

\* bind goes on after each of its checks.
LEMMA NotRefused ==
    ASSUME NEW f, Refusal(f) = "none"
    PROVE  HasRecipe(f) /\ ~PrepMissing(f) /\ ~EmptyPart(f)
BY DEF Refusal

SlotType(slot) ==
    /\ slot.kind \in STRING /\ slot.part \in Nat \cup {NoPart} /\ slot.count \in Nat
    /\ slot.local \in Nat /\ slot.prep \in BOOLEAN /\ (slot.prep => slot.part = NoPart)

\* There is at least one slot, and each has a kind, a part and a count.
LEMMA SlotsAreTyped ==
    ASSUME self \in Profiles, NEW f \in self.forms, Refusal(f) = "none"
    PROVE  /\ Expanded(f) \in Seq(Range(Expanded(f))) /\ Len(Expanded(f)) \in Nat \ {0}
           /\ DOMAIN Expanded(f) = 1..Len(Expanded(f))
           /\ \A k \in DOMAIN Expanded(f) : SlotType(Expanded(f)[k])
<1> DEFINE r == RecipeOf(f)
           n == Len(r.uops)
<1>0. NoPart = -1
  BY DEF NoPart
<1>1. HasRecipe(f) /\ ~PrepMissing(f)
  BY NotRefused
<1>2. RecipeType(r)
  BY <1>1, RecipeIsTyped
<1>3. CASE ~Dynamic(f)
  <2>1. /\ n \in Nat \ {0} /\ DOMAIN Expanded(f) = 1..n
        /\ Expanded(f) \in Seq(Range(Expanded(f))) /\ Len(Expanded(f)) = n
    BY <1>1, <1>3, ExpandedStatic
  <2>2. ASSUME NEW k \in DOMAIN Expanded(f) PROVE SlotType(Expanded(f)[k])
    <3>1. Expanded(f)[k] = Slot(r.uops[k], k, r.uops[k].part,
                                IF r.uops[k].part = NoPart THEN 0 ELSE r.parts)
      BY <1>1, <1>3, ExpandedStatic
    <3>2. /\ r.uops[k].kind \in STRING /\ r.uops[k].part \in {NoPart} \cup 0..(r.parts - 1)
          /\ r.parts \in Nat /\ k \in Nat
      BY <2>1, <1>2 DEF RecipeType
    <3> QED
      BY <3>1, <3>2, <1>0 DEF Slot, SlotType
  <2> QED
    BY <2>1, <2>2
<1>4. CASE Dynamic(f)
  <2> DEFINE a == Ahead(f)
             P == PartCount(f)
  <2>1. /\ n \in Nat \ {0} /\ P \in Nat \ {0} /\ DOMAIN r.uops = 1..n /\ a \in {0, 1}
        /\ DOMAIN Expanded(f) = 1..(a + P * n)
        /\ Expanded(f) \in Seq(Range(Expanded(f))) /\ Len(Expanded(f)) = a + P * n
    BY <1>1, <1>4, ExpandedDynamic
  <2>2. a + P * n \in Nat \ {0}
    <3>1. P * n >= n
      BY <2>1
    <3> QED
      BY <3>1, <2>1
  <2>3. ASSUME NEW k \in DOMAIN Expanded(f) PROVE SlotType(Expanded(f)[k])
    <3>1. CASE NeedsPrep(f) /\ k = 1
      <4>1. Expanded(f)[k] = PrepSlot(f)
        BY <3>1, <1>1, <1>4, ExpandedDynamic
      <4>2. PrepSlot(f).kind \in STRING
        BY <3>1, <1>1, PrepHasOwnId
      <4>3. /\ PrepSlot(f).part = NoPart /\ PrepSlot(f).count = 0 /\ PrepSlot(f).local = 1
            /\ PrepSlot(f).prep \in BOOLEAN
        BY DEF PrepSlot
      <4>4. SlotType(PrepSlot(f))
        <5> HIDE DEF n
        <5> QED
          BY <4>2, <4>3, <1>0 DEF SlotType
      <4> QED
        BY <4>1, <4>4
    <3>2. CASE ~(NeedsPrep(f) /\ k = 1)
      <4>1. PICK q \in 0..(P - 1), l \in 1..n : k = a + n * q + l
        BY <3>2, <1>1, <1>4, ExpandedDynamic
      <4>2. Expanded(f)[k] = PartEntry(f, q, l)
        BY <4>1, <1>1, <1>4, ExpandedDynamic
      <4>3. r.uops[l].kind \in STRING /\ l \in Nat /\ q \in Nat
        BY <2>1, <1>2 DEF RecipeType
      <4> QED
        BY <4>2, <4>3, <2>1, <1>0 DEF PartEntry, Slot, SlotType
    <3> QED
      BY <3>1, <3>2
  <2> QED
    BY <2>1, <2>2, <2>3
<1> QED
  BY <1>3, <1>4

\* What an entry of a recipe names lies before it, and is the only one named so.
LEMMA EntriesInOrder ==
    ASSUME NEW r, RecipeType(r)
    PROVE  /\ \A k \in 1..Len(r.uops) : \A d \in r.uops[k].needs :
                \E j \in 1..(k - 1) : j \in 1..Len(r.uops) /\ r.uops[j].id = d
           /\ \A j, k \in 1..Len(r.uops) : r.uops[j].id = r.uops[k].id => j = k
<1>1. Len(r.uops) \in Nat /\ DOMAIN r.uops = 1..Len(r.uops)
  BY DEF RecipeType
<1> DEFINE g == [k \in DOMAIN r.uops |-> r.uops[k].id]
<1>2. \A j, k \in DOMAIN r.uops : g[j] = g[k] => j = k
  BY DEF RecipeType, IsInjective
<1> HIDE DEF g
<1>3. ASSUME NEW j \in 1..Len(r.uops), NEW k \in 1..Len(r.uops), r.uops[j].id = r.uops[k].id
      PROVE  j = k
  <2>1. g[j] = r.uops[j].id /\ g[k] = r.uops[k].id
    BY <1>1 DEF g
  <2> QED
    BY <2>1, <1>1, <1>2, <1>3
<1>4. ASSUME NEW k \in 1..Len(r.uops), NEW d \in r.uops[k].needs
      PROVE  \E j \in 1..(k - 1) : j \in 1..Len(r.uops) /\ r.uops[j].id = d
  <2>1. PICK j \in 1..(k - 1) : r.uops[j].id = d
    BY <1>1 DEF RecipeType
  <2>2. j \in 1..Len(r.uops)
    BY <1>1
  <2> QED
    BY <2>1, <2>2
<1> QED
  BY <1>3, <1>4

WithId(slots, d) == {j \in DOMAIN slots : slots[j].id = d}
SamePart(slots, k, d) ==
    {j \in WithId(slots, d) : slots[k].part # NoPart /\ slots[j].part = slots[k].part}

\* Whatever of its instruction a uop waits for comes before it.
LEMMA LocalsBefore ==
    ASSUME self \in Profiles, NEW f \in self.forms, Refusal(f) = "none",
           NEW k \in DOMAIN Expanded(f), NEW d \in Expanded(f)[k].needs
    PROVE  /\ Matching(SamePart(Expanded(f), k, d), WithId(Expanded(f), d)) \subseteq 1..(k - 1)
<1> DEFINE S == Expanded(f)
           r == RecipeOf(f)
           n == Len(r.uops)
           M == Matching(SamePart(S, k, d), WithId(S, d))
<1>1. HasRecipe(f) /\ ~PrepMissing(f)
  BY NotRefused
<1>2. RecipeType(r)
  BY <1>1, RecipeIsTyped
<1>3. M \subseteq WithId(S, d) /\ M \subseteq DOMAIN S
  BY DEF Matching, SamePart, WithId
<1>4. CASE ~Dynamic(f)
  <2>1. n \in Nat \ {0} /\ DOMAIN S = 1..n /\ S[k] = Slot(r.uops[k], k, r.uops[k].part,
                                IF r.uops[k].part = NoPart THEN 0 ELSE r.parts)
    BY <1>1, <1>4, ExpandedStatic
  <2>2. d \in r.uops[k].needs /\ k \in 1..n
    BY <2>1 DEF Slot
  <2>3. PICK j \in 1..(k - 1) : j \in 1..n /\ r.uops[j].id = d
    BY <2>2, <1>2, EntriesInOrder
  <2>4. ASSUME NEW m \in M PROVE m = j
    <3>1. m \in 1..n /\ S[m].id = d
      BY <1>3, <2>1 DEF WithId
    <3>2. S[m].id = r.uops[m].id
      BY <3>1, <2>1, <1>1, <1>4, ExpandedStatic DEF Slot
    <3> QED
      BY <3>1, <3>2, <2>3, <1>2, EntriesInOrder
  <2> QED
    BY <2>3, <2>4
<1>5. CASE Dynamic(f)
  <2> DEFINE a == Ahead(f)
             P == PartCount(f)
  <2>1. /\ n \in Nat \ {0} /\ P \in Nat \ {0} /\ DOMAIN r.uops = 1..n /\ a \in {0, 1}
        /\ DOMAIN S = 1..(a + P * n)
    BY <1>1, <1>5, ExpandedDynamic
  <2>2. ~(NeedsPrep(f) /\ k = 1)
    <3> SUFFICES ASSUME NeedsPrep(f), k = 1 PROVE FALSE
      OBVIOUS
    <3>1. S[k] = PrepSlot(f)
      BY <1>1, <1>5, ExpandedDynamic
    <3> QED
      BY <3>1 DEF PrepSlot
  <2>3. PICK q \in 0..(P - 1), l \in 1..n : k = a + n * q + l
    BY <2>2, <1>1, <1>5, ExpandedDynamic
  <2>4. S[k] = PartEntry(f, q, l)
    BY <2>3, <1>1, <1>5, ExpandedDynamic
  <2>5. S[k].part = q /\ q # NoPart
    BY <2>4 DEF PartEntry, Slot, NoPart
  <2>6. n * q \in Nat /\ k \in Nat
    BY <2>1, <2>3
  \* The preparation is the first slot and has an id of its own.
  <2>7. CASE NeedsPrep(f) /\ d = PrepSlot(f).id
    <3>1. a = 1
      BY <2>7 DEF Ahead
    <3>2. ASSUME NEW m \in M PROVE m = 1
      <4>1. m \in DOMAIN S /\ S[m].id = d
        BY <1>3 DEF WithId
      <4>2. ASSUME m # 1 PROVE FALSE
        <5>1. PICK q2 \in 0..(P - 1), l2 \in 1..n : m = a + n * q2 + l2
          BY <4>1, <4>2, <1>1, <1>5, ExpandedDynamic
        <5>2. S[m] = PartEntry(f, q2, l2)
          BY <5>1, <1>1, <1>5, ExpandedDynamic
        <5>3. S[m].id = r.uops[l2].id
          BY <5>2 DEF PartEntry, Slot
        <5> QED
          BY <5>3, <4>1, <2>1, <2>7, <1>1, PrepHasOwnId
      <4> QED
        BY <4>2
    <3>3. 1 \in 1..(k - 1)
      BY <3>1, <2>3, <2>6
    <3> QED
      BY <3>2, <3>3
  <2>8. CASE ~(NeedsPrep(f) /\ d = PrepSlot(f).id)
    <3>1. d \in r.uops[l].needs
      BY <2>4, <2>8 DEF PartEntry, Slot
    <3>2. PICK j \in 1..(l - 1) : j \in 1..n /\ r.uops[j].id = d
      BY <3>1, <1>2, EntriesInOrder
    <3> DEFINE m0 == a + n * q + j
    <3>3. m0 \in DOMAIN S /\ S[m0] = PartEntry(f, q, j)
      BY <3>2, <1>1, <1>5, ExpandedDynamic
    <3>4. S[m0].id = d /\ S[m0].part = q
      BY <3>2, <3>3 DEF PartEntry, Slot
    <3>5. m0 \in SamePart(S, k, d)
      BY <3>3, <3>4, <2>5 DEF SamePart, WithId
    <3>6. M = SamePart(S, k, d)
      BY <3>5 DEF Matching
    <3>7. ASSUME NEW m \in M PROVE m \in 1..(k - 1)
      <4>1. m \in DOMAIN S /\ S[m].id = d /\ S[m].part = q
        BY <3>6, <2>5 DEF SamePart, WithId
      <4>2. ~(NeedsPrep(f) /\ m = 1)
        <5> SUFFICES ASSUME NeedsPrep(f), m = 1 PROVE FALSE
          OBVIOUS
        <5>1. S[m] = PrepSlot(f)
          BY <1>1, <1>5, ExpandedDynamic
        <5> QED
          BY <5>1, <4>1, <2>5 DEF PrepSlot
      <4>3. PICK q2 \in 0..(P - 1), l2 \in 1..n : m = a + n * q2 + l2
        BY <4>1, <4>2, <1>1, <1>5, ExpandedDynamic
      <4>4. S[m] = PartEntry(f, q2, l2)
        BY <4>3, <1>1, <1>5, ExpandedDynamic
      <4>5. S[m].id = r.uops[l2].id /\ S[m].part = q2
        BY <4>4 DEF PartEntry, Slot
      <4>6. q2 = q /\ l2 = j
        BY <4>5, <4>1, <3>2, <1>2, EntriesInOrder
      <4>7. m = a + n * q + j /\ k = a + n * q + l /\ j \in 1..(l - 1) /\ l \in Nat
        BY <4>6, <4>3, <3>2, <2>3
      <4> HIDE DEF a, n
      <4> QED
        BY <4>7, <2>1, <2>6
    <3> QED
      BY <3>7
  <2> QED
    BY <2>7, <2>8
<1> QED
  BY <1>4, <1>5

\* The last slot is one nothing of its instruction waits for: there is a result.
LEMMA LastIsTerminal ==
    ASSUME self \in Profiles, NEW f \in self.forms, Refusal(f) = "none"
    PROVE  Terminal(Expanded(f), Len(Expanded(f)))
<1> DEFINE S == Expanded(f)
           r == RecipeOf(f)
           n == Len(r.uops)
           N == Len(S)
<1>1. HasRecipe(f) /\ ~PrepMissing(f)
  BY NotRefused
<1>2. RecipeType(r)
  BY <1>1, RecipeIsTyped
<1> SUFFICES ASSUME NEW j \in DOMAIN S, S[N].id \in S[j].needs PROVE FALSE
  BY DEF Terminal
<1>3. ASSUME NEW l \in 1..n, r.uops[n].id \in r.uops[l].needs, n \in Nat \ {0} PROVE FALSE
  <2>1. PICK m \in 1..(l - 1) : m \in 1..n /\ r.uops[m].id = r.uops[n].id
    BY <1>2, <1>3, EntriesInOrder
  <2>2. m = n
    BY <2>1, <1>2, <1>3, EntriesInOrder
  <2> QED
    BY <2>1, <2>2, <1>3
<1>4. CASE ~Dynamic(f)
  <2>1. /\ n \in Nat \ {0} /\ DOMAIN S = 1..n /\ N = n
        /\ \A k \in DOMAIN S : S[k].id = r.uops[k].id /\ S[k].needs = r.uops[k].needs
    BY <1>1, <1>4, ExpandedStatic DEF Slot
  <2> QED
    BY <2>1, <1>3
<1>5. CASE Dynamic(f)
  <2> DEFINE a == Ahead(f)
             P == PartCount(f)
  <2>1. n \in Nat \ {0} /\ P \in Nat \ {0} /\ DOMAIN r.uops = 1..n /\ a \in {0, 1} /\ N = a + P * n
    BY <1>1, <1>5, ExpandedDynamic
  <2>2. N = a + n * (P - 1) + n
    <3> HIDE DEF a, n, P, N
    <3>1. P * n = n * (P - 1) + n /\ n * (P - 1) \in Nat
      BY <2>1
    <3> QED
      BY <3>1, <2>1
  <2>3. P - 1 \in 0..(P - 1) /\ n \in 1..n
    BY <2>1
  <2>4. S[N] = PartEntry(f, P - 1, n)
    <3> HIDE DEF N
    <3> QED
      BY <2>2, <2>3, <1>1, <1>5, ExpandedDynamic
  <2>5. S[N].id = r.uops[n].id
    BY <2>4 DEF PartEntry, Slot
  <2>6. ~(NeedsPrep(f) /\ j = 1)
    <3> SUFFICES ASSUME NeedsPrep(f), j = 1 PROVE FALSE
      OBVIOUS
    <3>1. S[j] = PrepSlot(f)
      BY <1>1, <1>5, ExpandedDynamic
    <3> QED
      BY <3>1 DEF PrepSlot
  <2>7. PICK q \in 0..(P - 1), l \in 1..n : j = a + n * q + l
    BY <2>6, <1>1, <1>5, ExpandedDynamic
  <2>8. S[j] = PartEntry(f, q, l)
    BY <2>7, <1>1, <1>5, ExpandedDynamic
  <2>9. r.uops[n].id \in r.uops[l].needs
    <3>1. NeedsPrep(f) => r.uops[n].id # PrepSlot(f).id
      BY <2>1, <1>1, PrepHasOwnId
    <3> HIDE DEF S, N
    <3>2. r.uops[n].id \in S[j].needs
      BY <2>5
    <3> QED
      BY <3>1, <3>2, <2>8 DEF PartEntry, Slot, S
  <2> QED
    BY <2>9, <2>1, <1>3
<1> QED
  BY <1>4, <1>5

\* What a uop issues after is the first uop of a part before its own.
LEMMA AfterIsBefore ==
    ASSUME self \in Profiles, NEW i, i.form \in self.forms, Refusal(i.form) = "none",
           NEW base \in Nat, NEW k \in DOMAIN Expanded(i.form)
    PROVE  IssueAfter(i, Expanded(i.form), base, k) \in 0..(base + k - 1)
<1> DEFINE f == i.form
           S == Expanded(f)
           r == RecipeOf(f)
           before == {j \in DOMAIN S : S[j].part = S[k].part - 1}
<1>1. HasRecipe(f)
  BY NotRefused
<1>2. RecipeType(r) /\ DOMAIN S = 1..Len(S) /\ Len(S) \in Nat
  BY <1>1, RecipeIsTyped, SlotsAreTyped
<1>3. CASE ~Dynamic(f) /\ r.parts # 0 /\ S[k].part > 0 /\ before # {}
  <2>1. before \in SUBSET Nat
    BY <1>2
  <2>2. FirstOf(before) \in before
    BY <2>1, <1>3, FirstIsLeast
  <2> HIDE DEF before
  <2> DEFINE j == FirstOf(before)
  <2>3. j \in DOMAIN S /\ S[j].part = S[k].part - 1
    BY <2>2 DEF before
  <2>4. /\ \A m \in DOMAIN S : S[m].part = r.uops[m].part
        /\ DOMAIN S = DOMAIN r.uops
    BY <1>1, <1>3, <1>2, ExpandedStatic DEF Slot, RecipeType
  <2>5. r.uops[k].part \in Nat /\ r.uops[k].part > 0 /\ r.uops[j].part = r.uops[k].part - 1
    <3>1. r.uops[k].part \in {NoPart} \cup 0..(r.parts - 1) /\ r.parts \in Nat
      BY <2>4, <1>2 DEF RecipeType
    <3> HIDE DEF j
    <3> QED
      BY <3>1, <2>3, <2>4, <1>3 DEF NoPart
  <2> HIDE DEF j
  <2>6. ~(k < j)
    <3> SUFFICES ASSUME k < j PROVE FALSE
      OBVIOUS
    <3>1. k \in 1..(j - 1)
      BY <1>2, <2>3
    <3>2. r.uops[j].part = NoPart \/ r.uops[k].part <= r.uops[j].part
      BY <3>1, <2>3, <2>4, <1>2 DEF RecipeType
    <3> QED
      BY <3>2, <2>5 DEF NoPart
  <2>7. j # k
    BY <2>5
  <2>8. j \in 1..(k - 1)
    BY <2>6, <2>7, <2>3, <1>2
  <2>9. IssueAfter(i, S, base, k) = base + j
    BY <1>3 DEF IssueAfter, j, before
  <2> QED
    BY <2>8, <2>9, <1>2
<1>4. CASE ~(~Dynamic(f) /\ r.parts # 0 /\ S[k].part > 0 /\ before # {})
  <2>1. IssueAfter(i, S, base, k) = 0
    BY <1>4 DEF IssueAfter
  <2> QED
    BY <2>1, <1>2
<1> QED
  BY <1>3, <1>4

\* A slice of an access that is not refused has bytes.
LEMMA SharesAreTyped ==
    ASSUME self \in Profiles, NEW f \in self.forms, Refusal(f) = "none",
           NEW k \in DOMAIN Expanded(f), MovesMemory(f, Expanded(f)[k])
    PROVE  Share(f, Expanded(f)[k]) \in [start : Nat, bytes : Nat]
<1> DEFINE slot == Expanded(f)[k]
<1>1. f.bytes \in Nat
  BY ProfilesAssumption DEF SelfType, FormType
<1>2. slot.part \in Nat \cup {NoPart}
  BY SlotsAreTyped DEF SlotType
<1>3. CASE ~Dynamic(f)
  BY <1>1, <1>3 DEF Share
<1>4. CASE Dynamic(f)
  <2>1. Share(f, slot).bytes > 0
    <3>1. ~(Share(f, slot).bytes <= 0)
      BY <1>4, NotRefused DEF EmptyPart
    <3>2. Share(f, slot).bytes \in Int
      <4>1. PartBytes \in Nat
        BY WidthAssumption DEF PartBytes
      <4> DEFINE s == (IF slot.part = NoPart THEN 0 ELSE slot.part) * PartBytes
      <4>2. s \in Nat
        BY <4>1, <1>2
      <4>3. Share(f, slot).bytes = IF f.bytes - s < PartBytes THEN f.bytes - s ELSE PartBytes
        BY <1>4 DEF Share
      <4> HIDE DEF s
      <4> QED
        BY <4>1, <4>2, <4>3, <1>1
    <3> QED
      BY <3>1, <3>2
  <2>2. PartBytes \in Nat
    BY WidthAssumption DEF PartBytes
  <2> DEFINE s == (IF slot.part = NoPart THEN 0 ELSE slot.part) * PartBytes
             b == IF f.bytes - s < PartBytes THEN f.bytes - s ELSE PartBytes
  <2>3. s \in Nat
    BY <2>2, <1>2
  <2>4. Share(f, slot) = [start |-> s, bytes |-> b]
    BY <1>4 DEF Share
  <2> HIDE DEF s
  <2>5. b > 0 /\ b \in Int
    BY <2>1, <2>2, <2>3, <2>4, <1>1
  <2> QED
    BY <2>3, <2>4, <2>5
<1> QED
  BY <1>3, <1>4

-----------------------------------------------------------------------------
(* Binding an instruction.                                                  *)

\* The producers an instruction is recorded with are among n earlier ones.
RecordedWithin(i, n) ==
    /\ \A r \in i.form.reads : i.dependencies[r] \in 0..n
    /\ \A r \in i.form.writes : i.old[r] \in 0..n
    /\ i.stores \subseteq 1..n /\ i.flags \subseteq 1..n

TraceInv ==
    /\ \E X : trace \in Seq(X)
    /\ \A k \in 1..Len(trace) : RecordedWithin(trace[k], k - 1)
ParentInv == \A u \in 1..Len(uops) : uops[u].parent \in 1..Len(trace)
BinderInv == self \in Profiles /\ TraceInv /\ ParentInv /\ TypeOK /\ DependenciesBackward

\* Each uop bound so far has its fields, each instruction has results.
LEMMA Lengths ==
    ASSUME BinderInv
    PROVE  /\ Len(trace) \in Nat /\ DOMAIN trace = 1..Len(trace)
           /\ Len(uops) \in Nat /\ DOMAIN uops = 1..Len(uops)
           /\ Len(results) = Len(trace) /\ DOMAIN results = 1..Len(trace)
           /\ \A u \in 1..Len(uops) : uops[u] \in UopType
           /\ \A p \in 1..Len(trace) : results[p] \subseteq 1..Len(uops) /\ results[p] # {}
<1>1. Len(trace) \in Nat /\ DOMAIN trace = 1..Len(trace)
  BY DEF BinderInv, TraceInv
<1>2. uops \in Seq(UopType)
  BY DEF BinderInv, TypeOK
<1>3. results \in Seq((SUBSET (1..Len(uops))) \ {{}}) /\ Len(results) = Len(trace)
  BY DEF BinderInv, TypeOK
<1>4. \A u \in 1..Len(uops) : uops[u] \in UopType
  BY <1>2
<1>5. ASSUME NEW p \in 1..Len(trace) PROVE results[p] \subseteq 1..Len(uops) /\ results[p] # {}
  <2>1. results[p] \in (SUBSET (1..Len(uops))) \ {{}}
    BY <1>3
  <2> QED
    BY <2>1
<1> QED
  BY <1>1, <1>2, <1>3, <1>4, <1>5

\* What the producers of an instruction have produced has been bound before it.
LEMMA ProducersWithin ==
    ASSUME NEW n \in Nat, NEW i, RecordedWithin(i, n), NEW registers
    PROVE  Producers(i, registers) \subseteq 1..n
<1> SUFFICES ASSUME NEW r \in registers \cap i.form.reads, i.dependencies[r] # 0
             PROVE  i.dependencies[r] \in 1..n
  BY DEF Producers
<1> QED
  BY DEF RecordedWithin

\* An edge to a producer is one to uops that are bound already.
LEMMA ResultsWithin ==
    ASSUME BinderInv, NEW producers \in SUBSET (1..Len(trace)), NEW part
    PROVE  Results(producers, part) \subseteq 1..Len(uops)
<1> SUFFICES ASSUME NEW p \in producers
             PROVE  Matching({u \in results[p] : part # NoPart /\ uops[u].part = part}, results[p])
                      \subseteq 1..Len(uops)
  BY DEF Results
<1>1. results[p] \subseteq 1..Len(uops)
  BY Lengths
<1> QED
  BY <1>1 DEF Matching

\* A uop waits for instructions before its own only, whatever for.
LEMMA AwaitedWithin ==
    ASSUME NEW n \in Nat, NEW i, RecordedWithin(i, n), i.form.address \subseteq i.form.reads,
           NEW slot
    PROVE  /\ External(i, slot) \subseteq 1..n /\ StateProducers(i, slot) \subseteq 1..n
           /\ OldProducers(i, slot) \subseteq 1..n
<1>1. \A registers : Producers(i, registers) \subseteq 1..n
  BY ProducersWithin
<1>2. i.stores \subseteq 1..n /\ i.flags \subseteq 1..n
  BY DEF RecordedWithin
<1>3. External(i, slot) \subseteq 1..n
  BY <1>1, <1>2 DEF External
<1>4. StateProducers(i, slot) \subseteq 1..n
  BY <1>1 DEF StateProducers
<1>5. OldProducers(i, slot) \subseteq 1..n
  <2> SUFFICES ASSUME NEW r \in OldRegisters(i.form, slot), i.old[r] # 0
               PROVE  i.old[r] \in 1..n
    BY DEF OldProducers
  <2>1. r \in i.form.writes
    BY DEF OldRegisters, InPlace
  <2> QED
    BY <2>1 DEF RecordedWithin
<1> QED
  BY <1>3, <1>4, <1>5

\* The edges within an instruction lead backward in the whole trace, too.
LEMMA LocalsWithin ==
    ASSUME self \in Profiles, NEW f \in self.forms, Refusal(f) = "none",
           NEW base \in Nat, NEW k \in DOMAIN Expanded(f)
    PROVE  LocalDependencies(Expanded(f), base, k) \subseteq 1..(base + k - 1)
<1> DEFINE S == Expanded(f)
<1>1. DOMAIN S = 1..Len(S) /\ Len(S) \in Nat
  BY SlotsAreTyped
<1>2. LocalDependencies(S, base, k)
        = {base + j : j \in UNION {Matching(SamePart(S, k, d), WithId(S, d)) : d \in S[k].needs}}
  BY DEF LocalDependencies, SamePart, WithId
<1>3. ASSUME NEW d \in S[k].needs, NEW j \in Matching(SamePart(S, k, d), WithId(S, d))
      PROVE  base + j \in 1..(base + k - 1)
  <2>1. j \in 1..(k - 1)
    BY LocalsBefore
  <2> QED
    BY <2>1, <1>1
<1> QED
  BY <1>2, <1>3

\* A new uop is well-formed, and all its edges lead to uops before it.
LEMMA BoundIsTyped ==
    ASSUME BinderInv, NEW i, i.form \in self.forms, Refusal(i.form) = "none",
           RecordedWithin(i, Len(trace)), NEW k \in DOMAIN Expanded(i.form)
    PROVE  LET b == Bound(i, Expanded(i.form), Len(uops), k)
           IN  b \in UopType /\ b.dependencies \subseteq 1..(Len(uops) + k - 1)
               /\ b.after < Len(uops) + k /\ b.parent = Len(trace) + 1
<1> DEFINE f == i.form
           S == Expanded(f)
           slot == S[k]
           base == Len(uops)
           b == Bound(i, S, base, k)
           state == Results(StateProducers(i, slot), slot.part)
           old == Results(OldProducers(i, slot), slot.part)
           local == LocalDependencies(S, base, k)
           external == Results(External(i, slot), slot.part)
<1>1. self \in Profiles /\ base \in Nat /\ Len(trace) \in Nat
  BY Lengths DEF BinderInv
<1>2. DOMAIN S = 1..Len(S) /\ Len(S) \in Nat /\ SlotType(slot) /\ FormType(f)
      /\ k \in 1..Len(S)
  BY <1>1, SlotsAreTyped, ProfilesAssumption DEF SelfType
<1>3. state \subseteq 1..base /\ old \subseteq 1..base /\ external \subseteq 1..base
  <2>1. f.address \subseteq f.reads
    BY <1>2 DEF FormType
  <2>2. /\ External(i, slot) \subseteq 1..Len(trace) /\ StateProducers(i, slot) \subseteq 1..Len(trace)
        /\ OldProducers(i, slot) \subseteq 1..Len(trace)
    BY <1>1, <2>1, AwaitedWithin
  <2> QED
    BY <2>2, ResultsWithin
<1>4. local \subseteq 1..(base + k - 1)
  BY <1>1, LocalsWithin
<1>5. IssueAfter(i, S, base, k) \in 0..(base + k - 1)
  BY <1>1, AfterIsBefore
<1> DEFINE moved == IF MovesMemory(f, slot) THEN Share(f, slot) ELSE [start |-> 0, bytes |-> 0]
           after == IssueAfter(i, S, base, k)
           completes == slot.prep \/ (Terminal(S, k) /\ f.writes \cap VectorRegisters # {})
           reads == ReadsVector(f, slot)
           deps == local \cup external \cup state \cup old
<1>6. moved \in [start : Nat, bytes : Nat]
  BY <1>1, SharesAreTyped
<1>7. b = [parent |-> Len(trace) + 1, kind |-> slot.kind, part |-> slot.part,
           count |-> slot.count, dependencies |-> deps, state |-> state, old |-> old,
           after |-> after, completes |-> completes, reads |-> reads, memory |-> moved]
  BY DEF Bound
<1>8. reads \in BOOLEAN /\ completes \in BOOLEAN
  BY <1>2 DEF ReadsVector, SlotType
<1> HIDE DEF b, S, state, old, local, external, moved, after, completes, reads, f, slot, base
<1>9. deps \subseteq 1..(base + k - 1) /\ k \in Nat
  <2>1. k \in Nat \ {0}
    BY <1>2
  <2>2. 1..base \subseteq 1..(base + k - 1)
    BY <1>1, <2>1
  <2> QED
    BY <2>1, <2>2, <1>3, <1>4
<1>10. b \in UopType
  <2>1. slot.kind \in STRING /\ slot.part \in Int /\ slot.count \in Nat
    BY <1>2 DEF SlotType, NoPart
  <2>2. deps \in SUBSET Nat /\ state \in SUBSET Nat /\ old \in SUBSET Nat /\ after \in Nat
    BY <1>3, <1>5, <1>9, <1>1 DEF after
  <2>3. Len(trace) + 1 \in Nat
    BY <1>1
  <2> HIDE DEF deps
  <2> QED
    BY <1>6, <1>7, <1>8, <2>1, <2>2, <2>3 DEF UopType
<1>11. b.dependencies = deps /\ b.after = after /\ b.parent = Len(trace) + 1
  BY <1>7
<1> QED
  BY <1>1, <1>5, <1>9, <1>10, <1>11 DEF b, base, after, f, S

\* What a step that binds an instruction changes: one instruction more, with its
\* uops and its results, and all before it stays.
Binds(f, i) ==
    LET S == Expanded(f)
        base == Len(uops)
        n == Len(trace) + 1
    IN  /\ i.form = f /\ RecordedWithin(i, Len(trace))
        /\ i.stores # {} => f.memory
        /\ i.flags # {} => f.flags
        /\ Len(trace') = n /\ trace'[n] = i /\ DOMAIN trace' = 1..n
        /\ \A k \in 1..Len(trace) : trace'[k] = trace[k]
        /\ Len(uops') = base + Len(S) /\ DOMAIN uops' = 1..(base + Len(S))
        /\ \A u \in 1..base : uops'[u] = uops[u]
        /\ \A k \in 1..Len(S) : uops'[base + k] = Bound(i, S, base, k)
        /\ Len(results') = n /\ DOMAIN results' = 1..n
        /\ \A p \in 1..Len(trace) : results'[p] = results[p]
        /\ results'[n] = {base + k : k \in {k \in DOMAIN S : Terminal(S, k)}}
        /\ \E X : trace' \in Seq(X)
        /\ uops' \in Seq(UopType)
        /\ results' \in Seq((SUBSET (1..Len(uops'))) \ {{}})
        /\ self' = self /\ error' = error
        /\ writer' \in [Registers -> 0..n]

\* A concatenation has the elements of its parts in their places.
LEMMA ConcatFacts ==
    ASSUME NEW X, NEW s \in Seq(X), NEW t \in Seq(X)
    PROVE  /\ s \o t \in Seq(X) /\ Len(s \o t) = Len(s) + Len(t)
           /\ \A u \in 1..Len(s) : (s \o t)[u] = s[u]
           /\ \A k \in 1..Len(t) : (s \o t)[Len(s) + k] = t[k]
OBVIOUS

\* Bind is such a step, for the instruction the front end records.
LEMMA BindBinds ==
    ASSUME BinderInv, NEW f \in self.forms, Bind(f)
    PROVE  Refusal(f) = "none" /\ \E i : Binds(f, i)
<1> DEFINE S == Expanded(f)
           N == Len(S)
           base == Len(uops)
           L == Len(trace)
<1>1. Refusal(f) = "none" /\ self \in Profiles
  BY DEF Bind, BinderInv
<1>2. PICK stores \in (IF f.memory THEN SUBSET Stores ELSE {{}}) :
        LET i == Instruction(f, stores)
        IN  /\ trace' = Append(trace, i)
            /\ uops' = uops \o [k \in DOMAIN S |-> Bound(i, S, base, k)]
            /\ results' = Append(results, {base + k : k \in {k \in DOMAIN S : Terminal(S, k)}})
  BY DEF Bind
<1> DEFINE i == Instruction(f, stores)
           more == [k \in DOMAIN S |-> Bound(i, S, base, k)]
           ends == {base + k : k \in {k \in DOMAIN S : Terminal(S, k)}}
<1>3. /\ N \in Nat \ {0} /\ DOMAIN S = 1..N /\ FormType(f)
      /\ L \in Nat /\ base \in Nat /\ Len(results) = L
  BY <1>1, SlotsAreTyped, Lengths, ProfilesAssumption DEF SelfType
<1>4. i.form = f
  BY DEF Instruction
<1>5. i.stores \subseteq 1..L /\ (i.stores # {} => f.memory)
  <2>1. i.stores = stores /\ stores \subseteq Stores /\ (stores # {} => f.memory)
    BY DEF Instruction
  <2>2. Stores \subseteq 1..L
    BY Lengths DEF Stores
  <2> QED
    BY <2>1, <2>2
<1>6. writer \in [Registers -> 0..L]
  BY DEF BinderInv, TypeOK
<1>7. i.flags \subseteq 1..L /\ (i.flags # {} => f.flags)
  <2>1. i.flags = IF f.flags /\ writer["flags"] # 0 THEN {writer["flags"]} ELSE {}
    BY DEF Instruction
  <2>2. f.flags => writer["flags"] \in 0..L
    BY <1>3, <1>6 DEF FormType
  <2> QED
    BY <2>1, <2>2
<1>8. RecordedWithin(i, L)
  <2>1. f.reads \subseteq Registers /\ f.writes \subseteq Registers
    BY <1>3 DEF FormType
  <2>2. /\ i.dependencies = [r \in f.reads |-> writer[r]]
        /\ i.old = [r \in f.writes |-> writer[r]]
    BY DEF Instruction
  <2> HIDE DEF i
  <2>3. \A r \in f.reads : i.dependencies[r] \in 0..L
    BY <2>1, <2>2, <1>6
  <2>4. \A r \in f.writes : i.old[r] \in 0..L
    BY <2>1, <2>2, <1>6
  <2> QED
    BY <2>3, <2>4, <1>4, <1>5, <1>7 DEF RecordedWithin
<1> HIDE DEF i
<1>9. trace' = Append(trace, i) /\ uops' = uops \o more /\ results' = Append(results, ends)
  BY <1>2 DEF i
<1> HIDE DEF ends
<1>10. more \in Seq(UopType) /\ Len(more) = N /\ \A k \in 1..N : more[k] = Bound(i, S, base, k)
  <2>1. \A k \in 1..N : Bound(i, S, base, k) \in UopType
    BY <1>1, <1>3, <1>4, <1>8, BoundIsTyped
  <2>2. more \in [1..N -> UopType] /\ \A k \in 1..N : more[k] = Bound(i, S, base, k)
    BY <1>3, <2>1
  <2> HIDE DEF more, S, N
  <2> QED
    BY <2>2, <1>3
<1> HIDE DEF more
<1>11. /\ uops' \in Seq(UopType) /\ Len(uops') = base + N /\ DOMAIN uops' = 1..(base + N)
       /\ \A u \in 1..base : uops'[u] = uops[u]
       /\ \A k \in 1..N : uops'[base + k] = Bound(i, S, base, k)
  <2> HIDE DEF S, N
  <2>1. uops \in Seq(UopType)
    BY DEF BinderInv, TypeOK
  <2>2. more \in Seq(UopType)
    BY <1>10
  <2>3. /\ uops \o more \in Seq(UopType) /\ Len(uops \o more) = Len(uops) + Len(more)
        /\ \A u \in 1..Len(uops) : (uops \o more)[u] = uops[u]
        /\ \A k \in 1..Len(more) : (uops \o more)[Len(uops) + k] = more[k]
    BY ONLY <2>1, <2>2, ConcatFacts
  <2>4. uops' = uops \o more /\ Len(more) = N
    BY <1>9, <1>10
  <2> HIDE DEF base
  <2>5. /\ uops' \in Seq(UopType) /\ Len(uops') = base + N
        /\ \A u \in 1..base : uops'[u] = uops[u]
    BY ONLY <2>3, <2>4 DEF base
  <2>6. \A k \in 1..N : uops'[base + k] = more[k]
    BY ONLY <2>3, <2>4 DEF base
  <2>7. DOMAIN uops' = 1..(base + N)
    BY ONLY <2>5
  <2> QED
    BY <2>5, <2>6, <2>7, <1>10
<1>12. /\ Len(trace') = L + 1 /\ trace'[L + 1] = i /\ DOMAIN trace' = 1..(L + 1)
       /\ \A k \in 1..L : trace'[k] = trace[k]
       /\ \E X : trace' \in Seq(X)
  <2>1. PICK X : trace \in Seq(X)
    BY DEF BinderInv, TraceInv
  <2>2. trace \in Seq(X \cup {i})
    BY <2>1
  <2>3. trace' \in Seq(X \cup {i})
    BY <2>2, <1>9
  <2> QED
    BY <2>2, <2>3, <1>9
<1>13. ends \in (SUBSET (1..Len(uops'))) \ {{}}
  <2>1. Terminal(S, N)
    BY <1>1, LastIsTerminal
  <2>2. base + N \in ends
    BY <2>1, <1>3 DEF ends
  <2>3. ends \subseteq 1..(base + N)
    BY <1>3 DEF ends
  <2> QED
    BY <2>2, <2>3, <1>11
<1>14. /\ results' \in Seq((SUBSET (1..Len(uops'))) \ {{}}) /\ Len(results') = L + 1
       /\ DOMAIN results' = 1..(L + 1) /\ results'[L + 1] = ends
       /\ \A p \in 1..L : results'[p] = results[p]
  <2> DEFINE Y == (SUBSET (1..Len(uops'))) \ {{}}
             Z == (SUBSET (1..base)) \ {{}}
  <2>1. results \in Seq(Z)
    BY DEF BinderInv, TypeOK
  <2>2. Z \subseteq Y
    BY <1>3, <1>11
  <2>3. ends \in Y
    BY <1>13
  <2> HIDE DEF Y, Z
  <2>4. results \in Seq(Y)
    BY <2>1, <2>2
  <2>5. results' \in Seq(Y)
    BY <2>3, <2>4, <1>9
  <2>6. /\ Len(results') = L + 1 /\ DOMAIN results' = 1..(L + 1) /\ results'[L + 1] = ends
        /\ \A p \in 1..L : results'[p] = results[p]
    BY <2>4, <1>3, <1>9
  <2> QED
    BY <2>5, <2>6 DEF Y
<1>15. self' = self /\ error' = error /\ writer' \in [Registers -> 0..(L + 1)]
  <2>1. /\ self' = self /\ error' = error
        /\ writer' = [r \in Registers |-> IF r \in f.writes THEN L + 1 ELSE writer[r]]
    BY DEF Bind
  <2> QED
    BY <2>1, <1>3, <1>6
<1>16. Binds(f, i)
  BY <1>4, <1>5, <1>7, <1>8, <1>11, <1>12, <1>14, <1>15 DEF Binds, ends
<1> QED
  BY <1>1, <1>16

-----------------------------------------------------------------------------
(* The invariant, and what it says without any condition on the profile.    *)

\* Nothing is bound at first.
LEMMA InitBinder ==
    ASSUME Init
    PROVE  BinderInv /\ OldDestinationAwaited /\ StateReachesEveryPart
<1>1. trace = <<>> /\ uops = <<>> /\ results = <<>> /\ self \in Profiles
  BY DEF Init
<1>2. Len(<<>>) = 0 /\ DOMAIN <<>> = {} /\ \A X : <<>> \in Seq(X)
  OBVIOUS
<1>3. TraceInv /\ ParentInv
  BY <1>1, <1>2 DEF TraceInv, ParentInv
<1>4. writer \in [Registers -> 0..0] /\ error = "none"
  BY DEF Init
<1>5. TypeOK
  BY <1>1, <1>2, <1>4 DEF TypeOK
<1>6. DependenciesBackward /\ OldDestinationAwaited /\ StateReachesEveryPart
  BY <1>1, <1>2 DEF DependenciesBackward, OldDestinationAwaited, StateReachesEveryPart
<1> QED
  BY <1>1, <1>3, <1>5, <1>6 DEF BinderInv

\* Binding keeps the state well-formed and its edges backward.
LEMMA StepBinder ==
    ASSUME BinderInv, [Next]_vars
    PROVE  BinderInv'
<1>1. CASE UNCHANGED vars
  BY <1>1 DEF BinderInv, TraceInv, ParentInv, TypeOK, DependenciesBackward, vars, RecordedWithin
<1>2. ASSUME NEW f \in self.forms, Bind(f) PROVE BinderInv'
  <2>1. Refusal(f) = "none"
    BY <1>2, BindBinds
  <2>2. PICK i : Binds(f, i)
    BY <1>2, BindBinds
  <2> DEFINE S == Expanded(f)
             N == Len(S)
             base == Len(uops)
             L == Len(trace)
  <2>3. /\ i.form = f /\ RecordedWithin(i, L) /\ Len(trace') = L + 1 /\ trace'[L + 1] = i
        /\ \A k \in 1..L : trace'[k] = trace[k]
        /\ Len(uops') = base + N /\ DOMAIN uops' = 1..(base + N)
        /\ \A u \in 1..base : uops'[u] = uops[u]
        /\ \A k \in 1..N : uops'[base + k] = Bound(i, S, base, k)
    BY <2>2 DEF Binds
  <2>4. /\ N \in Nat \ {0} /\ DOMAIN S = 1..N /\ L \in Nat /\ base \in Nat
        /\ DOMAIN uops = 1..base
    BY <2>1, SlotsAreTyped, Lengths DEF BinderInv
  <2>5. \A k \in 1..N :
          /\ Bound(i, S, base, k).dependencies \subseteq 1..(base + k - 1)
          /\ Bound(i, S, base, k).after < base + k /\ Bound(i, S, base, k).parent = L + 1
    <3>1. \A k \in DOMAIN Expanded(i.form) :
            LET b == Bound(i, Expanded(i.form), base, k)
            IN  b.dependencies \subseteq 1..(base + k - 1) /\ b.after < base + k /\ b.parent = L + 1
      BY <2>1, <2>3, BoundIsTyped
    <3> QED
      BY <2>3, <2>4, <3>1
  <2> HIDE DEF S, N
  \* A uop of the new trace is an old one, or one of the instruction.
  <2>6. ASSUME NEW u \in 1..(base + N)
        PROVE  u \in 1..base \/ \E k \in 1..N : u = base + k
    <3>1. CASE u > base
      <4>1. u - base \in 1..N /\ u = base + (u - base)
        BY <3>1, <2>4
      <4> QED
        BY <4>1
    <3> QED
      BY <3>1, <2>4
  <2>7. TraceInv'
    <3>1. ASSUME NEW k \in 1..(L + 1) PROVE RecordedWithin(trace'[k], k - 1)
      <4>1. CASE k = L + 1
        <5>1. k - 1 = L
          BY <4>1, <2>4
        <5> QED
          BY <4>1, <5>1, <2>3
      <4>2. CASE k \in 1..L
        BY <4>2, <2>3 DEF BinderInv, TraceInv
      <4> QED
        BY <4>1, <4>2, <2>4
    <3>2. \E X : trace' \in Seq(X)
      BY <2>2 DEF Binds
    <3>3. \A k \in 1..Len(trace') : RecordedWithin(trace'[k], k - 1)
      BY <3>1, <2>3
    <3> QED
      BY <3>2, <3>3 DEF TraceInv, RecordedWithin
  <2>8. ParentInv'
    <3>1. \A u \in 1..base : uops[u].parent \in 1..L
      BY DEF BinderInv, ParentInv
    <3>2. ASSUME NEW u \in 1..(base + N) PROVE uops'[u].parent \in 1..(L + 1)
      <4>1. CASE u \in 1..base
        BY <4>1, <3>1, <2>3, <2>4
      <4>2. CASE u \notin 1..base
        <5>1. PICK k \in 1..N : u = base + k
          BY <4>2, <2>6
        <5>2. uops'[u].parent = L + 1
          BY <5>1, <2>3, <2>5
        <5> QED
          BY <5>2, <2>4
      <4> QED
        BY <4>1, <4>2
    <3> QED
      BY <3>2, <2>3 DEF ParentInv
  <2>9. TypeOK'
    <3>1. error' = error /\ error \in {"none", "missing recipe", "semantic mapping", "no prep uop", "empty part"}
      BY <2>2 DEF Binds, BinderInv, TypeOK
    <3> QED
      BY <2>2, <3>1 DEF TypeOK, Binds
  <2>10. DependenciesBackward'
    <3>1. ASSUME NEW u \in 1..(base + N)
          PROVE  uops'[u].dependencies \subseteq 1..(u - 1) /\ uops'[u].after < u
      <4>1. CASE u \in 1..base
        BY <4>1, <2>3, <2>4 DEF BinderInv, DependenciesBackward
      <4>2. CASE u \notin 1..base
        <5>1. PICK k \in 1..N : u = base + k
          BY <4>2, <2>6
        <5> QED
          BY <5>1, <2>3, <2>5
      <4> QED
        BY <4>1, <4>2
    <3> QED
      BY <3>1, <2>3 DEF DependenciesBackward
  <2>11. self' \in Profiles
    BY <2>2 DEF Binds, BinderInv
  <2> QED
    BY <2>7, <2>8, <2>9, <2>10, <2>11 DEF BinderInv
<1>3. ASSUME NEW f \in self.forms, Reject(f) PROVE BinderInv'
  <2>1. UNCHANGED <<self, trace, uops, results, writer>>
    BY <1>3 DEF Reject
  <2>2. error' \in {"none", "missing recipe", "semantic mapping", "no prep uop", "empty part"}
    BY <1>3 DEF Reject, Refusal
  <2> QED
    BY <2>1, <2>2 DEF BinderInv, TraceInv, ParentInv, TypeOK, DependenciesBackward, RecordedWithin
<1> QED
  BY <1>1, <1>2, <1>3 DEF Next, Stopped

\* The fields of a new uop, and the edges it has at least.
LEMMA BoundFields ==
    ASSUME NEW i, NEW slots, NEW base, NEW k
    PROVE  LET b == Bound(i, slots, base, k)
               slot == slots[k]
           IN  /\ b.kind = slot.kind /\ b.part = slot.part /\ b.parent = Len(trace) + 1
               /\ b.memory = IF MovesMemory(i.form, slot) THEN Share(i.form, slot)
                             ELSE [start |-> 0, bytes |-> 0]
               /\ Results(External(i, slot), slot.part) \subseteq b.dependencies
               /\ Results(StateProducers(i, slot), slot.part) \subseteq b.dependencies
               /\ Results(OldProducers(i, slot), slot.part) \subseteq b.dependencies
BY DEF Bound

\* Who waits for an instruction waits for one of its results at least.
LEMMA ResultIsAwaited ==
    ASSUME NEW producers, NEW p \in producers, results[p] # {}, NEW part
    PROVE  \E d \in results[p] : d \in Results(producers, part)
<1> DEFINE same == {u \in results[p] : part # NoPart /\ uops[u].part = part}
<1>1. PICK d : d \in Matching(same, results[p])
  BY DEF Matching
<1>2. d \in results[p]
  BY <1>1 DEF Matching
<1>3. d \in Results(producers, part)
  BY <1>1 DEF Results
<1> QED
  BY <1>2, <1>3

\* The uops of the trace after an instruction has been bound.
LEMMA BoundUops ==
    ASSUME BinderInv, NEW f \in self.forms, Refusal(f) = "none", NEW i, Binds(f, i),
           NEW u \in DOMAIN uops'
    PROVE  \/ /\ u \in DOMAIN uops /\ uops'[u] = uops[u]
              /\ uops[u].parent \in 1..Len(trace) /\ trace'[uops[u].parent] = trace[uops[u].parent]
           \/ \E k \in DOMAIN Expanded(f) :
                /\ u = Len(uops) + k /\ uops'[u] = Bound(i, Expanded(f), Len(uops), k)
                /\ uops'[u].parent = Len(trace) + 1 /\ trace'[uops'[u].parent] = i
<1> DEFINE S == Expanded(f)
           N == Len(S)
           base == Len(uops)
           L == Len(trace)
<1>1. /\ trace'[L + 1] = i /\ \A k \in 1..L : trace'[k] = trace[k]
      /\ DOMAIN uops' = 1..(base + N)
      /\ \A m \in 1..base : uops'[m] = uops[m]
      /\ \A k \in 1..N : uops'[base + k] = Bound(i, S, base, k)
  BY DEF Binds
<1>2. /\ N \in Nat \ {0} /\ DOMAIN S = 1..N /\ L \in Nat /\ base \in Nat
      /\ DOMAIN uops = 1..base
  BY SlotsAreTyped, Lengths DEF BinderInv
<1> HIDE DEF S, N
<1>3. CASE u \in 1..base
  BY <1>1, <1>2, <1>3 DEF BinderInv, ParentInv
<1>4. CASE u \notin 1..base
  <2>1. u - base \in 1..N /\ u = base + (u - base)
    BY <1>1, <1>2, <1>4
  <2>2. PICK k \in 1..N : u = base + k
    BY <2>1
  <2>3. uops'[u] = Bound(i, S, base, k)
    BY <2>2, <1>1
  <2>4. uops'[u].parent = L + 1
    BY <2>3, BoundFields
  <2> QED
    BY <2>2, <2>3, <2>4, <1>1, <1>2 DEF S
<1> QED
  BY <1>3, <1>4

\* A uop that merges waits for what it merges into.
LEMMA StepOld ==
    ASSUME BinderInv, OldDestinationAwaited, NEW f \in self.forms, Refusal(f) = "none",
           NEW i, Binds(f, i)
    PROVE  OldDestinationAwaited'
<1> DEFINE L == Len(trace)
<1>1. /\ self' = self /\ i.form = f /\ RecordedWithin(i, L) /\ L \in Nat
      /\ \A p \in 1..L : results'[p] = results[p] /\ results[p] # {}
  BY Lengths DEF Binds
<1>2. ASSUME NEW u \in DOMAIN uops',
             uops'[u].kind \in self.implicitKinds \cap self.oldKinds, uops'[u].part # NoPart,
             trace'[uops'[u].parent].form.marks,
             NEW r \in trace'[uops'[u].parent].form.writes \cap VectorRegisters,
             trace'[uops'[u].parent].old[r] # 0
      PROVE  \E d \in results'[trace'[uops'[u].parent].old[r]] : d \in uops'[u].dependencies
  <2>1. CASE u \in DOMAIN uops /\ uops'[u] = uops[u] /\ uops[u].parent \in 1..L
             /\ trace'[uops[u].parent] = trace[uops[u].parent]
    <3> DEFINE k == uops[u].parent
    <3>1. trace[k].old[r] \in 0..(k - 1)
      BY <2>1, <1>2 DEF BinderInv, TraceInv, RecordedWithin
    <3>2. trace[k].old[r] \in 1..L
      BY <3>1, <2>1, <1>1, <1>2
    <3>3. \E d \in results[trace[k].old[r]] : d \in uops[u].dependencies
      BY <2>1, <1>2 DEF OldDestinationAwaited, ImplicitKinds, OldKinds
    <3> QED
      BY <3>2, <3>3, <2>1, <1>1
  <2>2. ASSUME NEW k \in DOMAIN Expanded(f), u = Len(uops) + k,
               uops'[u] = Bound(i, Expanded(f), Len(uops), k), uops'[u].parent = L + 1,
               trace'[uops'[u].parent] = i
        PROVE  \E d \in results'[i.old[r]] : d \in uops'[u].dependencies
    <3> DEFINE slot == Expanded(f)[k]
    <3>1. /\ uops'[u].kind = slot.kind /\ uops'[u].part = slot.part
          /\ Results(OldProducers(i, slot), slot.part) \subseteq uops'[u].dependencies
      BY <2>2, BoundFields
    <3>2. SlotType(slot)
      BY SlotsAreTyped DEF BinderInv
    <3>3. r \in f.writes \cap VectorRegisters /\ f.marks /\ i.old[r] # 0
      BY <1>1, <1>2, <2>2
    <3>4. ~slot.prep
      BY <3>1, <3>2, <1>2 DEF SlotType
    <3>5. i.old[r] \in OldProducers(i, slot)
      BY <3>1, <3>3, <3>4, <1>1, <1>2
      DEF OldProducers, ReadsOld, OldRegisters, ImplicitKinds, OldKinds
    <3>6. i.old[r] \in 1..L
      BY <3>3, <1>1 DEF RecordedWithin
    <3> QED
      BY <3>1, <3>5, <3>6, <1>1, ResultIsAwaited
  <2> QED
    BY <2>1, <2>2, BoundUops
<1> QED
  BY <1>1, <1>2 DEF OldDestinationAwaited, ImplicitKinds, OldKinds

\* Each part waits for the vector state.
LEMMA StepState ==
    ASSUME BinderInv, StateReachesEveryPart, NEW f \in self.forms, Refusal(f) = "none",
           NEW i, Binds(f, i)
    PROVE  StateReachesEveryPart'
<1> DEFINE L == Len(trace)
<1>1. /\ self' = self /\ i.form = f /\ RecordedWithin(i, L) /\ L \in Nat
      /\ \A p \in 1..L : results'[p] = results[p] /\ results[p] # {}
  BY Lengths DEF Binds
<1>2. ASSUME NEW u \in DOMAIN uops', uops'[u].kind \in self.stateKinds, uops'[u].part # NoPart,
             NEW p \in Producers(trace'[uops'[u].parent], StateRegisters)
      PROVE  results'[p] \cap uops'[u].dependencies # {}
  <2>1. CASE u \in DOMAIN uops /\ uops'[u] = uops[u] /\ uops[u].parent \in 1..L
             /\ trace'[uops[u].parent] = trace[uops[u].parent]
    <3> DEFINE k == uops[u].parent
    <3>1. RecordedWithin(trace[k], k - 1) /\ k - 1 \in Nat
      BY <2>1 DEF BinderInv, TraceInv
    <3>2. p \in Producers(trace[k], StateRegisters)
      BY <2>1, <1>2
    <3>3. p \in 1..(k - 1)
      BY <3>1, <3>2, ProducersWithin
    <3>4. p \in 1..L
      BY <3>3, <2>1, <1>1
    <3>5. results[p] \cap uops[u].dependencies # {}
      BY <3>2, <2>1, <1>2 DEF StateReachesEveryPart, StateKinds
    <3> QED
      BY <3>4, <3>5, <2>1, <1>1
  <2>2. ASSUME NEW k \in DOMAIN Expanded(f), u = Len(uops) + k,
               uops'[u] = Bound(i, Expanded(f), Len(uops), k), uops'[u].parent = L + 1,
               trace'[uops'[u].parent] = i
        PROVE  results'[p] \cap uops'[u].dependencies # {}
    <3> DEFINE slot == Expanded(f)[k]
    <3>1. /\ uops'[u].kind = slot.kind /\ uops'[u].part = slot.part
          /\ Results(StateProducers(i, slot), slot.part) \subseteq uops'[u].dependencies
      BY <2>2, BoundFields
    <3>2. SlotType(slot)
      BY SlotsAreTyped DEF BinderInv
    <3>3. p \in Producers(i, StateRegisters)
      BY <1>2, <2>2
    <3>4. p \in StateProducers(i, slot)
      BY <3>1, <3>2, <3>3, <1>2 DEF StateProducers, StateKinds, SlotType
    <3>5. p \in 1..L
      BY <3>3, <1>1, ProducersWithin
    <3>6. \E d \in results[p] : d \in Results(StateProducers(i, slot), slot.part)
      BY <3>4, <3>5, <1>1, ResultIsAwaited
    <3> QED
      BY <3>1, <3>5, <3>6, <1>1
  <2> QED
    BY <2>1, <2>2, BoundUops
<1> QED
  BY <1>1, <1>2 DEF StateReachesEveryPart, StateKinds, Producers

\* Whatever the profile, the state of bind is well-typed, no edge leads forward,
\* and the vector state and the old destination reach every part.
BaseInv == BinderInv /\ OldDestinationAwaited /\ StateReachesEveryPart

LEMMA StepBase == BaseInv /\ [Next]_vars => BaseInv'
<1> SUFFICES ASSUME BaseInv, [Next]_vars PROVE BaseInv'
  OBVIOUS
<1>1. BinderInv'
  BY StepBinder DEF BaseInv
<1>2. CASE UNCHANGED <<self, trace, uops, results, writer>>
  BY <1>1, <1>2 DEF BaseInv, OldDestinationAwaited, StateReachesEveryPart, ImplicitKinds,
     OldKinds, StateKinds, Producers
<1>3. ASSUME NEW f \in self.forms, Bind(f) PROVE BaseInv'
  <2>1. Refusal(f) = "none" /\ \E i : Binds(f, i)
    BY <1>3, BindBinds DEF BaseInv
  <2> QED
    BY <2>1, <1>1, StepOld, StepState DEF BaseInv
<1> QED
  BY <1>2, <1>3 DEF Next, Reject, Stopped, vars

\* Under every profile bind makes well-formed uops whose edges lead backward, so
\* that the event loops get a trace without a cycle; a merging uop waits for the
\* old value of its destination, and every part for the vector state.
THEOREM BindsBackward ==
    Spec => [](TypeOK /\ DependenciesBackward /\ OldDestinationAwaited /\ StateReachesEveryPart)
<1>1. Init => BaseInv
  BY InitBinder DEF BaseInv
<1>2. BaseInv => TypeOK /\ DependenciesBackward /\ OldDestinationAwaited /\ StateReachesEveryPart
  BY DEF BaseInv, BinderInv
<1> QED
  BY <1>1, <1>2, StepBase, PTL DEF Spec

-----------------------------------------------------------------------------
(* What bind does of an instruction depends on nothing but the profile.     *)

\* A step that keeps the profile keeps its verdicts and expansions.
LEMMA SelfDecides ==
    ASSUME self' = self, NEW f
    PROVE  Refusal(f)' = Refusal(f) /\ Expanded(f)' = Expanded(f) /\ Dynamic(f)' = Dynamic(f)
           /\ (Serves(f)' <=> Serves(f))
<1>1. Rules' = Rules /\ StateKinds' = StateKinds
  BY DEF Rules, StateKinds
<1>2. Dynamic(f)' = Dynamic(f) /\ Rule(f)' = Rule(f)
  BY <1>1 DEF Dynamic, Rule
<1>3. NeedsPrep(f)' = NeedsPrep(f) /\ PartCount(f)' = PartCount(f)
      /\ PrepSources(f)' = PrepSources(f)
  BY <1>2 DEF NeedsPrep, PartCount, PrepSources
<1>4. PrepClass(f)' = PrepClass(f)
  BY <1>3 DEF PrepClass
<1>5. PrepRegisters(f)' = PrepRegisters(f) /\ PrepMissing(f)' = PrepMissing(f)
  BY <1>2, <1>3, <1>4 DEF PrepRegisters, PrepMissing
<1>6. PrepSlot(f)' = PrepSlot(f)
  BY <1>2, <1>4, <1>5 DEF PrepSlot
<1>7. \A j : PartSlot(f, j)' = PartSlot(f, j)
  BY <1>3, <1>6 DEF PartSlot
<1>8. Expanded(f)' = Expanded(f)
  <2> DEFINE n == Len(RecipeOf(f).uops)
             parts == [j \in 1..(PartCount(f) * n) |-> PartSlot(f, j)]
             static == [k \in DOMAIN RecipeOf(f).uops |->
                Slot(RecipeOf(f).uops[k], k, RecipeOf(f).uops[k].part,
                     IF RecipeOf(f).uops[k].part = NoPart THEN 0 ELSE RecipeOf(f).parts)]
  <2>1. parts' = parts
    BY <1>3, <1>7
  <2>2. Expanded(f) = IF ~Dynamic(f) THEN static
                      ELSE IF NeedsPrep(f) THEN <<PrepSlot(f)>> \o parts ELSE parts
    BY DEF Expanded
  <2>3. Expanded(f)' = IF ~Dynamic(f)' THEN static
                       ELSE IF NeedsPrep(f)' THEN <<PrepSlot(f)'>> \o parts' ELSE parts'
    BY DEF Expanded
  <2> HIDE DEF parts, static
  <2> QED
    BY <2>1, <2>2, <2>3, <1>2, <1>3, <1>6
<1>9. \A slot : Share(f, slot)' = Share(f, slot)
  BY <1>2 DEF Share
<1>10. EmptyPart(f)' = EmptyPart(f)
  BY <1>2, <1>8, <1>9 DEF EmptyPart
<1>11. HasRecipe(f)' = HasRecipe(f)
  BY DEF HasRecipe
<1>12. Refusal(f)' = Refusal(f)
  BY <1>5, <1>10, <1>11 DEF Refusal
<1>13. \A slot, r : WaitsFor(f, slot, r)' <=> WaitsFor(f, slot, r)
  BY <1>1 DEF WaitsFor
<1>14. MovesOnce(f)' <=> MovesOnce(f)
  BY <1>2, <1>3, <1>6, <1>8 DEF MovesOnce
<1>15. Serves(f)' <=> Serves(f)
  BY <1>8, <1>13, <1>14 DEF Serves
<1> QED
  BY <1>2, <1>8, <1>12, <1>15

-----------------------------------------------------------------------------
(* What it says of a profile that provides for its instructions.            *)

\* The results of an instruction have parts all or none.
UniformResults ==
    \A p \in 1..Len(results) : \A u, w \in results[p] :
        uops[u].part = NoPart => uops[w].part = NoPart

\* Binding an instruction changes nothing of those before it.
LEMMA OldInstructions ==
    ASSUME BinderInv, NEW f \in self.forms, Refusal(f) = "none", NEW i, Binds(f, i),
           NEW k \in 1..Len(trace)
    PROVE  /\ UopsOf(k)' = UopsOf(k) /\ \A u \in UopsOf(k) : uops'[u] = uops[u]
           /\ AwaitedBy(k)' = AwaitedBy(k) /\ PartsOf(k)' = PartsOf(k) /\ trace'[k] = trace[k]
<1>1. Len(trace) \in Nat /\ DOMAIN uops \subseteq DOMAIN uops'
  <2>1. Len(Expanded(f)) \in Nat
    BY SlotsAreTyped DEF BinderInv
  <2> QED
    BY <2>1, Lengths DEF Binds
<1>2. UopsOf(k)' = UopsOf(k)
  <2>1. ASSUME NEW u \in DOMAIN uops', uops'[u].parent = k
        PROVE  u \in DOMAIN uops /\ uops[u].parent = k
    <3>1. k # Len(trace) + 1
      BY <1>1
    <3> QED
      BY <2>1, <3>1, BoundUops
  <2>2. ASSUME NEW u \in DOMAIN uops PROVE uops'[u] = uops[u]
    BY Lengths DEF Binds
  <2> QED
    BY <1>1, <2>1, <2>2 DEF UopsOf
<1>3. \A u \in UopsOf(k) : uops'[u] = uops[u]
  BY Lengths DEF Binds, UopsOf
<1>4. AwaitedBy(k)' = AwaitedBy(k) /\ PartsOf(k)' = PartsOf(k)
  BY <1>2, <1>3 DEF AwaitedBy, PartsOf
<1>5. trace'[k] = trace[k]
  BY DEF Binds
<1> QED
  BY <1>2, <1>3, <1>4, <1>5

\* The uops of the instruction that a step binds, and their parts.
LEMMA NewInstruction ==
    ASSUME BinderInv, NEW f \in self.forms, Refusal(f) = "none", NEW i, Binds(f, i),
           NEW n, n = Len(trace) + 1
    PROVE  /\ UopsOf(n)' = {Len(uops) + j : j \in DOMAIN Expanded(f)}
           /\ \A j \in DOMAIN Expanded(f) :
                uops'[Len(uops) + j] = Bound(i, Expanded(f), Len(uops), j)
           /\ PartsOf(n)' = {Expanded(f)[j].part : j \in DOMAIN Expanded(f)} \ {NoPart}
           /\ trace'[n] = i
<1> DEFINE S == Expanded(f)
           N == Len(S)
           base == Len(uops)
           L == Len(trace)
<1>1. /\ L \in Nat /\ base \in Nat /\ N \in Nat /\ DOMAIN S = 1..N
      /\ DOMAIN uops' = 1..(base + N)
      /\ \A k \in DOMAIN S : uops'[base + k] = Bound(i, S, base, k)
      /\ trace'[n] = i
  BY SlotsAreTyped, Lengths DEF BinderInv, Binds
<1>2. \A k \in DOMAIN S : Bound(i, S, base, k).parent = n /\ Bound(i, S, base, k).part = S[k].part
  BY BoundFields
<1>3. UopsOf(n)' = {base + j : j \in DOMAIN S}
  <2>1. ASSUME NEW u \in DOMAIN uops', uops'[u].parent = n
        PROVE  \E j \in DOMAIN S : u = base + j
    <3>1. n \notin 1..L
      BY <1>1
    <3> QED
      BY <2>1, <3>1, BoundUops
  <2>2. ASSUME NEW j \in DOMAIN S PROVE base + j \in DOMAIN uops' /\ uops'[base + j].parent = n
    <3>1. j \in 1..N
      BY <1>1
    <3>2. base + j \in 1..(base + N)
      BY <1>1, <3>1
    <3> QED
      BY <1>1, <1>2, <3>2
  <2>3. UopsOf(n)' = {u \in DOMAIN uops' : uops'[u].parent = n}
    BY DEF UopsOf
  <2> HIDE DEF S, base
  <2> QED
    BY <2>1, <2>2, <2>3
<1>4. PartsOf(n)' = {uops'[u].part : u \in UopsOf(n)'} \ {NoPart}
  BY DEF PartsOf
<1> HIDE DEF S, base
<1>5. {uops'[u].part : u \in UopsOf(n)'} = {S[j].part : j \in DOMAIN S}
  BY <1>1, <1>2, <1>3
<1> QED
  BY <1>1, <1>3, <1>4, <1>5 DEF S, base

\* Where there is a waiting uop in every part, each result a part shares is
\* awaited by one of them.
LEMMA SharedIsAwaited ==
    ASSUME UniformResults, NEW slots, NEW places \in SUBSET DOMAIN slots,
           Everywhere(slots, places), NEW p \in 1..Len(results), NEW u \in results[p],
           \/ uops[u].part = NoPart
           \/ \A j \in DOMAIN slots : slots[j].part = NoPart
           \/ \E j \in DOMAIN slots : slots[j].part # NoPart /\ slots[j].part = uops[u].part
    PROVE  \E q \in places : \A producers : p \in producers => u \in Results(producers, slots[q].part)
<1> DEFINE same(part) == {w \in results[p] : part # NoPart /\ uops[w].part = part}
<1>1. ASSUME NEW q \in places, u \in Matching(same(slots[q].part), results[p]),
             NEW producers, p \in producers
      PROVE  u \in Results(producers, slots[q].part)
  BY <1>1 DEF Results
<1>2. SUFFICES \E q \in places : u \in Matching(same(slots[q].part), results[p])
  BY <1>1
<1>3. PICK any \in places : TRUE
  BY DEF Everywhere
<1>4. CASE uops[u].part = NoPart
  <2>1. same(slots[any].part) = {}
    BY <1>4 DEF UniformResults
  <2> QED
    BY <2>1, <1>3 DEF Matching
<1>5. CASE \A j \in DOMAIN slots : slots[j].part = NoPart
  <2>1. same(slots[any].part) = {}
    BY <1>5
  <2> QED
    BY <2>1, <1>3 DEF Matching
<1>6. CASE \E j \in DOMAIN slots : slots[j].part # NoPart /\ slots[j].part = uops[u].part
  <2>1. PICK j \in DOMAIN slots : slots[j].part # NoPart /\ slots[j].part = uops[u].part
    BY <1>6
  <2>2. PICK q \in places : slots[q].part \in {NoPart, slots[j].part}
    BY <2>1 DEF Everywhere
  <2>3. CASE slots[q].part = NoPart
    <3>1. same(slots[q].part) = {}
      BY <2>3
    <3> QED
      BY <3>1 DEF Matching
  <2>4. CASE slots[q].part = slots[j].part
    <3>1. u \in same(slots[q].part)
      BY <2>1, <2>4
    <3> QED
      BY <3>1 DEF Matching
  <2> QED
    BY <2>2, <2>3, <2>4
<1> QED
  BY <1>4, <1>5, <1>6

\* The results of the new instruction have parts all or none.
LEMMA StepUniform ==
    ASSUME BinderInv, UniformResults, NEW f \in self.forms, Refusal(f) = "none", Serves(f),
           NEW i, Binds(f, i)
    PROVE  UniformResults'
<1> DEFINE L == Len(trace)
           S == Expanded(f)
<1>1. /\ Len(results') = L + 1 /\ L \in Nat /\ Len(results) = L
      /\ \A p \in 1..L : results'[p] = results[p] /\ results[p] \subseteq DOMAIN uops
      /\ \A u \in DOMAIN uops : uops'[u] = uops[u]
      /\ results'[L + 1] = {Len(uops) + k : k \in {k \in DOMAIN S : Terminal(S, k)}}
  BY Lengths DEF Binds
<1>2. \A j \in DOMAIN S : uops'[Len(uops) + j].part = S[j].part
  <2>1. PICK n : n = Len(trace) + 1
    OBVIOUS
  <2>2. \A j \in DOMAIN S : uops'[Len(uops) + j] = Bound(i, S, Len(uops), j)
    BY <2>1, NewInstruction
  <2> QED
    BY <2>2, BoundFields
<1>3. ASSUME NEW p \in 1..(L + 1), NEW u \in results'[p], NEW w \in results'[p],
             uops'[u].part = NoPart
      PROVE  uops'[w].part = NoPart
  <2>1. CASE p \in 1..L
    <3>1. u \in results[p] /\ w \in results[p] /\ uops'[u] = uops[u] /\ uops'[w] = uops[w]
      BY <2>1, <1>1, <1>3
    <3> QED
      BY <3>1, <2>1, <1>1, <1>3 DEF UniformResults
  <2>2. CASE p = L + 1
    <3>1. PICK j \in DOMAIN S : u = Len(uops) + j /\ Terminal(S, j)
      BY <2>2, <1>1, <1>3
    <3>2. PICK k \in DOMAIN S : w = Len(uops) + k /\ Terminal(S, k)
      BY <2>2, <1>1, <1>3
    <3>3. S[j].part = NoPart
      BY <3>1, <1>2, <1>3
    <3>4. S[k].part = NoPart
      BY <3>1, <3>2, <3>3 DEF Serves
    <3> QED
      BY <3>2, <3>4, <1>2
  <2> QED
    BY <2>1, <2>2, <1>1
<1> QED
  BY <1>1, <1>3 DEF UniformResults

\* What waits for a register, a store or the flags has an edge to its producer.
LEMMA PlacesWait ==
    ASSUME NEW f, NEW i, i.form = f, NEW slot
    PROVE  /\ \A r \in f.reads : i.dependencies[r] # 0 /\ WaitsFor(f, slot, r) =>
                i.dependencies[r] \in External(i, slot) \cup StateProducers(i, slot)
           /\ WaitsForStores(slot) => i.stores \subseteq External(i, slot)
           /\ WaitsForFlags(slot) => i.flags \subseteq External(i, slot)
<1>1. ASSUME NEW r \in f.reads, i.dependencies[r] # 0, WaitsFor(f, slot, r)
      PROVE  i.dependencies[r] \in External(i, slot) \cup StateProducers(i, slot)
  <2>1. \A registers : r \in registers => i.dependencies[r] \in Producers(i, registers)
    BY <1>1 DEF Producers
  <2>2. CASE slot.prep
    BY <1>1, <2>1, <2>2 DEF WaitsFor, External
  <2>3. CASE ~slot.prep /\ slot.kind = "address_generation"
    BY <1>1, <2>1, <2>3 DEF WaitsFor, External
  <2>4. CASE ~slot.prep /\ slot.kind = "load_data"
    BY <1>1, <2>1, <2>4 DEF WaitsFor, External, StateProducers
  <2>5. CASE ~slot.prep /\ slot.kind \notin {"address_generation", "load_data"}
    BY <2>1, <2>5 DEF External
  <2> QED
    BY <2>2, <2>3, <2>4, <2>5
<1>2. WaitsForStores(slot) => i.stores \subseteq External(i, slot)
  BY DEF WaitsForStores, External
<1>3. WaitsForFlags(slot) => i.flags \subseteq External(i, slot)
  BY DEF WaitsForFlags, External, MemoryKinds
<1> QED
  BY <1>1, <1>2, <1>3

\* No producer of the new instruction is lost.
LEMMA StepAwaited ==
    ASSUME BinderInv, UniformResults, ProducersAwaited,
           NEW f \in self.forms, Refusal(f) = "none", Serves(f), NEW i, Binds(f, i)
    PROVE  ProducersAwaited'
<1> DEFINE L == Len(trace)
           S == Expanded(f)
           base == Len(uops)
<1>1. /\ L \in Nat /\ Len(results) = L /\ DOMAIN trace = 1..L /\ DOMAIN trace' = 1..(L + 1)
      /\ i.form = f /\ RecordedWithin(i, L)
      /\ \A p \in 1..L : results'[p] = results[p] /\ results[p] \subseteq 1..base
      /\ \A u \in 1..base : uops'[u] = uops[u]
  BY Lengths DEF Binds
<1>2. PICK n : n = Len(trace) + 1
  OBVIOUS
<1>3. ASSUME NEW k \in 1..L,
             NEW p \in Producers(trace'[k], trace'[k].form.reads) \cup trace'[k].stores
                       \cup trace'[k].flags
      PROVE  SharedResults(k, p)' \subseteq AwaitedBy(k)'
  <2>1. /\ trace'[k] = trace[k] /\ PartsOf(k)' = PartsOf(k) /\ AwaitedBy(k)' = AwaitedBy(k)
    BY OldInstructions
  <2>2. RecordedWithin(trace[k], k - 1) /\ k - 1 \in Nat
    BY <1>1 DEF BinderInv, TraceInv
  <2>3. p \in 1..(k - 1)
    BY <2>1, <2>2, <1>3, ProducersWithin DEF RecordedWithin
  <2>4. p \in 1..L
    BY <2>3, <1>1
  <2>5. SharedResults(k, p)' = SharedResults(k, p)
    <3>1. results'[p] = results[p] /\ \A u \in results[p] : uops'[u] = uops[u]
      BY <2>4, <1>1
    <3> QED
      BY <3>1, <2>1 DEF SharedResults
  <2>6. SharedResults(k, p) \subseteq AwaitedBy(k)
    BY <2>1, <1>1, <1>3 DEF ProducersAwaited
  <2> QED
    BY <2>1, <2>5, <2>6
<1>4. ASSUME NEW p \in Producers(i, f.reads) \cup i.stores \cup i.flags,
             NEW u \in SharedResults(n, p)'
      PROVE  u \in AwaitedBy(n)'
  <2>1. p \in 1..L
    BY <1>1, ProducersWithin DEF RecordedWithin
  <2>2. /\ UopsOf(n)' = {base + j : j \in DOMAIN S}
        /\ \A j \in DOMAIN S : uops'[base + j] = Bound(i, S, base, j)
        /\ PartsOf(n)' = {S[j].part : j \in DOMAIN S} \ {NoPart}
    BY <1>2, NewInstruction
  <2>3. u \in results[p] /\ uops'[u] = uops[u]
    BY <2>1, <1>1, <1>4 DEF SharedResults
  <2>4. \/ uops[u].part = NoPart
        \/ \A j \in DOMAIN S : S[j].part = NoPart
        \/ \E j \in DOMAIN S : S[j].part # NoPart /\ S[j].part = uops[u].part
    <3>1. \/ uops[u].part = NoPart \/ PartsOf(n)' = {} \/ uops[u].part \in PartsOf(n)'
      BY <2>3, <1>4 DEF SharedResults
    <3> HIDE DEF S
    <3> QED
      BY <3>1, <2>2
  <2>5. PICK places \in SUBSET DOMAIN S :
          /\ Everywhere(S, places)
          /\ \A q \in places : p \in External(i, S[q]) \cup StateProducers(i, S[q])
    <3>1. CASE p \in Producers(i, f.reads)
      <4>1. PICK r \in f.reads : i.dependencies[r] # 0 /\ p = i.dependencies[r]
        BY <3>1, <1>1 DEF Producers
      <4> DEFINE P == {j \in DOMAIN S : WaitsFor(f, S[j], r)}
      <4>2. Everywhere(S, P)
        BY DEF Serves
      <4>3. \A q \in P : p \in External(i, S[q]) \cup StateProducers(i, S[q])
        BY <4>1, <1>1, PlacesWait
      <4> QED
        BY <4>2, <4>3
    <3>2. CASE p \in i.stores
      <4> DEFINE P == {j \in DOMAIN S : WaitsForStores(S[j])}
      <4>1. Everywhere(S, P)
        BY <3>2 DEF Serves, Binds
      <4>2. \A q \in P : p \in External(i, S[q])
        BY <3>2, <1>1, PlacesWait
      <4> QED
        BY <4>1, <4>2
    <3>3. CASE p \in i.flags
      <4> DEFINE P == {j \in DOMAIN S : WaitsForFlags(S[j])}
      <4>1. Everywhere(S, P)
        BY <3>3 DEF Serves, Binds
      <4>2. \A q \in P : p \in External(i, S[q])
        BY <3>3, <1>1, PlacesWait
      <4> QED
        BY <4>1, <4>2
    <3> QED
      BY <3>1, <3>2, <3>3
  <2>6. PICK q \in places : \A producers : p \in producers => u \in Results(producers, S[q].part)
    <3>1. p \in 1..Len(results)
      BY <2>1, <1>1
    <3> QED
      BY <3>1, <2>3, <2>4, <2>5, SharedIsAwaited
  <2>7. u \in uops'[base + q].dependencies /\ base + q \in UopsOf(n)'
    <3>1. q \in DOMAIN S /\ uops'[base + q] = Bound(i, S, base, q)
      BY <2>2, <2>5
    <3>2. \/ u \in Results(External(i, S[q]), S[q].part)
          \/ u \in Results(StateProducers(i, S[q]), S[q].part)
      BY <2>5, <2>6
    <3>3. u \in uops'[base + q].dependencies
      BY <3>1, <3>2, BoundFields
    <3> HIDE DEF S
    <3> QED
      BY <3>1, <3>3, <2>2
  <2> QED
    BY <2>7 DEF AwaitedBy
<1>5. trace'[n] = i
  BY <1>2, NewInstruction
<1>6. ASSUME NEW k \in DOMAIN trace',
             NEW p \in Producers(trace'[k], trace'[k].form.reads) \cup trace'[k].stores
                       \cup trace'[k].flags
      PROVE  SharedResults(k, p)' \subseteq AwaitedBy(k)'
  <2>1. CASE k \in 1..L
    BY <2>1, <1>3, <1>6
  <2>2. CASE k = n
    BY <2>2, <1>1, <1>4, <1>5, <1>6
  <2> QED
    BY <2>1, <2>2, <1>1, <1>2
<1> QED
  BY <1>6 DEF ProducersAwaited, Producers

\* The back end's rule makes enough parts for the bytes of the access.
LEMMA PartsCoverBytes ==
    ASSUME self \in Profiles, NEW f \in self.forms, Dynamic(f), f.memory,
           Rule(f).by = "dynamic", WidthBits % 8 = 0, NEW b \in 0..(f.bytes - 1)
    PROVE  /\ PartBytes \in Nat \ {0} /\ b \div PartBytes \in 0..(PartCount(f) - 1)
           /\ b \in PartBytes * (b \div PartBytes)..(PartBytes * (b \div PartBytes) + PartBytes - 1)
<1> DEFINE W == PartBytes
           q == b \div PartBytes
           C == Ceil(8 * f.bytes, WidthBits)
<1>1. f.bytes \in Nat
  BY ProfilesAssumption DEF SelfType, FormType
<1>2. W \in Nat \ {0} /\ WidthBits = 8 * W
  BY WidthAssumption DEF PartBytes
<1>3. q \in Nat /\ b \in W * q..(W * q + W - 1) /\ b \in Nat
  <2>1. b \in Nat
    BY <1>1
  <2> DEFINE m == b % PartBytes
  <2> HIDE DEF W
  <2>2. q \in Nat /\ m \in 0..(W - 1) /\ b = W * q + m
    BY <1>2, <2>1, DivMod DEF W
  <2> HIDE DEF q, m
  <2>3. W * q \in Nat
    BY <1>2, <2>2
  <2> QED
    BY <1>2, <2>1, <2>2, <2>3
<1>4. q < C /\ C \in Int
  <2> DEFINE x == 8 * f.bytes + WidthBits - 1
             m == x % WidthBits
  <2>1. x \in Nat
    BY <1>1, WidthAssumption
  <2>2. C = x \div WidthBits
    BY DEF Ceil
  <2> HIDE DEF x, C
  <2>3. C \in Nat /\ m \in 0..(WidthBits - 1) /\ x = WidthBits * C + m
    BY <2>1, <2>2, WidthAssumption, DivMod
  <2> HIDE DEF m, W, q
  <2>4. W * C >= f.bytes
    <3>1. WidthBits * C = 8 * (W * C) /\ W * C \in Nat
      BY <1>2, <2>3
    <3>2. 8 * f.bytes + WidthBits - 1 = 8 * (W * C) + m
      BY <2>3, <3>1 DEF x
    <3> QED
      BY <3>1, <3>2, <2>3, <1>1, WidthAssumption
  <2>5. ~(q >= C)
    <3> SUFFICES ASSUME q >= C PROVE FALSE
      OBVIOUS
    <3>1. W * q >= W * C /\ W * q \in Nat /\ W * C \in Nat
      BY <1>2, <1>3, <2>3
    <3> QED
      BY <3>1, <2>4, <1>1, <1>3
  <2> QED
    BY <2>5, <2>3, <1>3
<1>5. PartCount(f) = AtLeastOne(C)
  BY DEF PartCount
<1> HIDE DEF C, q, W
<1>6. PartCount(f) = C
  BY <1>3, <1>4, <1>5 DEF AtLeastOne
<1> QED
  BY <1>2, <1>3, <1>4, <1>6 DEF q, W

\* A part of the rule moves byte b of the access when b lies in its block.
LEMMA ShareOfPart ==
    ASSUME NEW f, f.bytes \in Nat, Dynamic(f), PartBytes \in Nat \ {0}, NEW slot, slot.part \in Nat,
           NEW b \in 0..(f.bytes - 1)
    PROVE  /\ Share(f, slot).start = PartBytes * slot.part
           /\ (/\ Share(f, slot).start <= b
               /\ b < Share(f, slot).start + Share(f, slot).bytes)
                <=> b \in PartBytes * slot.part..(PartBytes * slot.part + PartBytes - 1)
<1> DEFINE W == PartBytes
           s == W * slot.part
<1>1. Share(f, slot) = [start |-> s, bytes |-> IF f.bytes - s < W THEN f.bytes - s ELSE W]
  <2>1. slot.part # NoPart /\ slot.part * W = s
    BY DEF NoPart
  <2> QED
    BY <2>1 DEF Share
<1>2. s \in Nat /\ b \in Nat
  OBVIOUS
<1> HIDE DEF s, W
<1>3. W \in Nat
  BY DEF W
<1> QED
  BY <1>1, <1>2, <1>3 DEF s, W

\* The uops of one kind move each byte of the access exactly once.
LEMMA TiledOnce ==
    ASSUME self \in Profiles, NEW f \in self.forms, Refusal(f) = "none", Serves(f), f.memory,
           NEW j1 \in DOMAIN Expanded(f), Expanded(f)[j1].kind \in MemoryKinds,
           NEW b \in 0..(f.bytes - 1)
    PROVE  \E j0 \in DOMAIN Expanded(f) : \A j \in DOMAIN Expanded(f) :
              (/\ Expanded(f)[j].kind = Expanded(f)[j1].kind
               /\ Share(f, Expanded(f)[j]).start <= b
               /\ b < Share(f, Expanded(f)[j]).start + Share(f, Expanded(f)[j]).bytes) <=> j = j0
<1> DEFINE S == Expanded(f)
           r == RecipeOf(f)
           n == Len(r.uops)
           kind == S[j1].kind
<1>1. HasRecipe(f) /\ MovesOnce(f) /\ f.bytes \in Nat
  BY NotRefused, ProfilesAssumption DEF Serves, SelfType, FormType
<1>2. CASE ~Dynamic(f)
  <2>1. \A j \in DOMAIN S : S[j].kind = kind => j = j1
    BY <1>1, <1>2 DEF MovesOnce
  <2>2. \A slot : Share(f, slot) = [start |-> 0, bytes |-> f.bytes]
    BY <1>2 DEF Share
  <2>3. \A slot : Share(f, slot).start <= b /\ b < Share(f, slot).start + Share(f, slot).bytes
    BY <2>2, <1>1
  <2> QED
    BY <2>1, <2>3
<1>3. CASE Dynamic(f)
  <2> DEFINE a == Ahead(f)
             P == PartCount(f)
             W == PartBytes
             q0 == b \div W
  <2>1. /\ Rule(f).by = "dynamic" /\ WidthBits % 8 = 0
        /\ NeedsPrep(f) => PrepSlot(f).kind \notin MemoryKinds
        /\ \A j, k \in DOMAIN r.uops :
              r.uops[j].kind = r.uops[k].kind /\ r.uops[j].kind \in MemoryKinds => j = k
    BY <1>1, <1>3 DEF MovesOnce
  <2>2. W \in Nat \ {0} /\ q0 \in 0..(P - 1) /\ b \in W * q0..(W * q0 + W - 1)
    BY <2>1, <1>3, PartsCoverBytes
  <2>3. n \in Nat \ {0} /\ P \in Nat \ {0} /\ DOMAIN r.uops = 1..n /\ a \in {0, 1}
    BY <1>1, <1>3, ExpandedDynamic
  <2>4. ASSUME NEW j \in DOMAIN S, S[j].kind = kind
        PROVE  \E q \in 0..(P - 1), l \in 1..n :
                  j = a + n * q + l /\ S[j].part = q /\ r.uops[l].kind = kind
    <3>1. ~(NeedsPrep(f) /\ j = 1)
      <4> SUFFICES ASSUME NeedsPrep(f), j = 1 PROVE FALSE
        OBVIOUS
      <4>1. S[j] = PrepSlot(f)
        BY <1>1, <1>3, ExpandedDynamic
      <4> QED
        BY <4>1, <2>1, <2>4
    <3>2. PICK q \in 0..(P - 1), l \in 1..n : j = a + n * q + l
      BY <3>1, <1>1, <1>3, ExpandedDynamic
    <3>3. S[j] = PartEntry(f, q, l)
      BY <3>2, <1>1, <1>3, ExpandedDynamic
    <3>4. S[j].part = q /\ S[j].kind = r.uops[l].kind
      BY <3>3 DEF PartEntry, Slot
    <3> QED
      BY <3>2, <3>4, <2>4
  <2>5. PICK l0 \in 1..n : r.uops[l0].kind = kind
    BY <2>4
  <2> DEFINE j0 == a + n * q0 + l0
  <2>6. j0 \in DOMAIN S /\ S[j0] = PartEntry(f, q0, l0)
    <3>1. \A q \in 0..(P - 1), l \in 1..n :
            a + n * q + l \in DOMAIN S /\ S[a + n * q + l] = PartEntry(f, q, l)
      BY <1>1, <1>3, ExpandedDynamic
    <3> HIDE DEF S, n, P, a, q0
    <3> QED
      BY <2>2, <3>1
  <2>7. S[j0].part = q0 /\ S[j0].kind = kind /\ q0 \in Nat
    BY <2>2, <2>5, <2>6 DEF PartEntry, Slot
  <2>8. ASSUME NEW j \in DOMAIN S, S[j].kind = kind, S[j].part \in Nat,
               b \in W * S[j].part..(W * S[j].part + W - 1)
        PROVE  j = j0
    <3>1. PICK q \in 0..(P - 1), l \in 1..n :
            j = a + n * q + l /\ S[j].part = q /\ r.uops[l].kind = kind
      BY <2>4, <2>8
    <3>2. l = l0
      BY <3>1, <2>1, <2>3, <2>5
    <3>3. q = q0
      <4> DEFINE m == b - W * q
                 m0 == b - W * q0
      <4>1. q \in Nat /\ W * q \in Nat /\ W * q0 \in Nat /\ b \in Nat
        BY <2>2, <2>7, <3>1
      <4>2. b \in W * q..(W * q + W - 1)
        BY <2>8, <3>1
      <4> HIDE DEF W, q0
      <4>3. m \in 0..(W - 1) /\ m0 \in 0..(W - 1) /\ W * q + m = W * q0 + m0
        BY <4>1, <4>2, <2>2
      <4> HIDE DEF m, m0
      <4> QED
        BY <4>1, <4>3, <2>2, <2>7, BlockOf
    <3> QED
      BY <3>1, <3>2, <3>3
  <2>9. ASSUME NEW j \in DOMAIN S
        PROVE  (/\ S[j].kind = kind
                /\ Share(f, S[j]).start <= b
                /\ b < Share(f, S[j]).start + Share(f, S[j]).bytes) <=> j = j0
    <3>1. CASE S[j].kind = kind
      <4>1. S[j].part \in Nat
        BY <3>1, <2>4
      <4>2. (/\ Share(f, S[j]).start <= b
             /\ b < Share(f, S[j]).start + Share(f, S[j]).bytes)
               <=> b \in W * S[j].part..(W * S[j].part + W - 1)
        BY <4>1, <1>1, <1>3, <2>2, ShareOfPart
      <4>3. j = j0 => b \in W * S[j].part..(W * S[j].part + W - 1)
        BY <2>2, <2>7
      <4> QED
        BY <3>1, <4>1, <4>2, <4>3, <2>8
    <3>2. CASE S[j].kind # kind
      BY <3>2, <2>7
    <3> QED
      BY <3>1, <3>2
  <2> QED
    BY <2>6, <2>9
<1> QED
  BY <1>2, <1>3

\* Each byte of the access of the new instruction is moved once.
LEMMA StepTiled ==
    ASSUME BinderInv, MemoryTiled, NEW f \in self.forms, Refusal(f) = "none", Serves(f),
           NEW i, Binds(f, i)
    PROVE  MemoryTiled'
<1> DEFINE L == Len(trace)
           S == Expanded(f)
           base == Len(uops)
           moving(k, kind, b) ==
              {u \in UopsOf(k) : /\ uops[u].kind = kind
                                 /\ uops[u].memory.start <= b
                                 /\ b < uops[u].memory.start + uops[u].memory.bytes}
<1>1. /\ L \in Nat /\ DOMAIN trace = 1..L /\ DOMAIN trace' = 1..(L + 1) /\ i.form = f
      /\ self \in Profiles
  BY Lengths DEF Binds, BinderInv
<1>2. PICK n : n = Len(trace) + 1
  OBVIOUS
<1>3. ASSUME NEW k \in 1..L, trace'[k].form.memory,
             NEW kind \in {uops[u].kind : u \in UopsOf(k)}' \cap MemoryKinds,
             NEW b \in 0..(trace'[k].form.bytes - 1)
      PROVE  Cardinality(moving(k, kind, b)') = 1
  <2>1. trace'[k] = trace[k] /\ UopsOf(k)' = UopsOf(k) /\ \A u \in UopsOf(k) : uops'[u] = uops[u]
    BY OldInstructions
  <2>2. moving(k, kind, b)' = moving(k, kind, b)
    BY <2>1
  <2>3. Cardinality(moving(k, kind, b)) = 1
    BY <2>1, <1>1, <1>3 DEF MemoryTiled
  <2> QED
    BY <2>2, <2>3
<1>4. /\ UopsOf(n)' = {base + j : j \in DOMAIN S} /\ trace'[n] = i
      /\ \A j \in DOMAIN S : uops'[base + j] = Bound(i, S, base, j)
  BY <1>2, NewInstruction
<1>5. ASSUME f.memory, NEW kind \in {uops[u].kind : u \in UopsOf(n)}' \cap MemoryKinds,
             NEW b \in 0..(f.bytes - 1)
      PROVE  Cardinality(moving(n, kind, b)') = 1
  <2>1. \A j \in DOMAIN S : uops'[base + j].kind = S[j].kind
    BY <1>4, BoundFields
  <2>2. PICK j1 \in DOMAIN S : S[j1].kind = kind /\ kind \in MemoryKinds
    BY <1>4, <1>5, <2>1
  <2>3. PICK j0 \in DOMAIN S : \A j \in DOMAIN S :
          (/\ S[j].kind = kind /\ Share(f, S[j]).start <= b
           /\ b < Share(f, S[j]).start + Share(f, S[j]).bytes) <=> j = j0
    BY <2>2, <1>1, <1>5, TiledOnce
  <2>4. \A j \in DOMAIN S : S[j].kind = kind => uops'[base + j].memory = Share(f, S[j])
    BY <1>1, <1>4, <1>5, <2>2, BoundFields DEF MovesMemory
  <2>5. moving(n, kind, b)' = {base + j0}
    <3>1. moving(n, kind, b)' =
            {u \in {base + j : j \in DOMAIN S} :
                 /\ uops'[u].kind = kind
                 /\ uops'[u].memory.start <= b
                 /\ b < uops'[u].memory.start + uops'[u].memory.bytes}
      BY <1>4
    <3> HIDE DEF S, base, moving
    <3> QED
      BY <3>1, <2>1, <2>3, <2>4
  <2> QED
    BY <2>5, FS_Singleton
<1>6. ASSUME NEW k \in DOMAIN trace', trace'[k].form.memory,
             NEW kind \in {uops[u].kind : u \in UopsOf(k)}' \cap MemoryKinds,
             NEW b \in 0..(trace'[k].form.bytes - 1)
      PROVE  Cardinality(moving(k, kind, b)') = 1
  <2>1. CASE k \in 1..L
    BY <2>1, <1>3, <1>6
  <2>2. CASE k = n
    BY <2>2, <1>1, <1>4, <1>5, <1>6
  <2> QED
    BY <2>1, <2>2, <1>1, <1>2
<1> QED
  BY <1>6 DEF MemoryTiled

\* Under a profile that serves its instructions, results that have a part all
\* have one, no producer is lost and every byte is moved once.
ServingInv ==
    BaseInv /\ ProfileServes /\ UniformResults /\ ProducersAwaited /\ MemoryTiled

\* Nothing is lost while nothing is bound.
LEMMA InitServing == Init /\ ProfileServes => ServingInv
<1> SUFFICES ASSUME Init, ProfileServes PROVE ServingInv
  OBVIOUS
<1>1. BaseInv
  BY InitBinder DEF BaseInv
<1>2. Len(results) = 0 /\ DOMAIN trace = {}
  BY DEF Init
<1> QED
  BY <1>1, <1>2 DEF ServingInv, UniformResults, ProducersAwaited, MemoryTiled

\* Binding one instruction more loses none of it, nor of those before.
LEMMA StepServing == ServingInv /\ [Next]_vars => ServingInv'
<1> SUFFICES ASSUME ServingInv, [Next]_vars PROVE ServingInv'
  OBVIOUS
<1>1. BaseInv'
  BY StepBase DEF ServingInv
<1>2. self' = self
  BY DEF Next, Bind, Reject, Stopped, vars
<1>3. ProfileServes'
  <2>1. \A f \in self.forms : Refusal(f)' = "none" => Serves(f)'
    BY <1>2, SelfDecides DEF ServingInv, ProfileServes
  <2> QED
    BY <2>1, <1>2 DEF ProfileServes
<1>4. CASE UNCHANGED <<self, trace, uops, results, writer>>
  <2>1. UniformResults' /\ ProducersAwaited'
    BY <1>4 DEF ServingInv, UniformResults, ProducersAwaited, Producers, SharedResults,
       AwaitedBy, PartsOf, UopsOf
  <2>2. MemoryTiled'
    BY <1>4 DEF ServingInv, MemoryTiled, UopsOf
  <2> QED
    BY <1>1, <1>3, <2>1, <2>2 DEF ServingInv
<1>5. ASSUME NEW f \in self.forms, Bind(f) PROVE ServingInv'
  <2>1. BinderInv /\ UniformResults /\ ProducersAwaited /\ MemoryTiled
    BY DEF ServingInv, BaseInv
  <2>2. Refusal(f) = "none" /\ \E i : Binds(f, i)
    BY <1>5, <2>1, BindBinds
  <2>3. Serves(f)
    BY <2>2 DEF ServingInv, ProfileServes
  <2>4. UniformResults' /\ ProducersAwaited' /\ MemoryTiled'
    BY <2>1, <2>2, <2>3, StepUniform, StepAwaited, StepTiled
  <2> QED
    BY <1>1, <1>3, <2>4 DEF ServingInv
<1> QED
  BY <1>4, <1>5 DEF Next, Reject, Stopped, vars

\* bind loses no producer, no byte and no order, however a profile that provides
\* for its instructions cuts them into uops and parts.
THEOREM BindsFaithfullyHolds == Spec /\ ProfileServes => []BindsFaithfully
<1>1. ServingInv => BindsFaithfully
  BY DEF ServingInv, BaseInv, BinderInv, BindsFaithfully
<1> QED
  BY <1>1, InitServing, StepServing, PTL DEF Spec

-----------------------------------------------------------------------------
(* The parts that the expander counts.                                      *)

\* The parts of a bound instruction are those of its slots.
PartsIn(k) == {uops[u].part : u \in UopsOf(k)}
SlotParts(f) == {Expanded(f)[j].part : j \in DOMAIN Expanded(f)}
ShapeInv ==
    \A k \in 1..Len(trace) : \E f \in self.forms :
        f = trace[k].form /\ Refusal(f) = "none" /\ PartsIn(k) = SlotParts(f)

\* Binding adds an instruction with the parts of its slots.
LEMMA StepShape ==
    ASSUME BinderInv, ShapeInv, NEW f \in self.forms, Refusal(f) = "none", NEW i, Binds(f, i)
    PROVE  ShapeInv'
<1> DEFINE L == Len(trace)
           S == Expanded(f)
           base == Len(uops)
<1>1. L \in Nat /\ Len(trace') = L + 1 /\ i.form = f /\ self' = self
  BY Lengths DEF Binds
<1>2. PICK n : n = Len(trace) + 1
  OBVIOUS
<1>3. \A g : Refusal(g)' = Refusal(g) /\ SlotParts(g)' = SlotParts(g)
  BY <1>1, SelfDecides DEF SlotParts
<1>4. ASSUME NEW k \in 1..(L + 1)
      PROVE  \E g \in self.forms :
                g = trace'[k].form /\ Refusal(g) = "none" /\ PartsIn(k)' = SlotParts(g)
  <2>1. CASE k \in 1..L
    <3>1. /\ trace'[k] = trace[k] /\ UopsOf(k)' = UopsOf(k)
          /\ \A u \in UopsOf(k) : uops'[u] = uops[u]
      BY <2>1, OldInstructions
    <3>2. PartsIn(k)' = PartsIn(k)
      BY <3>1 DEF PartsIn
    <3> QED
      BY <3>1, <3>2, <2>1 DEF ShapeInv
  <2>2. CASE k = n
    <3>1. /\ UopsOf(n)' = {base + j : j \in DOMAIN S} /\ trace'[n] = i
          /\ \A j \in DOMAIN S : uops'[base + j] = Bound(i, S, base, j)
      BY <1>2, NewInstruction
    <3>2. \A j \in DOMAIN S : uops'[base + j].part = S[j].part
      BY <3>1, BoundFields
    <3> HIDE DEF S, base
    <3>3. PartsIn(n)' = {S[j].part : j \in DOMAIN S}
      BY <3>1, <3>2 DEF PartsIn
    <3>4. PartsIn(n)' = SlotParts(f)
      BY <3>3 DEF S, SlotParts
    <3> QED
      BY <3>1, <3>4, <2>2, <1>1
  <2> QED
    BY <2>1, <2>2, <1>1, <1>2
<1> QED
  BY <1>1, <1>3, <1>4 DEF ShapeInv

\* Under a rule of the back end the parts are numbered from 0.
LEMMA DynamicParts ==
    ASSUME self \in Profiles, NEW f \in self.forms, Refusal(f) = "none", Dynamic(f)
    PROVE  /\ PartCount(f) \in Nat \ {0}
           /\ SlotParts(f) \ {NoPart} = 0..(PartCount(f) - 1)
           /\ ~NeedsPrep(f) => SlotParts(f) = 0..(PartCount(f) - 1)
<1> DEFINE S == Expanded(f)
           n == Len(RecipeOf(f).uops)
           a == Ahead(f)
           P == PartCount(f)
<1>1. HasRecipe(f)
  BY NotRefused
<1>2. n \in Nat \ {0} /\ P \in Nat \ {0}
  BY <1>1, ExpandedDynamic
<1>3. ASSUME NEW j \in DOMAIN S
      PROVE  \/ NeedsPrep(f) /\ S[j].part = NoPart
             \/ S[j].part \in 0..(P - 1)
  <2>1. CASE NeedsPrep(f) /\ j = 1
    <3>1. S[j] = PrepSlot(f)
      BY <2>1, <1>1, ExpandedDynamic
    <3> QED
      BY <3>1, <2>1 DEF PrepSlot
  <2>2. CASE ~(NeedsPrep(f) /\ j = 1)
    <3>1. PICK q \in 0..(P - 1), l \in 1..n : j = a + n * q + l
      BY <2>2, <1>1, ExpandedDynamic
    <3>2. S[j] = PartEntry(f, q, l)
      BY <3>1, <1>1, ExpandedDynamic
    <3> QED
      BY <3>2 DEF PartEntry, Slot
  <2> QED
    BY <2>1, <2>2
<1>4. ASSUME NEW q \in 0..(P - 1) PROVE \E j \in DOMAIN S : S[j].part = q
  <2>1. 1 \in 1..n
    BY <1>2
  <2>2. a + n * q + 1 \in DOMAIN S /\ S[a + n * q + 1] = PartEntry(f, q, 1)
    BY <2>1, <1>1, ExpandedDynamic
  <2>3. S[a + n * q + 1].part = q
    BY <2>2 DEF PartEntry, Slot
  <2> QED
    BY <2>2, <2>3
<1>5. NoPart \notin 0..(P - 1)
  BY <1>2 DEF NoPart
<1> HIDE DEF S, P
<1>6. SlotParts(f) = {S[j].part : j \in DOMAIN S}
  BY DEF SlotParts, S
<1>7. SlotParts(f) \ {NoPart} = 0..(P - 1) /\ (~NeedsPrep(f) => SlotParts(f) = 0..(P - 1))
  BY <1>3, <1>4, <1>5, <1>6
<1> QED
  BY <1>2, <1>7 DEF P

\* The parts of a bound instruction are as many as the expander counts.
LEMMA BoundExpands ==
    ASSUME BinderInv, ShapeInv, RulesMatch, NEW k \in 1..Len(trace)
    PROVE  Expands(k)
<1>1. PICK f \in self.forms : f = trace[k].form /\ Refusal(f) = "none" /\ PartsIn(k) = SlotParts(f)
  BY DEF ShapeInv
<1>2. self \in Profiles /\ CountsAgree(f) /\ FormType(f)
  BY <1>1, ProfilesAssumption DEF BinderInv, RulesMatch, SelfType
<1>3. PartsOf(k) = SlotParts(f) \ {NoPart}
  BY <1>1 DEF PartsOf, PartsIn
<1>4. \A n \in Nat \ {0} : Cardinality(0..(n - 1)) = n
  <2> SUFFICES ASSUME NEW n \in Nat \ {0} PROVE Cardinality(0..(n - 1)) = n
    OBVIOUS
  <2>1. 0 \in Int /\ n - 1 \in Int /\ ~(0 > n - 1)
    OBVIOUS
  <2>2. Cardinality(0..(n - 1)) = (n - 1) - 0 + 1
    BY <2>1, FS_Interval
  <2> QED
    BY <2>2
<1>5. ASSUME Dynamic(f) PROVE Cardinality(PartsOf(k)) = PartCount(f)
  BY <1>1, <1>2, <1>3, <1>4, <1>5, DynamicParts
<1>6. CASE Kind(f) \in ChainKinds
  <2>1. Decoded(k) >= 1
    BY <1>1, <1>2, <1>6 DEF Decoded, CountsAgree
  <2>2. Cardinality(SlotParts(f)) = 1
    <3>1. CASE Dynamic(f)
      <4>1. Rule(f).by = "count" /\ Rule(f).count <= 1 /\ ~NeedsPrep(f)
        BY <3>1, <1>2, <1>6 DEF CountsAgree
      <4>2. Rule(f).count \in Nat
        BY <3>1, <4>1, <1>2, ProfilesAssumption DEF SelfType, Rule, Rules, Dynamic
      <4>3. PartCount(f) = 1
        BY <4>1, <4>2 DEF PartCount, AtLeastOne
      <4>4. SlotParts(f) = 0..(PartCount(f) - 1)
        BY <3>1, <4>1, <1>1, <1>2, DynamicParts
      <4>5. 1 \in Nat \ {0}
        OBVIOUS
      <4> QED
        BY <4>3, <4>4, <4>5, <1>4
    <3>2. CASE ~Dynamic(f)
      <4>1. RecipeOf(f).parts = 0 /\ HasRecipe(f)
        BY <3>2, <1>1, <1>2, <1>6, NotRefused DEF CountsAgree
      <4>2. RecipeType(RecipeOf(f))
        BY <4>1, <1>2, RecipeIsTyped
      <4>3. \A j \in DOMAIN RecipeOf(f).uops : RecipeOf(f).uops[j].part = NoPart
        <5>1. 0..(0 - 1) = {}
          OBVIOUS
        <5> QED
          BY <4>1, <4>2, <5>1 DEF RecipeType
      <4>4. DOMAIN Expanded(f) = DOMAIN RecipeOf(f).uops /\ 1 \in DOMAIN Expanded(f)
        BY <3>2, <4>1, <1>2, ExpandedStatic, <4>2 DEF RecipeType
      <4>5. \A j \in DOMAIN Expanded(f) : Expanded(f)[j].part = NoPart
        BY <3>2, <4>1, <4>3, <4>4, <1>2, ExpandedStatic DEF Slot
      <4>6. SlotParts(f) = {NoPart}
        BY <4>4, <4>5 DEF SlotParts
      <4> QED
        BY <4>6, FS_Singleton
    <3> QED
      BY <3>1, <3>2
  <2> QED
    BY <2>1, <2>2, <1>1, <1>6 DEF Expands, PartsIn, ChainKinds
<1>7. CASE Kind(f) = "vector-compute"
  <2>1. Dynamic(f) /\ Rule(f).by = "lmul"
    BY <1>2, <1>7 DEF CountsAgree
  <2>2. PartCount(f) = AtLeastOne(f.lmul)
    BY <2>1 DEF PartCount
  <2> QED
    BY <2>1, <2>2, <1>1, <1>5, <1>7 DEF Expands, ChainKinds
<1>8. CASE Kind(f) = "vector-memory"
  <2>1. Dynamic(f) /\ Rule(f).by = "dynamic" /\ f.active = 8 * f.bytes /\ f.memory
    <3>1. Category(f) = "vector-memory"
      BY <1>8 DEF Kind
    <3>2. f.memory
      BY <3>1 DEF Category
    <3> QED
      BY <3>2, <1>2, <1>8 DEF CountsAgree
  <2>2. PartCount(f) = ExpectedFlows(f)
    BY <2>1 DEF PartCount, ExpectedFlows
  <2> QED
    BY <2>1, <2>2, <1>1, <1>5, <1>8 DEF Expands, ChainKinds
<1>9. CASE Kind(f) \notin ChainKinds \cup {"vector-compute", "vector-memory"}
  BY <1>1, <1>9 DEF Expands
<1> QED
  BY <1>6, <1>7, <1>8, <1>9

\* What the expander needs of the bound trace.
ExpandableInv == BinderInv /\ ShapeInv /\ (IsXsai => RulesMatch)

\* There is nothing to expand at first.
LEMMA InitExpandable == Init /\ (IsXsai => RulesMatch) => ExpandableInv
<1> SUFFICES ASSUME Init, IsXsai => RulesMatch PROVE ExpandableInv
  OBVIOUS
<1>1. 1..Len(trace) = {}
  BY DEF Init
<1> QED
  BY <1>1, InitBinder DEF ExpandableInv, ShapeInv

\* What is bound next can be expanded, too.
LEMMA StepExpandable == ExpandableInv /\ [Next]_vars => ExpandableInv'
<1> SUFFICES ASSUME ExpandableInv, [Next]_vars PROVE ExpandableInv'
  OBVIOUS
<1>1. BinderInv'
  BY StepBinder DEF ExpandableInv
<1>2. self' = self
  BY DEF Next, Bind, Reject, Stopped, vars
<1>3. \A f : Refusal(f)' = Refusal(f) /\ (CountsAgree(f)' <=> CountsAgree(f))
  <2> SUFFICES ASSUME NEW f
               PROVE  Refusal(f)' = Refusal(f) /\ (CountsAgree(f)' <=> CountsAgree(f))
    OBVIOUS
  <2>1. Refusal(f)' = Refusal(f) /\ Dynamic(f)' = Dynamic(f)
    BY <1>2, SelfDecides
  <2>2. Rules' = Rules
    BY <1>2 DEF Rules
  <2>3. Rule(f)' = Rule(f)
    BY <2>2 DEF Rule
  <2>4. NeedsPrep(f)' = NeedsPrep(f)
    BY <2>1, <2>3 DEF NeedsPrep
  <2>5. CountsAgree(f)' <=> CountsAgree(f)
    BY <2>1, <2>3, <2>4 DEF CountsAgree
  <2> QED
    BY <2>1, <2>5
<1>4. (IsXsai => RulesMatch)'
  <2>1. IsXsai' = IsXsai
    BY <1>2 DEF IsXsai, Rules
  <2>2. \A f : OneDataEntry(f)' <=> OneDataEntry(f)
    BY DEF OneDataEntry
  <2> QED
    BY <2>1, <2>2, <1>2, <1>3 DEF ExpandableInv, RulesMatch
<1>5. CASE UNCHANGED <<self, trace, uops, results, writer>>
  <2>1. \A k : PartsIn(k)' = PartsIn(k)
    BY <1>5 DEF PartsIn, UopsOf
  <2>2. \A f : SlotParts(f)' = SlotParts(f)
    BY <1>2, SelfDecides DEF SlotParts
  <2>3. ShapeInv'
    BY <2>1, <2>2, <1>3, <1>5 DEF ExpandableInv, ShapeInv
  <2> QED
    BY <2>3, <1>1, <1>4 DEF ExpandableInv
<1>6. ASSUME NEW f \in self.forms, Bind(f) PROVE ExpandableInv'
  <2>1. Refusal(f) = "none" /\ \E i : Binds(f, i)
    BY <1>6, BindBinds DEF ExpandableInv
  <2>2. ShapeInv'
    BY <2>1, StepShape DEF ExpandableInv
  <2> QED
    BY <2>2, <1>1, <1>4 DEF ExpandableInv
<1> QED
  BY <1>5, <1>6 DEF Next, Reject, Stopped, vars

\* Under a profile whose rules match the expander, no trace that bind returns ends
\* in an XsaiBackendError of _groups_for_macro.
THEOREM ExpanderAccepted == Spec /\ (IsXsai => RulesMatch) => []ExpanderAccepts
<1>1. ExpandableInv => ExpanderAccepts
  <2> SUFFICES ASSUME ExpandableInv, IsXsai, NEW k \in DOMAIN trace PROVE Expands(k)
    BY DEF ExpandableInv, ExpanderAccepts, BoundIsExpandable, Expandable
  <2>1. k \in 1..Len(trace)
    BY Lengths DEF ExpandableInv
  <2> QED
    BY <2>1, BoundExpands DEF ExpandableInv
<1> QED
  BY <1>1, InitExpandable, StepExpandable, PTL DEF Spec

-----------------------------------------------------------------------------
(* The slots of an expanded trace.                                          *)

\* A dynamic decomposition lists its parts in order, the preparation first.
LEMMA PartsAscend ==
    ASSUME self \in Profiles, NEW f \in self.forms, Refusal(f) = "none", Dynamic(f),
           NEW j \in DOMAIN Expanded(f), NEW m \in DOMAIN Expanded(f), j <= m
    PROVE  Expanded(f)[j].part <= Expanded(f)[m].part
<1> DEFINE S == Expanded(f)
           n == Len(RecipeOf(f).uops)
           a == Ahead(f)
           P == PartCount(f)
<1>1. HasRecipe(f) /\ NoPart = -1
  BY NotRefused DEF NoPart
<1>2. n \in Nat \ {0} /\ P \in Nat \ {0} /\ a \in {0, 1} /\ DOMAIN S \subseteq Nat \ {0}
  <2>1. n \in Nat \ {0} /\ P \in Nat \ {0} /\ a \in {0, 1}
    BY <1>1, ExpandedDynamic
  <2>2. DOMAIN S = 1..Len(S)
    BY SlotsAreTyped
  <2> QED
    BY <2>1, <2>2
<1>3. \A k \in DOMAIN S : S[k].part \in Nat \cup {NoPart}
  BY SlotsAreTyped DEF SlotType
<1>4. \A k \in DOMAIN S : NeedsPrep(f) /\ k = 1 => S[k].part = NoPart /\ a = 1
  <2>1. NeedsPrep(f) => a = 1 /\ S[1] = PrepSlot(f)
    BY <1>1, ExpandedDynamic
  <2> HIDE DEF S, a
  <2> QED
    BY <2>1 DEF PrepSlot
<1>5. \A k \in DOMAIN S : ~(NeedsPrep(f) /\ k = 1) =>
        \E q \in 0..(P - 1), l \in 1..n : k = a + n * q + l /\ S[k].part = q
  <2> SUFFICES ASSUME NEW k \in DOMAIN S, ~(NeedsPrep(f) /\ k = 1)
               PROVE  \E q \in 0..(P - 1), l \in 1..n : k = a + n * q + l /\ S[k].part = q
    OBVIOUS
  <2>1. PICK q \in 0..(P - 1), l \in 1..n : k = a + n * q + l
    BY <1>1, ExpandedDynamic
  <2>2. S[k] = PartEntry(f, q, l)
    BY <2>1, <1>1, ExpandedDynamic
  <2> QED
    BY <2>1, <2>2 DEF PartEntry, Slot
<1> HIDE DEF S, n, a, P
<1>6. CASE NeedsPrep(f) /\ j = 1
  BY <1>1, <1>3, <1>4, <1>6 DEF S
<1>7. CASE NeedsPrep(f) /\ m = 1
  <2>1. j = 1
    BY <1>2, <1>7 DEF S
  <2> QED
    BY <2>1, <1>6, <1>7
<1>8. CASE ~(NeedsPrep(f) /\ j = 1) /\ ~(NeedsPrep(f) /\ m = 1)
  <2>1. PICK q \in 0..(P - 1), l \in 1..n : j = a + n * q + l /\ S[j].part = q
    BY <1>5, <1>8 DEF S
  <2>2. PICK r \in 0..(P - 1), i \in 1..n : m = a + n * r + i /\ S[m].part = r
    BY <1>5, <1>8 DEF S
  <2>3. ~(r < q)
    <3> SUFFICES ASSUME r < q PROVE FALSE
      OBVIOUS
    <3>1. q \in Nat /\ r \in Nat /\ q - r - 1 \in Nat
      BY <1>2
    <3>2. n * (q - r - 1) \in Nat
      BY <1>2, <3>1
    <3>3. n * q = n * r + n + n * (q - r - 1)
      BY <1>2, <3>1
    <3>4. n * q \in Nat /\ n * r \in Nat
      BY <1>2, <3>1
    <3>5. n * q >= n * r + n
      BY <1>2, <3>2, <3>3, <3>4
    <3> QED
      BY <3>4, <3>5, <2>1, <2>2, <1>2
  <2> QED
    BY <2>1, <2>2, <2>3, <1>2 DEF S
<1> QED
  BY <1>6, <1>7, <1>8

\* The entries that carry the data of an access are of one kind, and one of them
\* is there; a part has one of them, or the instruction.
LEMMA OneDataSlot ==
    ASSUME self \in Profiles, NEW f \in self.forms, Refusal(f) = "none", f.memory,
           Serves(f), OneDataEntry(f)
    PROVE  \E j0 \in DOMAIN Expanded(f) :
              /\ Expanded(f)[j0].kind \in DataKinds
              /\ \A j \in DOMAIN Expanded(f) : Expanded(f)[j].kind \in DataKinds =>
                    /\ Expanded(f)[j].kind = Expanded(f)[j0].kind
                    /\ \A m \in DOMAIN Expanded(f) :
                          /\ Expanded(f)[m].kind \in DataKinds
                          /\ Dynamic(f) => Expanded(f)[j].part = Expanded(f)[m].part
                          => j = m
<1> DEFINE S == Expanded(f)
           r == RecipeOf(f)
           n == Len(r.uops)
<1>1. HasRecipe(f) /\ MovesOnce(f) /\ DataKinds \subseteq MemoryKinds
  BY NotRefused DEF Serves, DataKinds, MemoryKinds
<1>2. PICK e \in DOMAIN r.uops : \A j \in DOMAIN r.uops : r.uops[j].kind \in DataKinds <=> j = e
  BY DEF OneDataEntry
<1>3. CASE ~Dynamic(f)
  <2>1. DOMAIN S = DOMAIN r.uops /\ \A j \in DOMAIN S : S[j].kind = r.uops[j].kind
    <3>1. RecipeType(r)
      BY <1>1, RecipeIsTyped
    <3> QED
      BY <3>1, <1>1, <1>3, ExpandedStatic DEF Slot, RecipeType
  <2>2. \A j \in DOMAIN S : S[j].kind \in DataKinds <=> j = e
    BY <1>2, <2>1
  <2> QED
    BY <1>2, <2>1, <2>2
<1>4. CASE Dynamic(f)
  <2> DEFINE a == Ahead(f)
             P == PartCount(f)
  <2>1. n \in Nat \ {0} /\ P \in Nat \ {0} /\ DOMAIN r.uops = 1..n
    BY <1>1, <1>4, ExpandedDynamic
  <2>2. ASSUME NEW j \in DOMAIN S, S[j].kind \in DataKinds
        PROVE  \E q \in 0..(P - 1) : j = a + n * q + e /\ S[j].part = q /\ S[j].kind = r.uops[e].kind
    <3>1. ~(NeedsPrep(f) /\ j = 1)
      <4> SUFFICES ASSUME NeedsPrep(f), j = 1 PROVE FALSE
        OBVIOUS
      <4>1. S[j] = PrepSlot(f)
        BY <1>1, <1>4, ExpandedDynamic
      <4>2. PrepSlot(f).kind \notin MemoryKinds
        BY <1>1, <1>4 DEF MovesOnce
      <4> QED
        BY <4>1, <4>2, <1>1, <2>2
    <3>2. PICK q \in 0..(P - 1), l \in 1..n : j = a + n * q + l
      BY <3>1, <1>1, <1>4, ExpandedDynamic
    <3>3. S[j] = PartEntry(f, q, l)
      BY <3>2, <1>1, <1>4, ExpandedDynamic
    <3>4. S[j].part = q /\ S[j].kind = r.uops[l].kind
      BY <3>3 DEF PartEntry, Slot
    <3>5. l = e
      BY <3>4, <2>1, <2>2, <1>2
    <3> QED
      BY <3>2, <3>4, <3>5
  <2> DEFINE j0 == a + n * 0 + e
  <2>3. 0 \in 0..(P - 1) /\ e \in 1..n
    BY <2>1
  <2>4. j0 \in DOMAIN S /\ S[j0] = PartEntry(f, 0, e)
    BY <2>3, <1>1, <1>4, ExpandedDynamic
  <2>5. S[j0].kind = r.uops[e].kind /\ S[j0].kind \in DataKinds
    BY <2>4, <1>2 DEF PartEntry, Slot
  <2> HIDE DEF S, P, a, n, j0
  <2>6. \A j, m \in DOMAIN S :
          S[j].kind \in DataKinds /\ S[m].kind \in DataKinds /\ S[j].part = S[m].part => j = m
    BY <2>2
  <2>7. \A j \in DOMAIN S : S[j].kind \in DataKinds => S[j].kind = S[j0].kind
    BY <2>2, <2>5
  <2> QED
    BY <2>4, <2>5, <2>6, <2>7, <1>4 DEF S
<1> QED
  BY <1>3, <1>4


\* Where the uops of a bound instruction are: in the order of its expansion.
LayoutInv ==
    \A k \in 1..Len(trace) : \E f \in self.forms, base \in Nat :
        /\ f = trace[k].form /\ Refusal(f) = "none"
        /\ UopsOf(k) = {base + j : j \in DOMAIN Expanded(f)}
        /\ \A j \in DOMAIN Expanded(f) :
              /\ uops[base + j].part = Expanded(f)[j].part
              /\ uops[base + j].kind = Expanded(f)[j].kind
              /\ uops[base + j].after # 0 => ~Dynamic(f) /\ RecipeOf(f).parts # 0

\* The uops of an instruction follow those of the instructions before it.
AscendInv ==
    \A u, w \in 1..Len(uops) : u <= w => uops[u].parent <= uops[w].parent

\* Binding lays the uops of one more instruction out after the others.
LEMMA StepLayout ==
    ASSUME BinderInv, LayoutInv, NEW f \in self.forms, Refusal(f) = "none", NEW i, Binds(f, i)
    PROVE  LayoutInv'
<1> DEFINE L == Len(trace)
           S == Expanded(f)
           base == Len(uops)
           laid(k, g, b) ==
              /\ UopsOf(k) = {b + j : j \in DOMAIN Expanded(g)}
              /\ \A j \in DOMAIN Expanded(g) :
                    /\ uops[b + j].part = Expanded(g)[j].part
                    /\ uops[b + j].kind = Expanded(g)[j].kind
                    /\ uops[b + j].after # 0 => ~Dynamic(g) /\ RecipeOf(g).parts # 0
<1>1. L \in Nat /\ Len(trace') = L + 1 /\ i.form = f /\ self' = self /\ base \in Nat
  BY Lengths DEF Binds
<1>2. PICK n : n = Len(trace) + 1
  OBVIOUS
<1>3. \A g : Refusal(g)' = Refusal(g) /\ Expanded(g)' = Expanded(g) /\ Dynamic(g)' = Dynamic(g)
  BY <1>1, SelfDecides
<1>4. ASSUME NEW k \in 1..(L + 1)
      PROVE  \E g \in self.forms, b \in Nat :
                g = trace'[k].form /\ Refusal(g) = "none" /\ laid(k, g, b)'
  <2>1. CASE k \in 1..L
    <3>1. /\ trace'[k] = trace[k] /\ UopsOf(k)' = UopsOf(k)
          /\ \A u \in UopsOf(k) : uops'[u] = uops[u]
      BY <2>1, OldInstructions
    <3>2. PICK g \in self.forms, b \in Nat :
            g = trace[k].form /\ Refusal(g) = "none" /\ laid(k, g, b)
      BY <2>1 DEF LayoutInv
    <3>3. \A j \in DOMAIN Expanded(g) : uops'[b + j] = uops[b + j]
      BY <3>1, <3>2
    <3>4. laid(k, g, b)'
      BY <3>1, <3>2, <3>3, <1>3
    <3> QED
      BY <3>1, <3>2, <3>4
  <2>2. CASE k = n
    <3>1. /\ UopsOf(n)' = {base + j : j \in DOMAIN S} /\ trace'[n] = i
          /\ \A j \in DOMAIN S : uops'[base + j] = Bound(i, S, base, j)
      BY <1>2, NewInstruction
    <3>2. \A j \in DOMAIN S : uops'[base + j].part = S[j].part /\ uops'[base + j].kind = S[j].kind
      BY <3>1, BoundFields
    <3>3. ASSUME NEW j \in DOMAIN S, uops'[base + j].after # 0
          PROVE  ~Dynamic(f) /\ RecipeOf(f).parts # 0
      <4>1. Bound(i, S, base, j).after = IssueAfter(i, S, base, j)
        BY DEF Bound
      <4>2. IssueAfter(i, S, base, j) # 0
        BY <4>1, <3>1, <3>3
      <4> QED
        BY <4>2, <1>1 DEF IssueAfter
    <3>4. PICK b \in Nat : b = Len(uops)
      BY <1>1
    <3>5. laid(n, f, b)'
      BY <3>1, <3>2, <3>3, <3>4, <1>3
    <3> QED
      BY <3>1, <3>5, <2>2, <1>1
  <2> HIDE DEF laid
  <2> QED
    BY <2>1, <2>2, <1>1, <1>2
<1>5. ASSUME NEW k \in 1..Len(trace')
      PROVE  \E g \in self'.forms, b \in Nat :
                g = trace'[k].form /\ Refusal(g)' = "none" /\ laid(k, g, b)'
  <2> HIDE DEF laid
  <2> QED
    BY <1>1, <1>3, <1>4
<1> QED
  BY <1>5 DEF LayoutInv

\* Its uops follow those bound before.
LEMMA StepAscend ==
    ASSUME BinderInv, AscendInv, NEW f \in self.forms, Refusal(f) = "none", NEW i, Binds(f, i)
    PROVE  AscendInv'
<1>1. ASSUME NEW u \in DOMAIN uops'
      PROVE  \/ u \in DOMAIN uops /\ uops'[u] = uops[u] /\ uops[u].parent \in 1..Len(trace)
             \/ u > Len(uops) /\ uops'[u].parent = Len(trace) + 1
  <2>1. DOMAIN Expanded(f) \subseteq Nat \ {0}
    BY SlotsAreTyped DEF BinderInv
  <2> QED
    BY <2>1, BoundUops, Lengths
<1>2. DOMAIN uops = 1..Len(uops) /\ Len(uops) \in Nat /\ Len(trace) \in Nat
  BY Lengths
<1>3. DOMAIN uops' = 1..Len(uops')
  BY StepBinder DEF Binds
<1> SUFFICES ASSUME NEW u \in DOMAIN uops', NEW w \in DOMAIN uops', u <= w
             PROVE  uops'[u].parent <= uops'[w].parent
  BY <1>3 DEF AscendInv
<1> QED
  BY <1>1, <1>2, <1>3 DEF AscendInv


\* The invariant of a trace whose slots are to be faithful.
SlotInv == ExpandableInv /\ LayoutInv /\ AscendInv /\ (IsXsai => ServingInv)
Sliced == SlotInv /\ IsXsai

\* The classes that are cut into preparation uops and parts.
PartKinds == {"vector-memory", "vector-compute"}

\* What is known of each instruction of such a trace.
LEMMA MacroFacts ==
    ASSUME Sliced, NEW k \in 1..Len(trace), NEW f, f = trace[k].form
    PROVE  /\ self \in Profiles /\ f \in self.forms /\ Refusal(f) = "none" /\ Serves(f)
           /\ CountsAgree(f) /\ (f.memory => OneDataEntry(f)) /\ f.bytes \in Nat
           /\ Kind(f) \in ChainKinds \cup PartKinds \cup {"scalar"}
           /\ Kind(f) \in PartKinds => Dynamic(f)
           /\ Kind(f) \in ChainKinds => Decoded(k) \in Nat \ {0} /\ (Dynamic(f) => ~f.memory)
                                        /\ (~Dynamic(f) => RecipeOf(f).parts = 0)
<1>1. self \in Profiles /\ ProfileServes /\ RulesMatch
  BY DEF Sliced, SlotInv, ServingInv, BaseInv, BinderInv, ExpandableInv
<1>2. f \in self.forms /\ Refusal(f) = "none"
  BY DEF Sliced, SlotInv, LayoutInv
<1>3. Serves(f) /\ CountsAgree(f) /\ (f.memory => OneDataEntry(f))
  BY <1>1, <1>2 DEF ProfileServes, RulesMatch
<1>4. Kind(f) \in ChainKinds \cup PartKinds \cup {"scalar"}
  BY DEF Kind, ChainKinds, PartKinds
<1>5. Kind(f) \in PartKinds => Dynamic(f)
  BY <1>3 DEF CountsAgree, PartKinds
<1>6. ASSUME Kind(f) \in ChainKinds
      PROVE  /\ Decoded(k) \in Nat \ {0} /\ (Dynamic(f) => ~f.memory)
             /\ ~Dynamic(f) => RecipeOf(f).parts = 0
  <2>1. RecipeType(RecipeOf(f))
    BY <1>1, <1>2, NotRefused, RecipeIsTyped
  <2>2. Decoded(k) \in Nat \ {0}
    BY <2>1, <1>3, <1>6 DEF Decoded, CountsAgree, RecipeType
  <2>3. Dynamic(f) /\ f.memory => FALSE
    BY <1>3, <1>6 DEF CountsAgree, Serves, MovesOnce
  <2> QED
    BY <2>2, <2>3, <1>3, <1>6 DEF CountsAgree
<1>7. f.bytes \in Nat
  BY <1>1, <1>2, ProfilesAssumption DEF SelfType, FormType
<1> QED
  BY <1>1, <1>2, <1>3, <1>4, <1>5, <1>6, <1>7

\* The uops of an instruction that is cut into parts list the parts in order.
LEMMA UopsAscend ==
    ASSUME Sliced, NEW k \in 1..Len(trace), Kind(trace[k].form) \in PartKinds,
           NEW u \in UopsOf(k), NEW w \in UopsOf(k), u <= w
    PROVE  uops[u].part <= uops[w].part
<1>1. PICK f \in self.forms, base \in Nat :
        /\ f = trace[k].form
        /\ UopsOf(k) = {base + j : j \in DOMAIN Expanded(f)}
        /\ \A j \in DOMAIN Expanded(f) : uops[base + j].part = Expanded(f)[j].part
  BY DEF Sliced, SlotInv, LayoutInv
<1>2. self \in Profiles /\ Refusal(f) = "none" /\ Dynamic(f)
  BY <1>1, MacroFacts
<1>3. PICK j \in DOMAIN Expanded(f), m \in DOMAIN Expanded(f) : u = base + j /\ w = base + m
  BY <1>1
<1>4. j <= m
  <2>1. j \in Nat /\ m \in Nat
    BY <1>2, SlotsAreTyped
  <2> QED
    BY <2>1, <1>3
<1> QED
  BY <1>1, <1>2, <1>3, <1>4, PartsAscend

\* Only the uops of an instruction that keeps a slot each wait for an issue.
LEMMA OnlyScalarsWait ==
    ASSUME Sliced, NEW k \in 1..Len(trace), NEW u \in UopsOf(k), uops[u].after # 0
    PROVE  Kind(trace[k].form) = "scalar"
<1>1. PICK f \in self.forms, base \in Nat :
        /\ f = trace[k].form
        /\ UopsOf(k) = {base + j : j \in DOMAIN Expanded(f)}
        /\ \A j \in DOMAIN Expanded(f) :
              uops[base + j].after # 0 => ~Dynamic(f) /\ RecipeOf(f).parts # 0
  BY DEF Sliced, SlotInv, LayoutInv
<1> QED
  BY <1>1, MacroFacts

\* The data of an access is moved by uops of one kind, one in each part or, where
\* the expander chains the instruction, one of all.
LEMMA DataFacts ==
    ASSUME Sliced, NEW k \in 1..Len(trace), trace[k].form.memory
    PROVE  \E kind \in DataKinds :
              /\ kind \in {uops[u].kind : u \in UopsOf(k)}
              /\ \A u \in UopsOf(k) : uops[u].kind \in DataKinds => uops[u].kind = kind
              /\ \A u, w \in UopsOf(k) :
                    /\ uops[u].kind \in DataKinds /\ uops[w].kind \in DataKinds
                    /\ Kind(trace[k].form) # "scalar"
                    /\ Kind(trace[k].form) \in PartKinds => uops[u].part = uops[w].part
                    => u = w
<1>1. PICK f \in self.forms, base \in Nat :
        /\ f = trace[k].form
        /\ UopsOf(k) = {base + j : j \in DOMAIN Expanded(f)}
        /\ \A j \in DOMAIN Expanded(f) : /\ uops[base + j].part = Expanded(f)[j].part
                                         /\ uops[base + j].kind = Expanded(f)[j].kind
  BY DEF Sliced, SlotInv, LayoutInv
<1>2. self \in Profiles /\ Refusal(f) = "none" /\ Serves(f) /\ OneDataEntry(f) /\ f.memory
  BY <1>1, MacroFacts
<1>3. Kind(f) # "scalar" => Kind(f) \in PartKinds \/ ~Dynamic(f)
  BY <1>1, <1>2, MacroFacts
<1> DEFINE S == Expanded(f)
<1>4. PICK j0 \in DOMAIN S :
        /\ S[j0].kind \in DataKinds
        /\ \A j \in DOMAIN S : S[j].kind \in DataKinds =>
              /\ S[j].kind = S[j0].kind
              /\ \A m \in DOMAIN S :
                    /\ S[m].kind \in DataKinds
                    /\ Dynamic(f) => S[j].part = S[m].part
                    => j = m
  BY <1>2, OneDataSlot
<1>5. S[j0].kind \in {uops[u].kind : u \in UopsOf(k)}
  BY <1>1, <1>4
<1>6. \A u \in UopsOf(k) : uops[u].kind \in DataKinds => uops[u].kind = S[j0].kind
  BY <1>1, <1>4
<1>7. ASSUME NEW u \in UopsOf(k), NEW w \in UopsOf(k),
             uops[u].kind \in DataKinds, uops[w].kind \in DataKinds,
             Kind(f) # "scalar", Kind(f) \in PartKinds => uops[u].part = uops[w].part
      PROVE  u = w
  <2>1. PICK j \in DOMAIN S, m \in DOMAIN S : u = base + j /\ w = base + m
    BY <1>1
  <2>2. Dynamic(f) => S[j].part = S[m].part
    BY <2>1, <1>1, <1>3, <1>7
  <2>3. j = m
    BY <2>1, <2>2, <1>1, <1>4, <1>7
  <2> QED
    BY <2>1, <2>3
<1> QED
  BY <1>1, <1>4, <1>5, <1>6, <1>7

-----------------------------------------------------------------------------
(* The slot of each uop.                                                    *)

\* The slot that the expander gives a uop to.
Home(u) ==
    LET k == uops[u].parent
        kind == Kind(trace[k].form)
    IN  IF kind \in ChainKinds THEN <<k, 0, Decoded(k)>>
        ELSE IF kind \in PartKinds /\ uops[u].part # NoPart THEN <<k, 1, uops[u].part>>
        ELSE <<k, 0, u>>

\* The slots of an instruction, by the class of its expansion.
LEMMA GroupFacts ==
    ASSUME Sliced, NEW k \in 1..Len(trace), NEW f, f = trace[k].form
    PROVE  /\ Kind(f) \in ChainKinds => Groups(k) = Chain(k)
           /\ Kind(f) \in PartKinds => Groups(k) = PrepAndParts(k)
           /\ Kind(f) = "scalar" => Groups(k) = {<<k, 0, u>> : u \in UopsOf(k)}
           /\ \A s \in Groups(k) : s[1] = k
<1>1. ChainKinds \cap PartKinds = {} /\ "scalar" \notin ChainKinds \cup PartKinds
  BY DEF ChainKinds, PartKinds
<1>2. /\ Kind(f) \in ChainKinds => Groups(k) = Chain(k)
      /\ Kind(f) \in PartKinds => Groups(k) = PrepAndParts(k)
      /\ Kind(f) = "scalar" => Groups(k) = {<<k, 0, u>> : u \in UopsOf(k)}
  BY <1>1 DEF Groups, PartKinds
<1>3. Kind(f) \in ChainKinds \cup PartKinds \cup {"scalar"}
  BY MacroFacts
<1>4. /\ \A s \in Chain(k) : s[1] = k
      /\ \A s \in PrepAndParts(k) : s[1] = k
      /\ \A s \in {<<k, 0, u>> : u \in UopsOf(k)} : s[1] = k
  BY DEF Chain, PrepAndParts
<1> QED
  BY <1>2, <1>3, <1>4


\* A uop is owned by its slot, and by no other.
LEMMA HomeFacts ==
    ASSUME Sliced, NEW u \in DOMAIN uops
    PROVE  /\ Home(u) \in Slots /\ u \in Members(Home(u)) /\ Home(u)[1] = uops[u].parent
           /\ \A s \in Slots : u \in Members(s) => s = Home(u)
           /\ Home(u) \in Groups(uops[u].parent)
<1>1. /\ Len(trace) \in Nat /\ DOMAIN trace = 1..Len(trace) /\ Len(uops) \in Nat
      /\ DOMAIN uops = 1..Len(uops)
      /\ BinderInv
  BY Lengths DEF Sliced, SlotInv, ExpandableInv
<1>2. PICK k \in 1..Len(trace) : k = uops[u].parent
  BY <1>1 DEF BinderInv, ParentInv
<1>3. PICK f : f = trace[k].form
  OBVIOUS
<1>4. u \in UopsOf(k)
  BY <1>2 DEF UopsOf
<1>5. /\ Kind(f) \in ChainKinds \cup PartKinds \cup {"scalar"}
      /\ Kind(f) \in ChainKinds => Decoded(k) \in Nat \ {0}
  BY <1>3, MacroFacts
<1>6. ChainKinds \cap PartKinds = {} /\ "scalar" \notin ChainKinds \cup PartKinds
  BY DEF ChainKinds, PartKinds
<1>7. /\ Kind(f) \in ChainKinds => Groups(k) = Chain(k)
      /\ Kind(f) \in PartKinds => Groups(k) = PrepAndParts(k)
      /\ Kind(f) = "scalar" => Groups(k) = {<<k, 0, w>> : w \in UopsOf(k)}
  BY <1>3, GroupFacts
<1>8. Home(u) \in Groups(k) /\ Home(u)[1] = k /\ u \in Members(Home(u))
  <2>1. CASE Kind(f) \in ChainKinds
    <3>1. Home(u) = <<k, 0, Decoded(k)>>
      BY <2>1, <1>2, <1>3 DEF Home
    <3>2. Home(u) \in Chain(k)
      BY <3>1, <2>1, <1>5 DEF Chain
    <3> QED
      BY <3>1, <3>2, <2>1, <1>3, <1>4, <1>7 DEF Members, Chained
  <2>2. CASE Kind(f) \in PartKinds /\ uops[u].part # NoPart
    <3>1. Home(u) = <<k, 1, uops[u].part>>
      BY <2>2, <1>2, <1>3, <1>6 DEF Home
    <3>2. Home(u) \in PrepAndParts(k)
      BY <3>1, <2>2, <1>4 DEF PrepAndParts, PartsOf
    <3>3. Kind(trace[Home(u)[1]].form) \notin ChainKinds
      BY <3>1, <2>2, <1>3, <1>6
    <3> QED
      BY <3>1, <3>2, <3>3, <2>2, <1>4, <1>7 DEF Members, Chained
  <2>3. CASE Kind(f) \notin ChainKinds /\ ~(Kind(f) \in PartKinds /\ uops[u].part # NoPart)
    <3>1. Home(u) = <<k, 0, u>>
      BY <2>3, <1>2, <1>3 DEF Home
    <3>2. Home(u) \in Groups(k)
      <4>1. CASE Kind(f) \in PartKinds
        BY <4>1, <3>1, <2>3, <1>4, <1>7 DEF PrepAndParts, PrepUops
      <4>2. CASE Kind(f) = "scalar"
        BY <4>2, <3>1, <1>4, <1>7
      <4> QED
        BY <4>1, <4>2, <2>3, <1>5
    <3>3. Kind(trace[Home(u)[1]].form) \notin ChainKinds
      BY <3>1, <2>3, <1>3
    <3> QED
      BY <3>1, <3>2, <3>3 DEF Members, Chained
  <2> QED
    BY <2>1, <2>2, <2>3
<1>9. ASSUME NEW s \in Slots, u \in Members(s) PROVE s = Home(u)
  <2>1. PICK m \in 1..Len(trace) : s \in Groups(m)
    BY <1>1 DEF Slots
  <2>2. PICK g : g = trace[m].form
    OBVIOUS
  <2>3. /\ Kind(g) \in ChainKinds => s \in Chain(m)
        /\ Kind(g) \in PartKinds => s \in PrepAndParts(m)
        /\ Kind(g) = "scalar" => s \in {<<m, 0, w>> : w \in UopsOf(m)}
        /\ s[1] = m
    BY <2>1, <2>2, GroupFacts
  <2>4. Kind(g) \in ChainKinds \cup PartKinds \cup {"scalar"}
    BY <2>2, MacroFacts
  <2>5. CASE Kind(g) \in ChainKinds
    <3>1. s[3] = Decoded(m) /\ u \in UopsOf(m)
      BY <2>2, <2>3, <2>5, <1>9 DEF Members, Chained
    <3>2. m = k
      BY <3>1, <1>2 DEF UopsOf
    <3>3. s = <<m, 0, s[3]>>
      BY <2>3, <2>5 DEF Chain
    <3>4. Home(u) = <<k, 0, Decoded(k)>>
      BY <3>2, <2>2, <2>5, <1>2 DEF Home
    <3> QED
      BY <3>1, <3>2, <3>3, <3>4
  <2>6. CASE Kind(g) \in PartKinds
    <3>1. ~Chained(s)
      BY <2>2, <2>3, <2>6, <1>6 DEF Chained
    <3>2. CASE s \in {<<m, 0, w>> : w \in PrepUops(m)}
      <4>1. PICK w \in PrepUops(m) : s = <<m, 0, w>>
        BY <3>2
      <4>2. u = w
        BY <4>1, <3>1, <1>9 DEF Members
      <4>3. m = k /\ uops[u].part = NoPart
        BY <4>1, <4>2, <1>2 DEF PrepUops, UopsOf
      <4> QED
        BY <4>1, <4>2, <4>3, <2>2, <2>6, <1>2, <1>6 DEF Home
    <3>3. CASE s \in {<<m, 1, p>> : p \in PartsOf(m)}
      <4>1. PICK p \in PartsOf(m) : s = <<m, 1, p>>
        BY <3>3
      <4>2. u \in UopsOf(m) /\ uops[u].part = p
        BY <4>1, <3>1, <1>9 DEF Members
      <4>3. m = k /\ p # NoPart
        BY <4>1, <4>2, <1>2 DEF PartsOf, UopsOf
      <4> QED
        BY <4>1, <4>2, <4>3, <2>2, <2>6, <1>2, <1>6 DEF Home
    <3> QED
      BY <3>2, <3>3, <2>3, <2>6 DEF PrepAndParts
  <2>7. CASE Kind(g) = "scalar"
    <3>1. ~Chained(s)
      BY <2>2, <2>3, <2>7, <1>6 DEF Chained
    <3>2. PICK w \in UopsOf(m) : s = <<m, 0, w>>
      BY <2>3, <2>7
    <3>3. u = w
      BY <3>1, <3>2, <1>9 DEF Members
    <3>4. m = k
      BY <3>2, <3>3, <1>2 DEF UopsOf
    <3> QED
      BY <3>2, <3>3, <3>4, <2>2, <2>7, <1>2, <1>6 DEF Home
  <2> QED
    BY <2>4, <2>5, <2>6, <2>7
<1>10. Home(u) \in Slots
  BY <1>1, <1>8 DEF Slots
<1> QED
  BY <1>2, <1>8, <1>9, <1>10

\* execution_owner maps each uop to its slot, which alone owns it.
LEMMA OwnerIsHome ==
    ASSUME Sliced
    PROVE  \A u \in DOMAIN uops : Owner[u] = Home(u)
<1> SUFFICES ASSUME NEW u \in DOMAIN uops PROVE Owner[u] = Home(u)
  OBVIOUS
<1>1. Owner[u] = CHOOSE s \in Slots : u \in Members(s)
  BY DEF Owner
<1>2. Home(u) \in Slots /\ u \in Members(Home(u))
  BY HomeFacts
<1>3. Owner[u] \in Slots /\ u \in Members(Owner[u])
  BY <1>1, <1>2
<1> QED
  BY <1>3, HomeFacts

\* No uop is in two slots, and none is in no slot.
LEMMA EachIsOwnedOnce == Sliced => OwnedOnce
<1> SUFFICES ASSUME Sliced, NEW u \in DOMAIN uops
             PROVE  Cardinality({s \in Slots : u \in Members(s)}) = 1
  BY DEF OwnedOnce
<1>1. {s \in Slots : u \in Members(s)} = {Home(u)}
  BY HomeFacts
<1> QED
  BY <1>1, FS_Singleton


\* Slots are in the order of their uops.
LEMMA HomesAscend ==
    ASSUME Sliced, NEW u \in DOMAIN uops, NEW d \in DOMAIN uops, d < u, Home(d) # Home(u)
    PROVE  Before(Home(d), Home(u))
<1>1. /\ Len(trace) \in Nat /\ DOMAIN trace = 1..Len(trace) /\ Len(uops) \in Nat
      /\ DOMAIN uops = 1..Len(uops)
      /\ \A w \in DOMAIN uops : uops[w].parent \in 1..Len(trace) /\ uops[w].part \in Int
      /\ BinderInv
  <2>1. BinderInv
    BY DEF Sliced, SlotInv, ExpandableInv
  <2>2. \A w \in DOMAIN uops : uops[w] \in UopType
    BY <2>1, Lengths
  <2> QED
    BY <2>1, <2>2, Lengths DEF BinderInv, ParentInv, UopType
<1>2. PICK k \in 1..Len(trace), m \in 1..Len(trace) : k = uops[u].parent /\ m = uops[d].parent
  BY <1>1
<1>3. m <= k
  BY <1>1, <1>2 DEF Sliced, SlotInv, AscendInv
<1>4. Home(u)[1] = k /\ Home(d)[1] = m
  BY <1>2, HomeFacts
<1>5. CASE m < k
  BY <1>4, <1>5 DEF Before
<1>6. CASE m = k
  <2>1. PICK f : f = trace[k].form
    OBVIOUS
  <2>2. u \in UopsOf(k) /\ d \in UopsOf(k)
    BY <1>2, <1>6 DEF UopsOf
  <2>3. Kind(f) \notin ChainKinds
    BY <2>1, <1>2, <1>6 DEF Home
  <2>4. CASE Kind(f) \in PartKinds
    <3>1. uops[d].part <= uops[u].part
      BY <2>1, <2>2, <2>4, <1>1, UopsAscend
    <3>2. \A w \in UopsOf(k) : uops[w].part # NoPart => uops[w].part >= 0
      <4>1. PICK g \in self.forms, base \in Nat :
              /\ g = trace[k].form /\ Refusal(g) = "none"
              /\ UopsOf(k) = {base + j : j \in DOMAIN Expanded(g)}
              /\ \A j \in DOMAIN Expanded(g) : uops[base + j].part = Expanded(g)[j].part
        BY DEF Sliced, SlotInv, LayoutInv
      <4>2. self \in Profiles
        BY <1>1 DEF BinderInv
      <4> QED
        BY <4>1, <4>2, SlotsAreTyped DEF SlotType
    <3>3. NoPart = -1
      BY DEF NoPart
    <3>4. Home(u) = IF uops[u].part # NoPart THEN <<k, 1, uops[u].part>> ELSE <<k, 0, u>>
      BY <2>1, <2>3, <2>4, <1>2 DEF Home
    <3>5. Home(d) = IF uops[d].part # NoPart THEN <<k, 1, uops[d].part>> ELSE <<k, 0, d>>
      BY <2>1, <2>3, <2>4, <1>2, <1>6 DEF Home
    <3>6. CASE uops[u].part = NoPart
      <4>1. uops[d].part = NoPart
        BY <3>1, <3>2, <3>3, <3>6, <2>2, <1>1
      <4>2. Home(u) = <<k, 0, u>> /\ Home(d) = <<k, 0, d>>
        BY <4>1, <3>4, <3>5, <3>6
      <4> QED
        BY <4>2 DEF Before
    <3>7. CASE uops[u].part # NoPart /\ uops[d].part = NoPart
      <4>1. Home(u) = <<k, 1, uops[u].part>> /\ Home(d) = <<k, 0, d>>
        BY <3>4, <3>5, <3>7
      <4> QED
        BY <4>1 DEF Before
    <3>8. CASE uops[u].part # NoPart /\ uops[d].part # NoPart
      <4>1. Home(u) = <<k, 1, uops[u].part>> /\ Home(d) = <<k, 1, uops[d].part>>
        BY <3>4, <3>5, <3>8
      <4>2. uops[d].part # uops[u].part
        BY <4>1
      <4>3. uops[d].part < uops[u].part
        BY <4>2, <3>1, <1>1
      <4> QED
        BY <4>1, <4>3 DEF Before
    <3> QED
      BY <3>6, <3>7, <3>8
  <2>5. CASE Kind(f) \notin PartKinds
    <3>1. Home(u) = <<k, 0, u>> /\ Home(d) = <<k, 0, d>>
      BY <2>1, <2>3, <2>5, <1>2, <1>6 DEF Home
    <3> QED
      BY <3>1 DEF Before
  <2> QED
    BY <2>4, <2>5
<1> QED
  BY <1>3, <1>5, <1>6

\* A set of numbers below a bound has a latest one.
LEMMA LatestIsGreatest ==
    ASSUME NEW n \in Nat, NEW S \in SUBSET (1..n), S # {}
    PROVE  Latest(S) \in S /\ \A w \in S : w <= Latest(S)
<1> DEFINE T == {n - u : u \in S}
<1>1. T \in SUBSET Nat /\ T # {}
  <2>1. \A u \in S : n - u \in Nat
    OBVIOUS
  <2> QED
    BY <2>1, Zenon
<1>2. FirstOf(T) \in T /\ \A m \in T : FirstOf(T) <= m
  BY <1>1, FirstIsLeast
<1>3. PICK u \in S : FirstOf(T) = n - u
  BY <1>2
<1>4. ASSUME NEW w \in S PROVE w <= u
  <2>1. n - w \in T
    OBVIOUS
  <2>2. n - u <= n - w
    BY <2>1, <1>2, <1>3
  <2>3. u \in 1..n /\ w \in 1..n
    OBVIOUS
  <2> HIDE DEF T
  <2> QED
    BY <2>2, <2>3
<1> QED
  BY <1>4 DEF Latest

\* What a slot copies is one of the uops it owns, a data access if it has one;
\* a slot that owns none copies a uop of its instruction.
LEMMA CopiedFacts ==
    ASSUME Sliced, NEW s, Members(s) \subseteq DOMAIN uops,
           Members(s) # {} \/ UopsOf(s[1]) # {}
    PROVE  /\ Members(s) # {} => CopiedUop(s) \in Members(s)
           /\ Members(s) = {} => CopiedUop(s) \in UopsOf(s[1])
           /\ \A u \in Members(s) : uops[u].kind \in DataKinds =>
                 uops[CopiedUop(s)].kind \in DataKinds
<1>1. PICK n \in Nat : DOMAIN uops = 1..n
  BY Lengths DEF Sliced, SlotInv, ExpandableInv
<1> DEFINE members == IF Members(s) = {} THEN UopsOf(s[1]) ELSE Members(s)
           from == IF DataMembers(members) = {} THEN members ELSE DataMembers(members)
<1>2. members \subseteq 1..n /\ members # {}
  BY <1>1 DEF UopsOf
<1>3. from \subseteq members /\ from # {}
  BY <1>2 DEF DataMembers
<1>4. CopiedUop(s) = Latest(from)
  BY DEF CopiedUop
<1>5. from \in SUBSET (1..n)
  BY <1>2, <1>3
<1> HIDE DEF from
<1>6. Latest(from) \in from
  BY <1>3, <1>5, LatestIsGreatest
<1>7. ASSUME NEW u \in Members(s), uops[u].kind \in DataKinds
      PROVE  uops[CopiedUop(s)].kind \in DataKinds
  <2>1. u \in DataMembers(members)
    BY <1>7 DEF DataMembers
  <2> QED
    BY <2>1, <1>4, <1>6 DEF from, DataMembers
<1> QED
  BY <1>3, <1>4, <1>6, <1>7


\* A slot owns uops of its instruction, some of them unless it is in a chain.
LEMMA SlotFacts ==
    ASSUME Sliced, NEW s \in Slots
    PROVE  /\ s[1] \in 1..Len(trace) /\ s \in Groups(s[1])
           /\ Members(s) \subseteq UopsOf(s[1]) /\ UopsOf(s[1]) # {}
           /\ UopsOf(s[1]) \subseteq DOMAIN uops
           /\ Chained(s) => s \in Chain(s[1])
           /\ ~Chained(s) => Members(s) # {}
<1>1. DOMAIN trace = 1..Len(trace)
  BY Lengths DEF Sliced, SlotInv, ExpandableInv
<1>2. PICK k \in 1..Len(trace) : s \in Groups(k)
  BY <1>1 DEF Slots
<1>3. PICK f : f = trace[k].form
  OBVIOUS
<1>4. /\ Kind(f) \in ChainKinds => s \in Chain(k)
      /\ Kind(f) \in PartKinds => s \in PrepAndParts(k)
      /\ Kind(f) = "scalar" => s \in {<<k, 0, w>> : w \in UopsOf(k)}
      /\ s[1] = k
  BY <1>2, <1>3, GroupFacts
<1>5. Kind(f) \in ChainKinds \cup PartKinds \cup {"scalar"}
  BY <1>3, MacroFacts
<1>6. UopsOf(k) # {}
  <2>1. PICK g \in self.forms, base \in Nat :
          Refusal(g) = "none" /\ UopsOf(k) = {base + j : j \in DOMAIN Expanded(g)}
    BY DEF Sliced, SlotInv, LayoutInv
  <2>2. 1 \in DOMAIN Expanded(g)
    BY <2>1, MacroFacts, SlotsAreTyped
  <2> QED
    BY <2>1, <2>2
<1>7. CASE Kind(f) \in ChainKinds
  BY <1>2, <1>3, <1>4, <1>6, <1>7 DEF Members, Chained, UopsOf
<1>8. CASE Kind(f) \notin ChainKinds
  <2>1. ~Chained(s)
    BY <1>3, <1>4, <1>8 DEF Chained
  <2>2. s \in {<<k, 0, w>> : w \in UopsOf(k)} \cup {<<k, 1, p>> : p \in PartsOf(k)}
    BY <1>4, <1>5, <1>8 DEF PrepAndParts, PrepUops
  <2>3. CASE s \in {<<k, 0, w>> : w \in UopsOf(k)}
    <3>1. PICK w \in UopsOf(k) : s = <<k, 0, w>>
      BY <2>3
    <3>2. Members(s) = {w}
      BY <3>1, <2>1 DEF Members
    <3> QED
      BY <3>1, <3>2, <2>1, <1>2, <1>4, <1>6 DEF UopsOf
  <2>4. CASE s \in {<<k, 1, p>> : p \in PartsOf(k)}
    <3>1. PICK p \in PartsOf(k) : s = <<k, 1, p>>
      BY <2>4
    <3>2. Members(s) = {u \in UopsOf(k) : uops[u].part = p}
      BY <3>1, <2>1 DEF Members
    <3>3. Members(s) # {} /\ Members(s) \subseteq UopsOf(k)
      BY <3>1, <3>2 DEF PartsOf
    <3> QED
      BY <3>3, <2>1, <1>2, <1>4, <1>6 DEF UopsOf
  <2> QED
    BY <2>2, <2>3, <2>4
<1> QED
  BY <1>7, <1>8

\* A slot waits for earlier slots, which the links of its chain are too.
LEMMA Backward == Sliced => SlotsBackward
<1> SUFFICES ASSUME Sliced, NEW s \in Slots,
                    NEW t \in SlotDependencies(Owner, s) \cup SlotAfter(Owner, s)
             PROVE  t \in Slots /\ Before(t, s)
  BY Zenon DEF SlotsBackward
<1>1. /\ DOMAIN trace = 1..Len(trace) /\ Len(uops) \in Nat /\ DOMAIN uops = 1..Len(uops)
      /\ BinderInv
  BY Lengths DEF Sliced, SlotInv, ExpandableInv
<1>2. /\ s[1] \in 1..Len(trace) /\ s \in Groups(s[1])
      /\ Members(s) \subseteq UopsOf(s[1]) /\ UopsOf(s[1]) # {}
      /\ UopsOf(s[1]) \subseteq DOMAIN uops
  BY SlotFacts
<1>3. ASSUME NEW u \in Members(s), NEW d \in DOMAIN uops, d < u, t = Owner[d], t # s
      PROVE  t \in Slots /\ Before(t, s)
  <2>1. u \in DOMAIN uops
    BY <1>2
  <2>2. s = Home(u) /\ t = Home(d) /\ t \in Slots
    BY <2>1, <1>3, HomeFacts, OwnerIsHome
  <2> QED
    BY <2>1, <2>2, <1>3, HomesAscend
<1>4. CASE Chained(s) /\ s[3] > 1 /\ t = <<s[1], 0, s[3] - 1>>
  <2>1. PICK k : k = s[1]
    OBVIOUS
  <2>2. s \in Chain(k) /\ Decoded(k) \in Nat \ {0} /\ Groups(k) = Chain(k)
    BY <2>1, <1>2, <1>4, SlotFacts, MacroFacts, GroupFacts DEF Chained
  <2>3. PICK j \in 1..Decoded(k) : s = <<k, 0, j>>
    BY <2>2 DEF Chain
  <2>4. t = <<k, 0, j - 1>> /\ j - 1 \in 1..Decoded(k)
    BY <2>2, <2>3, <1>4
  <2>5. t \in Groups(k)
    BY <2>2, <2>4 DEF Chain
  <2> QED
    BY <2>1, <2>3, <2>4, <2>5, <1>1, <1>2 DEF Slots, Before
<1>5. CASE \E u \in Members(s) : \E d \in uops[u].dependencies : t = Owner[d] /\ t # s
  <2>1. PICK u \in Members(s) : \E d \in uops[u].dependencies : t = Owner[d] /\ t # s
    BY <1>5
  <2>2. PICK d \in uops[u].dependencies : t = Owner[d] /\ t # s
    BY <2>1
  <2>3. d \in 1..(u - 1) /\ u \in 1..Len(uops)
    BY <2>2, <1>1, <1>2 DEF BinderInv, DependenciesBackward
  <2> QED
    BY <2>2, <2>3, <1>1, <1>3
<1>6. CASE t \in SlotAfter(Owner, s)
  <2> DEFINE c == CopiedUop(s)
             after == uops[c].after
  <2>1. after # 0 /\ t = Owner[after] /\ t # s
    BY <1>6 DEF SlotAfter
  <2>2. /\ Members(s) # {} => c \in Members(s)
        /\ Members(s) = {} => c \in UopsOf(s[1])
    BY <1>2, CopiedFacts
  <2> HIDE DEF c
  <2>3. c \in UopsOf(s[1]) /\ c \in DOMAIN uops
    BY <2>2, <1>2
  <2>4. Kind(trace[s[1]].form) = "scalar"
    BY <2>1, <2>3, <1>2, OnlyScalarsWait
  <2>5. c \in Members(s)
    <3>1. ~Chained(s)
      BY <2>4 DEF Chained, ChainKinds
    <3> QED
      BY <3>1, <2>2, SlotFacts
  <2>6. after < c /\ after \in Nat
    <3>1. uops[c] \in UopType
      BY <2>3, <1>1, Lengths
    <3> QED
      BY <3>1, <2>3, <1>1 DEF BinderInv, DependenciesBackward, UopType
  <2>7. after \in DOMAIN uops
    BY <2>1, <2>3, <2>6, <1>1
  <2> QED
    BY <2>1, <2>5, <2>6, <2>7, <1>3
<1> QED
  BY <1>4, <1>5, <1>6 DEF SlotDependencies

\* Who waits for a chain waits for its last link, and each link for the one before.
LEMMA AwaitsChain == Sliced => ConsumersAwaitChain
<1> SUFFICES ASSUME Sliced, NEW s \in Slots, NEW d \in SlotDependencies(Owner, s),
                    Chained(d), d[1] # s[1], NEW links \in SUBSET Chain(d[1]), d \in links,
                    \A t \in links : SlotDependencies(Owner, t) \cap Chain(d[1]) \subseteq links
             PROVE  links = Chain(d[1])
  BY Zenon DEF ConsumersAwaitChain
<1>1. BinderInv /\ DOMAIN uops = 1..Len(uops) /\ Len(uops) \in Nat
  BY Lengths DEF Sliced, SlotInv, ExpandableInv
<1>2. PICK k : k = d[1]
  OBVIOUS
<1>3. PICK w \in DOMAIN uops : d = Home(w)
  <2>1. d # <<s[1], 0, s[3] - 1>>
    OBVIOUS
  <2>2. PICK u \in Members(s) : \E e \in uops[u].dependencies : d = Owner[e]
    BY <2>1 DEF SlotDependencies
  <2>3. PICK e \in uops[u].dependencies : d = Owner[e]
    BY <2>2
  <2>4. u \in DOMAIN uops
    BY SlotFacts
  <2>5. e \in DOMAIN uops
    BY <2>3, <2>4, <1>1 DEF BinderInv, DependenciesBackward
  <2> QED
    BY <2>3, <2>5, OwnerIsHome
<1>4. k \in 1..Len(trace) /\ k = uops[w].parent /\ Kind(trace[k].form) \in ChainKinds
  <2>1. d \in Slots /\ d[1] = uops[w].parent
    BY <1>3, HomeFacts
  <2> QED
    BY <2>1, <1>2, SlotFacts DEF Chained
<1>5. PICK n \in Nat \ {0} : n = Decoded(k)
  BY <1>4, MacroFacts
<1>6. d = <<k, 0, n>>
  BY <1>3, <1>4, <1>5 DEF Home
<1> DEFINE missing == {i \in 0..(n - 1) : <<k, 0, n - i>> \notin links}
<1>7. missing = {}
  <2> SUFFICES ASSUME missing # {} PROVE FALSE
    OBVIOUS
  <2>1. missing \in SUBSET Nat
    OBVIOUS
  <2>2. PICK m \in missing : \A i \in missing : m <= i
    <3> HIDE DEF missing
    <3> QED
      BY <2>1, FirstIsLeast
  <2>3. m # 0
    <3>1. n - 0 = n
      OBVIOUS
    <3>2. 0 \notin missing
      BY <3>1, <1>6
    <3> QED
      BY <3>2
  <2>4. m \in 0..(n - 1) /\ m - 1 \in 0..(n - 1) /\ m - 1 \notin missing
    BY <2>2, <2>3
  <2>5. PICK t : t = <<k, 0, n - (m - 1)>>
    OBVIOUS
  <2>6. t \in links /\ t[1] = k /\ t[3] > 1 /\ t[3] - 1 = n - m
    BY <2>4, <2>5
  <2>7. <<k, 0, n - m>> \in SlotDependencies(Owner, t)
    BY <2>6, <1>4 DEF SlotDependencies, Chained
  <2>8. <<k, 0, n - m>> \in Chain(k)
    BY <2>4, <1>5 DEF Chain
  <2>9. <<k, 0, n - m>> \in links
    BY <2>6, <2>7, <2>8, <1>2
  <2> QED
    BY <2>2, <2>9
<1>8. ASSUME NEW t \in Chain(k) PROVE t \in links
  <2>1. PICK j \in 1..n : t = <<k, 0, j>>
    BY <1>5 DEF Chain
  <2>2. n - j \in 0..(n - 1) /\ n - (n - j) = j
    OBVIOUS
  <2> QED
    BY <2>1, <2>2, <1>7
<1> QED
  BY <1>2, <1>8

\* A slot that carries data of an access carries those of its own uop, and the
\* uops move every byte once.
LEMMA TileMemory == Sliced => SlotsTileMemory
<1> DEFINE covers(u, b) == uops[u].memory.start <= b /\ b < uops[u].memory.start + uops[u].memory.bytes
           carries(s, b) == Members(s) # {} /\ uops[CopiedUop(s)].kind \in DataKinds
                            /\ covers(CopiedUop(s), b)
<1> SUFFICES ASSUME Sliced, NEW k \in DOMAIN trace, trace[k].form.memory,
                    NEW b \in 0..(trace[k].form.bytes - 1)
             PROVE  Cardinality({s \in Groups(k) : carries(s, b)}) = 1
  BY Zenon DEF SlotsTileMemory
<1>1. DOMAIN trace = 1..Len(trace) /\ MemoryTiled /\ UopsOf(k) \subseteq DOMAIN uops
  BY Lengths DEF Sliced, SlotInv, ExpandableInv, ServingInv, UopsOf
<1>2. PICK f : f = trace[k].form
  OBVIOUS
<1>3. PICK kind \in DataKinds :
        /\ kind \in {uops[u].kind : u \in UopsOf(k)}
        /\ \A u \in UopsOf(k) : uops[u].kind \in DataKinds => uops[u].kind = kind
        /\ \A u, w \in UopsOf(k) :
              /\ uops[u].kind \in DataKinds /\ uops[w].kind \in DataKinds
              /\ Kind(f) # "scalar"
              /\ Kind(f) \in PartKinds => uops[u].part = uops[w].part
              => u = w
  BY <1>1, <1>2, DataFacts
<1> DEFINE moving == {u \in UopsOf(k) : /\ uops[u].kind = kind
                                        /\ uops[u].memory.start <= b
                                        /\ b < uops[u].memory.start + uops[u].memory.bytes}
<1>4. Cardinality(moving) = 1
  <2>1. kind \in MemoryKinds
    BY DEF DataKinds, MemoryKinds
  <2> QED
    BY <2>1, <1>1, <1>3 DEF MemoryTiled
<1>5. PICK u0 : moving = {u0}
  <2>1. IsFiniteSet(UopsOf(k))
    <3>1. Len(uops) \in Nat /\ DOMAIN uops = 1..Len(uops)
      BY Lengths DEF Sliced, SlotInv, ExpandableInv
    <3>2. Len(uops) \in Int /\ 1 \in Int
      BY <3>1
    <3>3. IsFiniteSet(1..Len(uops))
      BY <3>2, FS_Interval
    <3> QED
      BY <3>1, <3>3, <1>1, FS_Subset
  <2>2. IsFiniteSet(moving)
    <3>1. moving \subseteq UopsOf(k)
      OBVIOUS
    <3> QED
      BY <3>1, <2>1, FS_Subset
  <2> HIDE DEF moving
  <2> QED
    BY <2>2, <1>4, FS_Singleton
<1>6. \A u \in UopsOf(k) : uops[u].kind \in DataKinds /\ covers(u, b) <=> u = u0
  <2>1. \A u : u \in moving <=> u = u0
    BY <1>5
  <2> QED
    BY <2>1, <1>3
<1>7. u0 \in UopsOf(k) /\ uops[u0].kind \in DataKinds /\ covers(u0, b)
  BY <1>3, <1>5
<1>8. Home(u0) \in Groups(k) /\ u0 \in Members(Home(u0)) /\ Home(u0) \in Slots /\ Home(u0)[1] = k
  <2>1. uops[u0].parent = k /\ u0 \in DOMAIN uops
    BY <1>7 DEF UopsOf
  <2> QED
    BY <2>1, HomeFacts
<1> HIDE DEF moving, covers
<1>9. carries(Home(u0), b)
  <2> DEFINE c == CopiedUop(Home(u0))
  <2>1. Members(Home(u0)) \subseteq UopsOf(k)
    BY <1>8, SlotFacts
  <2>2. c \in Members(Home(u0)) /\ uops[c].kind \in DataKinds
    BY <2>1, <1>1, <1>7, <1>8, CopiedFacts
  <2> HIDE DEF c
  <2>3. c \in UopsOf(k) /\ c \in DOMAIN uops /\ u0 \in DOMAIN uops
    BY <2>1, <2>2, <1>1, <1>7
  <2>4. Home(c) = Home(u0)
    BY <2>2, <2>3, <1>8, HomeFacts
  <2>5. uops[c].parent = k /\ uops[u0].parent = k
    BY <2>3, <1>7 DEF UopsOf
  <2>6. CASE Kind(f) \in ChainKinds
    <3>1. Kind(f) # "scalar" /\ Kind(f) \notin PartKinds
      BY <2>6 DEF ChainKinds, PartKinds
    <3>2. c = u0
      BY <3>1, <2>2, <2>3, <1>3, <1>7
    <3> QED
      BY <3>2, <2>2, <1>7 DEF c
  <2>7. CASE Kind(f) \in PartKinds
    <3>1. Kind(f) # "scalar" /\ Kind(f) \notin ChainKinds
      BY <2>7 DEF ChainKinds, PartKinds
    <3>2. /\ Home(c) = IF uops[c].part # NoPart THEN <<k, 1, uops[c].part>> ELSE <<k, 0, c>>
          /\ Home(u0) = IF uops[u0].part # NoPart THEN <<k, 1, uops[u0].part>> ELSE <<k, 0, u0>>
      BY <3>1, <2>5, <2>7, <1>2 DEF Home
    <3>3. uops[c].part = uops[u0].part
      BY <3>2, <2>4
    <3>4. c = u0
      BY <3>1, <3>3, <2>2, <2>3, <1>3, <1>7
    <3> QED
      BY <3>4, <2>2, <1>7 DEF c
  <2>8. CASE Kind(f) \notin ChainKinds \cup PartKinds
    <3>1. Home(c) = <<k, 0, c>> /\ Home(u0) = <<k, 0, u0>>
      BY <2>5, <2>8, <1>2 DEF Home
    <3>2. c = u0
      BY <3>1, <2>4
    <3> QED
      BY <3>2, <2>2, <1>7 DEF c
  <2> QED
    BY <2>6, <2>7, <2>8
<1>10. ASSUME NEW s \in Groups(k), carries(s, b) PROVE s = Home(u0)
  <2> DEFINE c == CopiedUop(s)
  <2>1. s \in Slots /\ s[1] = k
    BY <1>1, <1>10, GroupFacts DEF Slots
  <2>2. Members(s) \subseteq UopsOf(k)
    BY <2>1, SlotFacts
  <2>3. c \in Members(s)
    BY <2>2, <1>1, <1>10, CopiedFacts
  <2>4. c = u0
    BY <2>2, <2>3, <1>6, <1>10
  <2> QED
    BY <2>1, <2>3, <2>4, <1>1, <1>7, HomeFacts
<1>11. {s \in Groups(k) : carries(s, b)} = {Home(u0)}
  <2> HIDE DEF carries
  <2> QED
    BY <1>8, <1>9, <1>10
<1> QED
  BY <1>11, FS_Singleton

-----------------------------------------------------------------------------
(* The slots of every bound trace are faithful.                             *)

\* There is no slot at first.
LEMMA InitSlot == Init /\ (IsXsai => ProfileServes /\ RulesMatch) => SlotInv
<1> SUFFICES ASSUME Init, IsXsai => ProfileServes /\ RulesMatch PROVE SlotInv
  OBVIOUS
<1>1. 1..Len(trace) = {} /\ 1..Len(uops) = {}
  BY DEF Init
<1>2. ExpandableInv /\ (IsXsai => ServingInv)
  BY InitExpandable, InitServing
<1> QED
  BY <1>1, <1>2 DEF SlotInv, LayoutInv, AscendInv

\* Binding one instruction more adds slots after the others.
LEMMA StepSlot == SlotInv /\ [Next]_vars => SlotInv'
<1> SUFFICES ASSUME SlotInv, [Next]_vars PROVE SlotInv'
  OBVIOUS
<1>1. ExpandableInv'
  BY StepExpandable DEF SlotInv
<1>2. self' = self
  BY DEF Next, Bind, Reject, Stopped, vars
<1>3. IsXsai' => ServingInv'
  <2>1. IsXsai' = IsXsai
    BY <1>2 DEF IsXsai, Rules
  <2> QED
    BY <2>1, StepServing DEF SlotInv
<1>4. CASE UNCHANGED <<self, trace, uops, results, writer>>
  <2>1. \A f : Refusal(f)' = Refusal(f) /\ Expanded(f)' = Expanded(f) /\ Dynamic(f)' = Dynamic(f)
    BY <1>2, SelfDecides
  <2>2. \A k : UopsOf(k)' = UopsOf(k)
    BY <1>4 DEF UopsOf
  <2>3. LayoutInv' /\ AscendInv'
    BY <2>1, <2>2, <1>4 DEF SlotInv, LayoutInv, AscendInv
  <2> QED
    BY <2>3, <1>1, <1>3 DEF SlotInv
<1>5. ASSUME NEW f \in self.forms, Bind(f) PROVE SlotInv'
  <2>1. BinderInv
    BY DEF SlotInv, ExpandableInv
  <2>2. Refusal(f) = "none" /\ \E i : Binds(f, i)
    BY <2>1, <1>5, BindBinds
  <2>3. LayoutInv' /\ AscendInv'
    BY <2>1, <2>2, StepLayout, StepAscend DEF SlotInv
  <2> QED
    BY <2>3, <1>1, <1>3 DEF SlotInv
<1> QED
  BY <1>4, <1>5 DEF Next, Reject, Stopped, vars

\* Grouping the uops of a bound trace into slots repeats none and keeps its order,
\* its chains and its bytes.
THEOREM SlotsFaithfulHolds ==
    Spec /\ (IsXsai => ProfileServes /\ RulesMatch) => []SlotsFaithful
<1>1. SlotInv => SlotsFaithful
  BY EachIsOwnedOnce, Backward, AwaitsChain, TileMemory DEF SlotsFaithful, Sliced
<1> QED
  BY <1>1, InitSlot, StepSlot, PTL DEF Spec

=============================================================================
