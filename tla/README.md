# A verification development for the vector-core simulator of amd_perf

The repository measures and models AVX-512 and RISC-V vector kernels. Three of
its programs have state worth specifying:

* the **simulator** under `softmax_sim_avx512/src`: assembly is expanded into a
  dynamic trace, bound to a profile of a core and executed by a deterministic,
  event-driven model of an out-of-order core. Nothing in it is concurrent and
  nothing is persisted; what is hard is *simulated* concurrency. Dozens of uops
  compete for lanes, tokens, queue entries, registers and cache lines, every
  resource is taken in one handler and given back in another, and time jumps from
  event to event, so that a wake-up which is forgotten is skipped without a trace;
* the **runtime gate** `gbench-test/scripts/runtime_gate.py`, which runs a benchmark
  while two threads watch the machine, and says whether its result may be used;
* the **RTL measurement scripts** under `softmax_sim_avx512/xsai/scripts`, which write
  and read a results directory that several runs share.

This directory holds TLA+ modules of them, the TLC configurations that check
the modules, and proofs that TLAPS checks. `PROJECT.json` maps every definition to
the source lines it stands for.

Paths below are relative to `src/softmax_sim_avx512/src` unless they begin with
another directory of the repository.

## 1. Inventory

| Component | State | Operations | Talks to | Hard part | Correct when |
|---|---|---|---|---|---|
| **ISA front ends** `frontends/x86.py`, `frontends/rvv.py` | scalar registers, flags, vector configuration, last writer of each register and of the flags, last store to each line | `build_dynamic_trace`: interpret, follow branches, record what each instruction depends on | produce the dynamic trace | flags at the edges of a word, register groups whose size changes, accesses across lines | an entry depends on the last writer of whatever it reads, and on nothing later |
| **Recipes and binding** `simulator/profile.py` `bind`, `simulator/semantic.py` | results per instruction, uops so far | one instruction at a time into execution uops, parts and edges | dynamic trace to bound trace | edges shared out over address, data and compute uops and over parts | no edge is lost, none leads forward, each byte moves once |
| **Uop expansion** `backend/xsai.py` `_XsaiUopExpander` | none that outlives a call | execution uops grouped into scheduler slots | before the XSAI loop | dependencies between uops become dependencies between owners | each uop in one slot, order and bytes kept |
| **Profile admission** `simulator/profile.py`, `simulator/engine.py`, `backend/xsai.py` | parsed profile, open parameters, ticks per cycle | validators, `bind`, the engine's constructor, the first cycle | each judges the same profile | three classes that must agree | what one accepts the next does not refuse |
| **Trace validation** `simulator/trace.py` | indegrees, consumers, queue | `validate_bound_trace` with Kahn's test | both engines at their start | a trace that passes but cannot run | accepted traces are closed, their dependencies are acyclic, and only cyclic ones are called so |
| **Zen 4 event loop** `backend/zen4.py` `Engine` | ROB deque, four occupancy counters, lane and token timelines, completion heap, last issue per class, pending memory-compute groups, in-order index | `run`, `_complete`, `_dispatch`, `_issue_fixed_point`, `_issue_once`, `_retire`, `_next_event_tick` | asks `MemoryHierarchy` (`blocker`, `access`) | issue feeds completion feeds issue within one tick; candidates are a snapshot; time jumps; overlap limit; weighted tokens | dataflow and program order hold, resources are exclusive and exactly accounted for, no enabled tick is jumped over, every trace ends |
| **XSAI event loop** `backend/xsai.py` `XsaiRvvEngine` | as above, and partitions, rename free lists, a heap of register releases, dispatch progress, vector-memory tokens, epochs, read and completion domains | as above, and `_select_dispatch_chunk`, `_plan_partition_assignment`, `_release_rename`, `_release_vector_memory_flows`, epoch and completion-domain reservation | the same | a macro-op drains over several cycles while its first uops already execute; registers come back late; slots are reserved in the future | as above; registers are conserved; a macro-op pays for each uop once and retires whole |
| **Memory hierarchy** `simulator/memory.py` | per level an LRU map of lines, pending fills, outstanding misses, bandwidth timelines | `blocker`, `access`, `_complete_fills`, `_fill_inclusive`, `_initialize` | called by both engines in the middle of an issue scan | fills applied lazily, merged accesses, accesses across lines, evictions while a fill is on its way | inclusive, bounded, a line is fetched once, loads of a line stay in order |
| **Runtime gate** `gbench-test/scripts/runtime_gate.py` | samples, scans, reason for stopping; the processes it started | `main`, `sample`, the competitor thread, `evaluate` | `/proc`, `ps`, `/usr/bin/time`, the benchmark | threads, signals to processes that are not there yet or not any more, conditions that pass | what passes was clean throughout, what was stopped fails, it ends |
| **RTL results** `xsai/scripts` | log, tables, `run_metadata.txt` in one directory | `run_rtl.sh`, `check_rtl_log.py`, `parse_results.py`, `refresh_run_metadata.py`, `run_alignment.py` | through files | runs killed between two files, a reader beside a writer, a rebuild meanwhile | hashes that match certify one accepted run; only clean samples are fitted |
| **Views, export, CLI** `simulator/semantic_view.py`, `export.py`, `cli.py`, `backend/common.py` | none | formatting, file output | everything | none | - |
| **Kernels, benchmark suite, microbenchmarks** `softmax_sim_avx512/kernel`, `gbench-test`, `amd_profile_benchmark` | none to speak of | measuring programs, report scripts | hardware | numerical results, real-machine timing | - |

How they interact: front end -> dynamic trace -> `Profile.bind` -> bound trace ->
(XSAI: expansion into slots) -> `validate_bound_trace` -> an engine. The engine
copies the trace and mutates its copy. The only call from an engine into another
stateful component is into `MemoryHierarchy`, first `blocker` (which applies due
fills as a side effect) and then, if nothing else stands in the way, `access`.

## 2. Modules

    DynamicTrace                what the front ends share     <- DynamicTraceProofs
       ^ EXTENDS
    X86FrontEnd                 frontends/x86.py              <- MCX86, X86Proofs
    RvvFrontEnd                 frontends/rvv.py              <- MCRvv, RvvProofs
    Binding <- XsaiExpander     bind; slots of the XSAI loop  <- MCBinding, VerdictProofs
    ProfileAdmission            three judges of a profile     <- MCProfile, VerdictProofs
    TraceValidation             validate_bound_trace          <- MCTraceValidation, VerdictProofs
    Dataflow                    what a back end promises, without time
       ^ refined by
    Zen4Engine                  the Zen 4 event loop          <- MCZen4, Zen4Proofs
    XsaiIssue                   the XSAI issue stage          <- MCXsaiIssue, XsaiProofs
    XsaiFrontEnd                the XSAI admission side       <- MCXsaiFrontEnd, XsaiFrontEndProofs
    MemoryHierarchy             the cache hierarchy           <- MemoryProofs
       ^ composed with the loop
    Zen4Memory                                                <- MCZen4Memory, MemoryProofs
    RuntimeGate                 the runtime gate              <- MCRuntimeGate, VerdictProofs
    RtlResults                  the RTL results directory     <- MCRtlResults, VerdictProofs

`X86Proofs` and `RvvProofs` share `DynamicTraceProofs`. `VerdictProofs` holds the theorems
about `bind` and about the parts that pass a verdict on what others made, in a section
each. It extends all of their modules, so definitions they would share a name for
carry a prefix (`ProfileNext`, `TraceNext`, `GateNext`, `RtlNext` and the like; those of
`Binding` have none, and its `self` is the profile that `bind` is a method of).

Where a policy or a profile decides between behaviours (in order or out of order,
XSAI or Zen 4 rules), it is a value chosen in `Init`, so that one run covers all of
them.

### Zen4Engine (`backend/zen4.py`)

The bound trace is state that no step changes, chosen in `Init` from the set
`Traces`, so that one run covers a whole family of traces; its fields `outOfOrder`
and `overlapLimit` are the execution model and the limit. Uops and macro-ops are
numbered by their `sequence`. Time is the absolute tick `now`.

`pc` is the place of `run()` in its loop body, and every step of a handler's own
loop is an action:

| Action | Code |
|---|---|
| `Iterate` | top of the loop, the bound on iterations and its error |
| `Complete(u)`, `CompleteReturns` | one pop of `_complete`'s heap (tick, then sequence); its three callers are told apart by `pc` (`complete`, `wake` inside the issue fixed point, `settle` after it) |
| `Dispatch(m)`, `DispatchReturns` | one round of `_dispatch`, with the width test and `_dispatch_blocker` |
| `Issue(u, l)`, `Skip(u)` | one candidate of `_issue_once`'s snapshot, oldest first: it is issued, with everything the branch changes, or something in `_issue_blocker` stands in its way |
| `ScanReturns` | `_issue_fixed_point`: another round if anything completed or issued |
| `Retire(m)`, `RetireReturns` | one round of `_retire` |
| `Advance`, `Finish` | `_next_event_tick` and the end of the loop, with the "no forward progress" error |

`_next_event_tick` is modelled by the set of its candidate ticks (`EventTicks`,
`WakeUps`), of which `Advance` takes the least.

The memory enters by its interface: an access may be refused until a finite tick
(`memoryFree`) and answers with any latency from a set. It does not distinguish
lines, so two loads that follow each other are refused alike; `Zen4Memory` has the
real hierarchy in its place.

One thing the code takes for granted of a trace is an assumption here,
`GroupAssumption`: each load of a memory-compute group feeds one of the group's
compute uops. `_update_memory_compute_groups_after_issue` adds the group to the
pending set whenever one of its loads issues, and takes it out when the last of
its compute uops does; a load nobody in the group waits for may issue after that, and the
group would then stay pending for ever. All recipes of `profiles/amd_zen4.yaml`
have one load, which every compute uop names.

### Dataflow

The abstract machine both back ends promise: macro-ops enter in order, a uop
produces its result once its macro-op entered and its producers have produced,
macro-ops leave in order after all their uops. `Zen4Engine` instantiates it with
`entered <- nextDispatch`, `done <- {u : Completed(u)}`, `left <- RetiredCount` (property
`ExecutesDataflow`), `XsaiIssue` in the same way (property `Implements`).

### MemoryHierarchy (`simulator/memory.py`)

An access goes through `Ask` (`blocker` begins), any number of `Fill` steps
(`_complete_fills`, due lines in line order), and then one of `Decline`, `Merge`, `Hit`
or `Fetch` (the three ways through `access`). `Tick` is the passing of the engine's time.
Ticks are relative, as the time that is left, so the state space is finite
without a horizon. The LRU order is a relation `newer`, from which `Victim` takes the
least recently touched line of a full set. `Init` covers the cache modes `cold`,
`hot-l1` and `hot-capacity`. The code puts the working set line by line into every level
from the first on that can hold it; `Init` puts it there at once, which is the same because
by `GeometryAssumption` (as in the shipped profiles) the levels behind can hold it too.

Things the code does that one would not guess, all in the model: fills are
applied when the hierarchy is next asked, not when they are due; a miss makes
*every* line of the access pending, the resident ones too; a merged access is
answered with what is left of the fill, which may be less than a first-level hit;
a hit renews a line in the first level only.

### Zen4Memory (`backend/zen4.py` with `simulator/memory.py`)

Each step of the Zen 4 loop that concerns memory joined with the step of
`MemoryHierarchy` it causes: `Examine` asks about the oldest candidate, `Arrive` files
the lines that are due, `Refuse` and `Grant` answer, `Advance` computes the jump from the
ticks the refusals name and `Elapse` lets it pass. The memory's steps *are* the
actions of `MemoryHierarchy`, so `ZSpec` implements `MemoryHierarchy!Spec` by
construction and the theorems of `MemoryProofs` hold here. Left out on this side:
lanes, intervals and domains (always free) and the queues (never full), which
`Zen4Engine` has.

### XsaiFrontEnd and XsaiIssue (`backend/xsai.py`)

The loop is cut between admission and issue, and each side is left open in the
other's model.

`XsaiFrontEnd`: admission (`_dispatch_blocker`, `_admit_macro`), draining a macro-op in
chunks into scheduler partitions (`_select_dispatch_chunk`,
`_plan_partition_assignment`), consuming decoder budget ahead of a uop that costs
more than the cycle (`ConsumeBudget`), retirement, and the delayed return of
registers (`ReturnBatch`). The assignment to partitions is any that satisfies the
limits; the code takes the most even of them, so the model has more behaviours,
none fewer. In the step `work` any dispatched uop may issue, and a macro-op
completes when all its uops have issued. A cycle is `TicksPerCycle` ticks, and
`Advance` may stop within it whenever `_next_event_tick` may.

`XsaiIssue`: completion, the release of vector-memory flows, the issue fixed point
with every blocker of `_issue_blocker` (producers, vector epochs and their drain or
overlap ticks, mixed store-reduction epochs, age order and split of vector memory
operations, the memory's refusal, execution units and lanes, read ports, writeback slots
reserved ahead, issue domains, overlap limit), retirement and the jump to the next event. Any
number of macro-ops of `Widths` enters at a boundary, and the memory answers with
any latency of the uop's set. What `memory.blocker` refuses is, as in `Zen4Engine`, a tick for
loads and one for stores (`memoryFree`): an access that is granted puts them off by one of the
pairs of `MemoryHold`, as it takes bandwidth or the last free miss, and `_issue_blocker` hands the tick on
(`MemoryRefuses`). A uop that finds its read port or writeback slot taken is
looked at again at the next cycle boundary, also if a unit with another port
becomes free before; `NoMissedWakeUp` says that this is the only way in which time
jumps over a possible issue (section 5, no. 17).

Not every trace the loop accepts comes to an end (section 5, nos. 1, 5, 6), so that "every trace ends",
which `tests/test_xsai_backend.py:86` expects, cannot be the property. `Terminates` has a condition
on the trace and the policy, `PlacesReturn`: the terminal of a mixed epoch depends on its configuration
(`TerminalsFollow`); there are as many places as mixed epochs, or none of them waits for an
earlier one; and where the overlap limit is on, a group has one load, and its uops wait for nothing
but what that load has waited for (`Behind` collects what a uop waits for, directly or not). The
run has three traces for which the condition is false under the profile with all policies
on, one for each finding, so that the safety properties are checked of these too.

The two have not been composed: see section 6.

### X86FrontEnd, RvvFrontEnd, DynamicTrace (`frontends/`)

One action `Expand` per instruction of `build_dynamic_trace`: look up the
dependencies, record the entry, update the scalar state, the writers and the last
stores, and go to the next instruction; `Raise` is an error of the interpreter,
`RunOffTheEnd` the end of the text. Values are concrete, with words of `W` bits, and
Python's unbounded integers where the code does not mask. An instruction is a
record; text is left out. `DynamicTrace` has the lines of an access and, apart from
them, the reference definitions (last writers, ancestors, stores to overlapping
bytes) against which the recorded dependencies are checked; these are stated over
the whole trace and do not use the front ends' maps.

### Binding and XsaiExpander (`simulator/profile.py`, `simulator/semantic.py`, `backend/xsai.py`)

`Bind(f)` is one turn of `bind`'s loop: recipe, semantic of each entry, decomposition
into parts (static, or the XSAI rule for the class with its preparation uop), and
all edges (within the recipe, from registers, memory and flags, vector state, old
destination, part order). `Reject` is its error. The instruction stream is any
sequence of a profile's forms with the last writers a front end would record.
`XsaiExpander` defines the slots as a function of the bound trace, so that every
trace bound in the run is also expanded. A slot has the name <<k, stage, n>>: link n of the chain of
macro-op k or its uop n alone (stage 0), or its part n (stage 1); the order of the names is the order in which
`_expand_backend_uops` appends the slots, since `_groups_by_part` sorts the parts.

What comes out depends on the recipes, which are data. Two predicates say what they must
provide. `ProfileServes`: for each register, store and flags an instruction may read there
is a uop that waits for it in each of its parts, or one apart from the parts; results
have a part all or none; each kind of memory uop is there once, or once in each part that
is counted by bytes. `RulesMatch`: configurations and reductions have one part,
computations one for each register of the group, accesses one for each flow of their bytes,
which are the active bits, and the recipe of an access has one entry that moves data (as
the four of `profiles/xsai.yaml` have), as a slot carries one access. The run checks both of the recipes and rules it takes from the
two profiles, as conjuncts of `BindsFaithfully` and `ExpanderAccepts`.

### ProfileAdmission (`simulator/profile.py`, `backend/xsai.py`)

A profile starts valid and up to `MaxEdits` fields are replaced (`Edit`); then `Load`,
`Validate` (validator by validator, in the code's order), `Resolve`, `Bind`, `Construct`,
`Admit` and `IssueUops` are the places that may refuse it. The model follows a
single instruction into an empty machine, where whatever blocks blocks for ever.

Where the model of the profile is `xsai-rvv`, the constructor judges scheduler slots and not the
uops `bind` returned: `SlotGroups` says which uops come together (those of a part; all of a
configuration or reduction; each alone if the instruction is scalar), and `ScheduledUop` what the slot has
of them, the units and partitions of all and the rest, resources included, of its `SlotOwner`, the
last that moves data. A recipe has one part here, since all parts of an instruction are alike in
what is checked. `generic-token` expands nothing.

### TraceValidation (`simulator/trace.py`)

`validate_bound_trace` loop by loop: ids, macro-ops, uops with the construction of
indegrees and consumers, then Kahn's loop, one `Pop` at a time. A macro-op's uops are a sequence,
as in the code, and may name a uop twice. `rank` is a history variable, an order of the
dependencies. It is not an order of execution: an engine also waits for `issue_after_uop`, of which
`validate_bound_trace` checks only that it exists (section 5, no. 19).

### RuntimeGate (`gbench-test/scripts/runtime_gate.py`)

Four processes and an environment: `Main` (sampling, stopping, waiting, joining,
judging), `Monitor` (the competitor thread; `ScanFails` is an exception in it), `Child`
(`/usr/bin/time` forks, the benchmark ends, `time` ends) and `Change` (running and busy
processes, available memory, swapping, memory pressure, a rival on the core). The signal goes to whatever child there is
when it is sent. `sample()` itself does not fail in the model.

### RtlResults (`softmax_sim_avx512/xsai/scripts`)

The directory as files that are missing, partial or whole, with the run that wrote
each. `Start`, `Emulated`, `CheckLog`, `Parse`, `OpenTable`/`WriteTable`, `WriteVersions`,
`Refresh` and `Replace` are the steps of `run_rtl.sh` and of what it calls; `Crash` ends it
anywhere; `Rebuild` replaces the benchmark. `run_alignment.py` reads (`ReadSummary`,
`ReadProfile`), refuses (`SummaryRefused`) and writes (`WriteAlignment`) beside it. Two
runs of the same script are assumed not to overlap. `profile_summary.csv` may be
partial or of another run than `summary.csv`: the code does not look, and its help
text calls the file optional diagnostic evidence. `summary.csv` is refused while it lacks rows, but may
be cut in its last row. `run_rtl.sh` looks at the external source trees only when the metadata is in place
(`finish_external_guard`), and the refusal changes no file: what matching hashes certify is
the log, not that the script ended well. A log that announces no
microbenchmarks (`params = "none"`) has no profile tables: those an older run left
are kept and hashed with the new files, so `HashesCertifyOneRun` excepts
`profile_summary.csv` of such a log. Without the exception it is false, which
the attempt to prove it showed before a bigger set of logs let TLC find it too.

## 3. Runs

| Run | Module, cfg | Question | Result |
|---|---|---|---|
| `Zen4` | `MCZen4`, `MCZen4.cfg` | Does the Zen 4 loop execute every trace of the families, under each of three policies, as a dataflow machine with exact and exclusive resources, no skipped wake-up, and an end? | holds, 417,740 states |
| `Livelock` | `MCZen4`, `MCZen4Livelock.cfg` | Does every run converge with the shipped overlap limit? | **violated**, see 5 |
| `Zen4Memory` | `MCZen4Memory`, `MCZen4Memory.cfg` | With the real caches behind the loop: are they inclusive, misses bounded, lines fetched once; is no tick jumped over at which an access could be made, and is each made? | holds, 113,804 states |
| `XsaiFrontEnd` | `MCXsaiFrontEnd`, `MCXsaiFrontEnd.cfg` | Are registers, partitions, queues and dispatch units accounted for when macro-ops drain over cycles, and do all of them drain? | holds, 164,736 states |
| `XsaiIssue` | `MCXsaiIssue`, `MCXsaiIssue.cfg` | Are ports, units, tokens and epochs respected although they are reserved ahead; is no wake-up missed but those of taken ports; is it a dataflow machine, and does it end where places return? | holds, 187,409 states |
| `X86` | `MCX86`, `MCX86.cfg` | Do branches go where the comparison says, and is every dependency recorded? | holds, 102,206 states |
| `Rvv` | `MCRvv`, `MCRvv.cfg` | The same with register groups and strip mining | holds, 31,399 states |
| `Binding` | `MCBinding`, `MCBinding.cfg` | Is anything lost between the dynamic trace and the slots the loop gets? | holds, 4,482 states |
| `Profile` | `MCProfile`, `MCProfile.cfg` | Do validators, binding and engine agree on what a usable profile is? | holds, 410,198 states |
| `RuntimeGate` | `MCRuntimeGate`, `MCRuntimeGate.cfg` | Is the verdict right in every interleaving of main, thread, processes and machine? | holds, 1,673,636 states |
| `TraceValidation` | `MCTraceValidation`, `MCTraceValidation.cfg` | Is Kahn's test right on every graph over three uops, and what may still deadlock a trace it accepts? | holds, 20,043 states |
| `RtlResults` | `MCRtlResults`, `MCRtlResults.cfg` | What does the results directory claim after crashes, refusals, overlaps and rebuilds? | holds, 593,341 states |

What the properties say, beyond the comments in the modules. Most are conjunctions
of named parts:

* **Zen 4.** `OrderKept` is `RobInOrder` and `DataflowOrder`. `AccountsExact` defines each
  counter by what it counts (`OccupancyExact`: the decrement of the vector scheduler at
  the first vector uop of its macro-op is the one that is easy to get wrong;
  `QueuesBounded`; `PendingGroupsExact` for the overlap limit). `ResourceExclusive` is
  `LaneExclusive` and `ClassSpacing`. `ProgramOrderIssue` is about the in-order policy.
  `TicksPlausible` is stated over the issue history rather than over the code's own
  timelines: `TokensBounded` would notice a reservation on the wrong tokens,
  `WidthPerCycle` counts dispatches and retirements per cycle, and
  `CriticalPathIsLowerBound` relates two outputs of the simulator that are computed
  independently. `NoMissedWakeUp`, an action property, says that at the tick time
  leaves, and at every tick it jumps over, nothing could have happened any more; the
  blockers are evaluated at those ticks as `_issue_blocker` would evaluate them.
* **Memory.** `MissesExact`: the miss slots in use at each level are those of the fills
  on their way and within the limits. `JumpsSound` is the wake-up property for memory;
  lines count as arrived when the hierarchy is next asked, as in the code.
  `SameLineOrder`: of two loads of the same lines the first to issue is not the last to
  complete, though the second may hit, merge or fetch again. `Drains`: refused accesses
  get their turn.
* **XSAI admission.** `AccountsExact` joins `RegistersConserved` (free, held and in the
  release heap), `PartitionsExact`, `QueuesExact` and `CycleBudgets`. `DrainsWhole`:
  the integer division that spreads dispatch units over uops, chunking and partial
  consumption agree, so that "dispatch accounting did not converge" is unreachable
  (`ProgressAccounted`), and a macro-op does not retire on the strength of its first
  uops (`RetiresWhole`). `Drains` is the liveness of all of them.
* **XSAI issue.** `IssueRespectful`: read ports per cycle, results per writeback domain
  and cycle (although slots are reserved for the latency of the recipe and the
  memory then answers another), one uop per lane and unit, epochs in order, older
  vector accesses first. `HoldingsExact`: flow tokens are held from issue to the end of
  service, mixed epochs from their configuration to their terminal, where that terminal depends on the
  configuration. `NoMissedWakeUp`: time never jumps over a cycle boundary, nor over a tick at which a
  waiting uop could issue, an access that the memory refused included, unless all that stands in its
  way at the tick time leaves is a taken port. `Terminates`: a trace whose places return (section 2) ends.
* **Front ends.** `TraceExact`: an entry depends on the last writer of whatever it reads,
  every access follows all stores to its bytes, what an instruction computes
  depends on no register outside its recorded reads (x86), old destinations are
  dependencies, and VL stays within VLMAX (RVV). The last holds under a condition that is
  part of the property: where a `vsetvli` keeps VL it must keep VLMAX too, as
  `frontends/rvv.py:315-319` takes the old VL over without a look at the new VLMAX.
  `CopyMovesCount` and `StripMovesEveryElement` are about the shipped loops: a copy moves
  each element once in each direction. `InterpretsWords`: a branch after a comparison
  goes where the words compared, signed or unsigned, say, and what is written are
  machine words (`leaq`, which the code does not mask, is excepted).
* **Validation.** `AcceptedIsSound`: the dependencies of an accepted trace have an order
  (`DependenciesOrdered`), uops of it that wait for each other for ever do so through an issue
  predecessor (`OnlyPredecessorsDeadlock`), and each uop has one macro-op, which names it.
  `CycleIsReal`: what is refused as a cycle is one.
* **Binding.** `BindsFaithfully`: every producer is awaited by one of the consumer's
  uops, the vector state by every part, the old destination part by part; parts tile
  the bytes; no edge leads forward; and the recipes provide for it (`ProfileServes`).
  `SlotsFaithful`: each uop is in one slot, slots wait for earlier slots and tile
  the bytes, and who consumes a chain waits for all of it.
  `ExpanderAccepts`: expander and binder count the same flows, if the rules match.
* **Profile.** `TopologyAgrees`, `LateErrorOnlyFromPrep` and `DomainsAdmit` relate an early
  check to a later one. `TopologyAgrees` names the two ways in which the engine refuses what was
  bound: a register port that the profile does not name, and a slot of uops on different units, whose
  resources are those of one of them (section 5, no. 18). `NumbersSound` says that the loop reads no
  `measure` in the fields the model has, that no cycle count fails to divide into ticks, and that
  transfers are whole ticks; occupancies, issue intervals and the first level's parameters, which
  `bind` and the constructor check one by one for `measure`, are not among the fields. The run also
  reaches profiles that every check accepts and that starve: a macro-op whose
  registers with the guard exceed a free list, or exceed the allocation width, or
  whose macro-ops exceed the ROB. Nothing in the repository says they are refused.
* **Gate.** `VerdictSound`: a pass means that no prefix of the samples broke a rule and
  that no stop was ever ordered, also if the condition was gone at the next sample or
  the signal found no process; busy samples stop a run only when consecutive.
* **RTL.** `FilesCertified`: matching hashes imply whole files of one accepted run, and no
  table stems from a log that was not accepted. `FitUsesCleanRuns`: what enters the fit.

### Bounds

* Zen 4: three macro-ops, five uops, two ticks per cycle, three single-lane
  resources, one domain with two tokens, latencies 0 to 5, three policies. Two
  macro-ops compete and a third waits for entries: with `RobEntries = 3` and a
  macro-op that decodes to two, dispatch meets each of the four limits; weighted
  demand (2 of 2 tokens) meets plain demand (1 of 2). The families contain
  memory-source operations in a chain, operations in two parts, latency-zero uops
  (which complete in the tick they issue) and stores. `MaxIterations = 40` is beyond
  the longest run, so that a violation of `Converges` would be a loop and not
  slowness. `Livelock` needs three memory-source operations and an address
  computation, seven uops.
* Zen4Memory: five accesses over four lines, of one or two lines each, racing or in a
  chain; a first level of two lines, a second of two sets of two ways of which one
  set is too small for its three lines; limits of 2, 2 and 1 outstanding misses, all
  reached; a cycle of three ticks and latencies that are no multiples of it.
* XSAI admission: three macro-ops of four kinds in all 64 sequences; one costs five
  units with width three, one is a single uop of four units (budget is consumed
  before it), one needs both partitions; four and three registers with one guard
  entry, so rename blocks; release width two splits batches; the release delay is
  two cycles.
* XSAI issue: ten traces of up to eleven uops, each made to meet some of the blockers,
  under two profiles, with one or three macro-ops entering per cycle of two ticks; an access makes
  the memory refuse nothing, or loads for five ticks and stores for three, which is longer than a cycle
  and ends within one. Three of the traces need not end. `Horizon = 80` lies beyond the end of every other.
* X86: words of 6 bits with halves of 4 and bytes of 2, all values at the edges of a
  word, lines of 4 bytes with accesses that cross them, loops. RVV: 8-bit words,
  elements of 2 bytes, five vector registers, so that groups of two and four overlap;
  counts 0 to 9, four groupings, three VLENs, one of which holds no element at the
  smallest groupings.
* Binding: all sequences of three forms (XSAI) or four (Zen 4), enough for a producer,
  an overwriter and a consumer with a configuration before or between; registers of 16 bits
  instead of 128.
* Profile: up to three fields depart from a valid profile, which is what a check that
  relates two fields and its repetition elsewhere need. Recipes have one uop or two, on the same unit or
  different ones, in a slot each or in one, with and without one that moves data.
* Gate: up to four samples, two of which make a run of busy ones (five in the code), one
  scan, three changes of the machine: enough for a condition that comes, has the
  benchmark stopped and goes again.
* Trace validation: every graph over three uops with every choice of issue predecessors, self-loops
  included in both, and defective references, among them uops named twice. RTL: two runs, one rebuild, two points of two samples, nine logs, one
  for each reason to refuse.

### Fairness

* Zen 4, XSAI issue, Zen4Memory: weak fairness of the next-state action. `run()` is a
  loop that nothing interrupts; some handler is enabled until it returns or raises.
* XSAI admission: weak fairness of `Next` for the same reason, and strong fairness of
  `Execute`, "some dispatched uop issues or some macro-op completes". That is an
  assumption on the issue stage. `XsaiIssue` is checked to keep it on those of its traces whose places
  return (`Terminates`); section 5 names traces on which the code does not.
* Gate: weak fairness of `Main`, of `Monitor` and of `Child`: threads and processes are
  scheduled. None of `ScanFails` and `Change`, which need not happen.
* The others are checked for safety only.

No run uses state constraints, symmetry or views. Deadlock is checked in every run: a
finished computation stutters in `Stopped`, and in `RtlResults` another run or rebuild is
possible until the bounds, after which an alignment is.

## 4. Proofs

For every value of the constants that satisfies the assumptions of the modules:

| Theorem | Module | States |
|---|---|---|
| `TypesAndOrder` | `Zen4Proofs` | the inductive invariant of the Zen 4 loop |
| `OrderKeptHolds` | `Zen4Proofs` | producers before consumers, part gaps, completion before retirement, retirement in program order |
| `ResourceExclusiveHolds` | `Zen4Proofs` | no overlap on a lane, intervals of a class kept |
| `ProgramOrderIssueHolds` | `Zen4Proofs` | in-order issue is in program order |
| `AccountsExactHolds` | `Zen4Proofs` | the four occupancy counters and the pending groups are what they count, within their limits |
| `TicksPlausibleHolds` | `Zen4Proofs` | tokens are never oversubscribed, widths per cycle are kept, the critical path is a lower bound |
| `RefinesDataflow` | `Zen4Proofs` | the loop implements `Dataflow` |
| `TimeMovesForwardHolds` | `Zen4Proofs` | "no forward progress" is never raised |
| `NoMissedWakeUpHolds` | `Zen4Proofs` | no jump of time skips anything |
| `ImplementsHolds`, `CountersAndFlow` | `XsaiProofs` | the XSAI issue stage implements `Dataflow`, and the invariant behind it |
| `LedgerHolds` | `XsaiProofs` | the reservation tables count the issued uops that use a port in a cycle |
| `IssueRespectfulHolds` | `XsaiProofs` | read ports, writeback slots, lanes, units, epochs and age order are respected |
| `HoldingsExactHolds` | `XsaiProofs` | flow tokens are given back when due, and mixed epochs too where terminals follow their configurations |
| `NoMissedWakeUpHolds` | `XsaiProofs` | no jump of time skips anything but a retry at a taken port |
| `DrainsWholeHolds` | `XsaiFrontEndProofs` | a macro-op that drains over cycles pays for each uop once and retires whole |
| `AccountsExactHolds` | `XsaiFrontEndProofs` | queues, partitions, cycle budgets and rename registers of the admission side are exactly accounted for |
| `InclusiveHolds`, `FetchedOnceHolds` | `MemoryProofs` | inclusion; a pending line is not fetched again |
| `MissesExactHolds` | `MemoryProofs` | misses are counted exactly, within the limits |
| `SameLineOrderHolds` | `MemoryProofs` | loads of the same lines complete in the order they issue |
| `LoopUsesMemory`, `JumpsSoundHolds` | `MemoryProofs` | the loop with real caches is one of the callers the memory allows; no jump skips an access |
| `TraceIsComplete` | `X86Proofs` | x86: dependencies point backwards, name all last writers, and order every access after all earlier stores to its bytes |
| `TraceIsExact` | `X86Proofs` | and no register outside the recorded reads matters, if no exclusive or names an immediate |
| `InterpreterIsExact` | `X86Proofs` | a branch after a comparison goes where the words say; writes are machine words |
| `TraceIsExact` | `RvvProofs` | RVV: the same completeness under groups that change, and VL within VLMAX |
| `WritersAreLatest` | `X86Proofs`, `RvvProofs` | the maps of writers and stores name the latest ones |
| `TopologyChecksAgree`, `DispatchNeverStarves`, `IssueErrorsFromPreparation` | `VerdictProofs` | early and late checks of a profile agree, but for the cases the properties name |
| `NumbersSoundHolds` | `VerdictProofs` | what the loop reads of the modelled fields are numbers, in whole ticks |
| `OnlyPredecessorsDeadlockHolds`, `AcceptedIsClosedHolds`, `AcceptedIsSoundHolds`, `CycleIsRealHolds` | `VerdictProofs` | Kahn's test accepts exactly the traces whose dependencies have an order, only issue predecessors deadlock such a trace, and each uop has its one macro-op |
| `BindsBackward` | `VerdictProofs` | what `bind` returns has no cycle; every part waits for the vector state, and a merging uop for the old value |
| `BindsFaithfullyHolds` | `VerdictProofs` | under `ProfileServes` no producer is lost and each byte is moved once |
| `ExpanderAccepted` | `VerdictProofs` | under `RulesMatch` the expander accepts every bound trace |
| `SlotsFaithfulHolds` | `VerdictProofs` | under both, slots keep the uops, the order, the chains and the bytes |
| `VerdictEarned` | `VerdictProofs` | a verdict of the gate is deserved |
| `DirectoryCertified`, `CleanFit` | `VerdictProofs` | what hashes certify, and what is fitted |

Assumptions are the named `ASSUME`s, all evaluated by the runs. Counts, widths and
entries are positive (profile schema), a trace is what `bind` produces (`ValidTrace`),
latencies and holds of the memory are natural numbers. For the XSAI issue stage, times
and capacities are natural numbers, lanes, split lanes, boundaries and port capacities are positive
and there are finitely many issue domains, as `profile.py:283-380` and the schema
demand. `ValidTrace` does **not** assume
that dependencies are acyclic: the safety theorems do not need it.
`GroupAssumption` (section 2) is needed for the pending groups only. For the memory,
lines are numbers and every latency, limit and bandwidth is positive; `GeometryAssumption`, that what fits in
a level fits in the next one, makes `Init` the code's (section 2), but the steps keep inclusion
whatever the geometry. `ProgramsAssumption` of `Zen4Memory` says that a program is a sequence of accesses
with dependencies on earlier ones, and `NearestAssumption`, needed for `SameLineOrder` alone, that no level
answers sooner than the nearest, as in `profiles/amd_zen4.yaml` (nothing in the code checks it: with
a slow first level a load that fetches its evicted line again would overtake one that hit). `LengthAssumption` of `XsaiIssue` that an instance
has a longest trace; `SampleAssumption` of `RtlResults` that samples are finitely many,
and at least one. For the profile, the base and the alternatives have the shape of a
profile (`ProfileType`: lists are lists, demands are integers or codes, cycle counts are fractions, and
what no validator reads, the latencies, the capacities of resources and issue domains and the
demands of the preparation, is as `profile.schema.json` says, and a recipe has a uop), and nothing
more. For traces to validate, ids are finitely many and the lists are lists.

For `bind`, a form has the fields a front end gives it (`FormType`), recipes list entries with ids of
their own after those they depend on, and parts in order, as all recipes of both profiles
do (`RecipeType`; the code checks neither order, and `validate_bound_trace` finds a cycle later), and a
preparation uop is named like no entry of a recipe (`PrepType`, as in `profiles/xsai.yaml`).
The implicit kinds of an old destination are among those that wait, as `profile.py` demands. Three
theorems have a hypothesis on the profile (section 2): `BindsFaithfullyHolds` has
`ProfileServes`, without which a producer is lost by the recipe and not by `bind`, and
`ExpanderAccepted` has `RulesMatch`; finding 11 shows that its clause on the active bits is
needed. `SlotsFaithfulHolds` has both, for a profile with XSAI rules. `BindsBackward` has neither.

For the front ends, a program is as the parser and an assembler hand it over
(`ProgramAssumption`): registers are those of the machine, immediates are numbers,
targets are in the program, an access has an address and a positive size, a mnemonic that
ends in q takes whole registers, a scalar RVV instruction scalar ones, a shift amount fits the word.
`PowersAssumption` is arithmetic, not an assumption on the code: that powers of two are positive,
and for x86 that each is twice the one before, about which the provers know nothing.
`RegisterAssumption` says that scalar and vector registers are different names. `TraceIsExact` of
x86 has one hypothesis more, `NoImmediateXor`: no exclusive or in the program has an immediate.
Finding 7 shows that it is needed, as the code takes such an instruction for a zeroing
idiom; the shipped kernels satisfy it. `TraceIsComplete` is free of it.

Argument, Zen 4. `Types` is the type invariant without the four occupancy counters.
`DataflowOrder` and `RobInOrder` are not inductive: one also needs that no recorded tick
lies in the future, that a completed uop was issued and completed at the tick it was
due, no earlier than it was issued, and that the candidates of a scan are dispatched
and unissued (`Clock`). Otherwise a uop could be issued "before" a completion already
recorded, or twice. `FrameOrder` shows that the steps which change none of those
variables keep `Order`; the four that do (`Complete`, `Dispatch`, `Issue`, `Retire`) have
a lemma each. `Lanes` adds `Reserved`: a lane is reserved at least up to the end of
every uop that was issued on it, and a class's last issue is the latest of its
uops. `Issue` reads exactly that reservation, so a new uop starts after every earlier
one. `Index` says that in order the index separates issued from unissued uops and
the only candidate is the next one. The refinement needs `Types` and `Order` only: it
maps completions to `Produce`, dispatches to `Enter`, retirements to `Leave` and every
other step to a stutter.

`Accounts` states each counter as a cardinality: `Loading` and `Storing` are the macro-ops
in the reorder buffer that use a queue, `Waiting` those dispatched none of whose
vector uops has issued, and the reorder buffer counts decoded operations, a
difference of prefix sums. A dispatch adds one macro-op to these sets, a retirement
takes the oldest out, and the issue of a vector uop takes its macro-op out of
`Waiting` exactly if it is its first; `_dispatch_blocker` has tested the sum before. The
limit of pending groups is kept because a load of a new group issues only while
there is room, and a group once drained is never added again (here
`GroupAssumption` enters).

For time, `Settled` says that the heap is empty up to now when `run()` retires and
advances, whence every event tick lies in the future. `Exhausted` is the fixed point:
when a scan without progress has gone through its snapshot, each candidate it has
passed is blocked *now*, because nothing that happened since could have unblocked
it; from then on until time advances that holds of all candidates. A blocked
candidate stays blocked at every tick before the least of the event ticks
(`BlockedUntilEvent`, by the kind of blocker: each either is lifted by a completion or a cycle
boundary, which are events, or names its own tick, which is one).

`TicksPlausible` is stated over the history of ticks, its sums as numbers of units
(`UnitsOf`), so that they are cardinalities for the prover too. `AtWork` says that while
`_dispatch` or `_retire` is at work, `width` counts what it has moved at this tick, and
before it nothing of this tick was moved; so the history keeps the width the handler
tests. For the domains, `TokensLast` looks ahead: at every tick from now on the uops that
will still hold tokens demand no more than are then still taken. An issue adds to both
sides the demand, since `_reserve_issue_domains` takes exactly as many tokens as are asked
for (`FirstAreThere`: in a finite set in order, n members have fewer than n before them) and they were free.
When time has come there, the bound is the number of tokens. The critical path is a recursion
over dependencies that no validation makes acyclic here; those of issued uops are, since they were
issued in some order (`Ranked`), so that the recursion has a solution (`PathsExist`), and by the same order no
path is longer than the time until its uop was done (`PathsAreShort`).

Argument, XSAI. `Counters` are types; `Flow` says that what is issued has entered and
that its producers have completed. `IssueReady` reads this off `_issue_blocker`, whose first
test is on producers, so that the rest of the blocker, ports, epochs, flows, domains,
does not matter to it. `Seen` pads a trace to the longest of the instance, as `Dataflow`
has one number of uops.

`IssueRespectful` has four parts. *Ports*: `Ports` (in `Ledger`) says that the counter of a slot, a domain
and a cycle, is the number of issued uops that read there in that cycle, or whose
result falls into it. `_issue_blocker` has tested the read port; for the result `Reserve`
looks for a later cycle with room, and finds one because there are more cycles in
its range than uops that could have filled them (a pigeonhole argument on the
counters, which are at least one where they are full). *Lanes and units* are reserved at
least to the end of every uop issued on them. *Epochs*: `Closings` says that the uop which
ends an epoch is one of the trace, from the definition of `Ending`; what depends on
a configuration can only issue after it has completed, hence after it has issued,
and it issued when the epoch before had come to its end. *Age*: macro-ops are numbered in
trace order (`MacrosAscend`), so an older access than a dispatched one is dispatched, and
`OlderReady` has seen it; if it lacked an operand then, it completes no earlier than
now.

`HoldingsExact` rests on `Holding`, which says who holds a token between the steps of a
tick, expired ones included until `ReleaseFlows` returns them. For mixed epochs it needs
`TerminalsFollow`: the terminal of an epoch depends on its configuration. That is a clause of the
property and neither an `ASSUME` nor a hypothesis of the theorem, since the code accepts traces without it
and is then wrong (section 5, no. 6); what it says of flow tokens holds of those traces too.

`NoMissedWakeUp` follows the Zen 4 argument. `Exhausted`: a round without progress has
found every candidate blocked, and retirement changes nothing `_issue_blocker` reads
(`FrameBlocker`). `BlockedUntilWake` goes through the blockers in the order of the code: each is
either the same at every tick, so that it could not be gone later, or names a tick, not later than the
uop could issue, which is an event; the memory's refusal is of the second kind. `Clocks` makes those ticks numbers; that the token of the
demanded rank exists, and that the next tick of a unit is one of those listed, are
facts on finite sets (`LastIsThere`, `UnitsWake`). The ports are the exception the property makes.

Argument, XSAI admission. `Draining` carries `DrainsWhole`. `Sending`: macro-ops before `next` are
sent whole, those after it not, and nothing of those not admitted; `Leaving`: what has
issued was sent, what has completed has issued, what has retired has completed.
The units due for a number of uops are a quotient, so `ProgressAccounted` needs that such shares
ascend and that all uops together cost all units (`SharesAscend`, `ShareOfAll`), which a
chunk, the greatest number of uops the budget of the cycle covers, then keeps.

`Accounts` adds a conjunct per kind of account. *Budgets* follow from the tests made just
before they are charged (`Accepts`, `AdmissionBlocked`). *Queues* are cardinalities, as
in Zen 4, and the reorder buffer is a sum of entries. *Partitions* are cardinalities as
well: the uops a chunk places in a partition are as many as the positions of the plan that name it
(`NewlyPlaced`, a bijection), and the planner has tested the entries. *Registers*: what is
free, held by macro-ops in the reorder buffer and owed by pending releases is what
there was. Admission moves registers from free to held, retirement from held to a new batch at
the end of the queue of releases, and a release from its head to free, by which all other batches
move up by one place (`ShiftedSum`).

Sums are folds of the community modules, recursive functions on the subsets of their keys. That such a
function exists, is unique and may take its keys in any order are arguments from the
least cardinality at which they would fail (`SumExists`, `SumUnique`, `SumFacts`), after which a sum is used
by three facts: it is a natural number, equal amounts have equal sums, and one more key adds
its amount (`TotalFacts`, `TotalSame`, `TotalWith`).

Argument, memory. `Inclusive` is inductive by itself, because a fill removes at each
level the victims of that level and all farther ones, a set that only shrinks
with the level (`FilledGrows`). For the start with `hot-capacity` one needs that a
nearest level that holds the working set exists, a least-number argument
(`LeastNumber`). `FetchedOnce` needs the types of the fills (`Stock`), and hence that
`peek_level` always finds a level. `Misses` relates the slots in use per level and tick to
the lines on their way: an access takes one slot at each level on its path for the
ticks its fill needs, and a tick moves both alike.

`JInv` follows an access of the Zen 4 loop from the moment it is refused to the end of the
jump. `Running`: an access is asked about only by the oldest ready candidate.
`Settled`: those refused in a round without progress are still refused at its end, since
what was granted in between would have been progress. `Elapsing`: while a jump is
under way, what refuses them, a busy level or a level all of whose slots are due
later, outlasts it, because the jump is the least of the ticks those refusals name.

`InOrder` compares a load in flight with its lines: either one of them is on its way and not
there before the load completes (`InStep`), so that every later load of these lines is merged into a fill
that is no earlier; or the load takes no longer than the nearest level needs, and then whatever is
fetched of its lines later is at least as long on its way.

Argument, x86. `BuilderInv` is one invariant for all parts of `TraceExact`: the program is as
parsed and `pc` in it (`ProgramInv`), scalar values are integers (`ValuesInv`), the trace is
a sequence and the steps are bounded (`SequenceInv`, `ProgressInv`), the maps name the
*latest* writers (`WritersInv`), and every entry so far is exact (`EntriesInv`). A new entry reads
the maps before they are updated, which makes it exact at the point where it is
appended, and what is true of an entry stays so when others follow (`DynamicTraceProofs`).

Memory is the harder half, since `last_store_by_line` keeps one store per line and
the property speaks of bytes and ancestors. An access and an earlier store to one of its bytes
share the line of that byte (`OverlapSharesLine`). The access waits for the last store to that line, which has
itself waited for the one before it, and so on: among the stores to the line that are ancestors of the
access and not before the store in question, the least cannot be a later one, as it would
wait for one still earlier (`StoresAreFollowed`). Ancestors of an ancestor are ancestors (`AncestorsClosed`):
dependencies point backwards, so that the recursion of `Ancestors` goes far enough. `OutcomeFromReads` goes through the mnemonics: each case of the
interpreter reads its two operands, the address registers and the flags, which are
what `register_roles` records; the exception is the exclusive or.

`InterpreterIsExact` needs, besides `BuilderInv`, `CompareInv`: after a `cmpq` the flags are those of a
subtraction of the values the two operands still have. Each conditional jump is then a fact on
two words: the borrow is the unsigned order, and sign and overflow together are the
signed one. That a low half, byte or sign-extended value is a word follows from
`PowersAssumption` by induction, on the set of exponents for which it holds.

Argument, RVV. The same invariant and the same lemmas on traces, with `ConfigInv` beside
them: the configuration is that of some `vsetvli` of the program, hence
VL is at most VLMAX. What a vector entry reads and writes are groups of registers; a group
stays within the register file because `Raise` is the alternative (`ExceedsFile`), so every
register of the group has its latest writer in the map, whatever the grouping was when that wrote.

Argument, binding. `ExpandedStatic` and `ExpandedDynamic` say which slot lies where: in a dynamic
decomposition slot a + n q + l is entry l of part q, by division with remainder, after the
preparation if there is one. From this, whatever a slot needs lies before it (`LocalsBefore`), since
its entry lies before in the recipe and candidates of the same part are preferred; the last
slot is one nobody needs, so each instruction has results (`LastIsTerminal`). `Binds` states what
a step adds, and `BinderInv` is inductive with it. For the rest, `UniformResults` is the strengthening:
as the results of an instruction have a part all or none, a consumer in part q gets either
the results of part q or all of them, and none falls between (`SharedIsAwaited`). Bytes are
tiled because byte b belongs to part b div w and no other, and that part exists
as the count is rounded up (`PartsCoverBytes`, `TiledOnce`). `ShapeInv` carries the parts of the slots over to
the bound uops, whose number the expander compares with its own.

Argument, expansion. `LayoutInv` says where the uops of an instruction are and that they have the
parts and kinds of its expansion, `AscendInv` that those of later instructions come later. `Home` is
the slot a uop should have, and `HomeFacts` that this slot and no other owns it. A dynamic decomposition
lists its parts in order (`PartsAscend`), so homes are in the order of their uops
(`HomesAscend`), and edges between slots lead backward because those between uops do; the part
order of static decompositions concerns uops with a slot of their own only (`OnlyScalarsWait`). Any
set of links with the last one that has what its links depend on has the one before each of them, so
the least distance from the end at which one could be missing does not exist (`AwaitsChain`). Two
data uops with the same home are the same one (`OneDataSlot`, `DataFacts`): hence the
uop whose fields a slot copies is the only one that could carry its bytes, and `MemoryTiled` does the rest.

Argument, profile. The invariant records what each stage has established for those after
it: the validators passed so far (`AcceptedInv`), that the bound uops are those of the
profile (`BoundInv`), and what the constructor has ruled out (`ConstructedInv`). The
properties then relate two formulas over one profile, a validator's and the engine's. For
`TopologyChecksAgree` the engine's is about slots. A slot has the units of all its uops and the resources of one
of them, its owner; what the validators have established of a uop and its units carries over to the slots but for
the units of others, so that a unit which is refused is one that another uop of the slot has and the owner has not.
For `NumbersSound`, `NInv` adds that the ticks are those derived from the profile (`Ticked`) and
what bind and the constructor have found to be numbers (`Resolved`). That the least common
multiple exists is an argument on the product of the denominators, a fold as in the XSAI sums:
it is a multiple of each factor (`ProductFacts`), so that there is a least one among the
candidates up to it (`LcmFacts`). Every cycle count is then whole ticks (`CyclesConvert`), and a
transfer of n elements takes n times the ticks of one (`TransfersConvert`), which is why the
widths that `_ticks_per_cycle` leaves out need no denominator of their own.

Argument, validation. `BuildInv`: the tables hold the edges of the uops looked at so far.
`Counted`: in Kahn's loop an indegree is the number of producers not yet visited, and
the queue holds the unvisited uops for which it is zero. `Ranked`: visited uops are
ranked after their producers. If all are visited the ranks are an order; if the
queue is empty before, each unvisited uop has an unvisited producer, which is a cycle. Of
uops that wait for each other for ever one has the least rank, so that what it waits for is no
dependency but its issue predecessor.
The steps of the counters are facts on cardinalities from `FiniteSetTheorems`.
`MacroInv`: the macro-ops checked so far have no error, and `referenced` holds what they
name, so the test that it equals the ids gives each uop a macro-op, and its parent id
makes that the only one.

Argument, gate. `Founded` is what a stop and a pass rest on: a signal was sent because
the samples then taken broke a rule or a rival was seen, and *a broken rule stays
broken* (`Dirty`): the counters of `/proc` only grow (`Growing`), and more samples never
remove a window of busy ones. `evaluate` sees all samples, so it fails a run that was
stopped even if the signal came to nothing. That the longest run of busy samples
is as long as asked exactly if there is such a window (`LongestIsWindow`) gives the code's
counter, a recursive function over the samples, a closed form: the counter at i is the distance
to the last sample that was not busy. `Together` and `Bounds` say which processes live at which
step of `main`.

Argument, RTL. `Checked` records what `run_rtl.sh` has seen when it is past a step, and which
tables it has replaced; `FilesSound` and `MetadataSound` say of every file that it stems
from an accepted run, and that hashes were those of the files of one run when they
were taken. A table that is being rewritten is partial and equal to no hash. `ReadSound`
follows what `run_alignment.py` has read, apart from what is on the disk by then.

Recursion in these modules is by recursive *functions* (`DependsOnLoad`, the run of busy
samples). Where a proof needs their values it argues from the least index at which a
closed form would fail, as the induction theorems take an operator and are out
of reach.

Only model-checked:

* liveness under fairness (`Converges`, `Drains`, `Terminates`, `Ends` and the like), which needs
  `ENABLED`;
* that the shipped loops move each element once (`CopyMovesCount`, `StripMovesEveryElement`): an
  induction over the iterations of particular programs.

## 5. Where code and text disagree

The first is a listed run. Nos. 2 to 17 are kept as properties that the code violates,
each with a configuration of its own beside the runs: `tlc -config X.cfg M` prints the
counterexample (with `-continue`, where a configuration has two properties, one of each).
The last four are exceptions that properties of the runs make: each is a case
the run reaches, or a step of the model, without which the property would be stronger.

| # | Configuration, module | Property |
|---|---|---|
| 1 | `MCZen4Livelock.cfg`, `MCZen4` (run `Livelock`) | `Converges` |
| 2 | `MCMemoryAllocate.cfg`, `MCZen4Memory` | `Allocates` |
| 3 | `MCXsaiRelease.cfg`, `MCXsaiFrontEnd` | `LeftoverWaitsForCycle` |
| 4 | `MCXsaiRelease.cfg` with this property instead | `SplitsOnlyIfIntrinsic` |
| 5 | `MCXsaiOrder.cfg`, `MCXsaiIssue` | `NeverSpins` |
| 6 | `MCXsaiLeak.cfg`, `MCXsaiIssue` | `NeverSpins` |
| 7 | `MCX86Immediate.cfg`, `MCX86` | `OutcomeFromReads` |
| 8 | `MCX86Carry.cfg`, `MCX86` | `FlagsFromLastWriter` |
| 9 | `MCRvvKeep.cfg`, `MCRvv` | `KeptVlHasProducer` |
| 10 | `MCBindingReduction.cfg`, `MCBinding` | `ReductionAwaitsGroup` |
| 11 | `MCBindingWidth.cfg`, `MCBinding` | `BoundIsExpandable` |
| 12 | `MCProfileMeasure.cfg`, `MCProfile` | `UnusedMeasuresDoNotBlock` |
| 13, 14 | `MCRuntimeReport.cfg`, `MCRuntimeGate` | `ReportNamesStop`, `PassMeansScanned` |
| 15, 16 | `MCRtlReport.cfg`, `MCRtlResults` | `ReportBindsRead`, `HashNamesBinary` |
| 17 | `MCXsaiLeak.cfg`, `MCXsaiIssue` | `WakesInTime` |
| 18 | run `Profile` | the second conjunct of `EngineAgrees` |
| 19 | run `TraceValidation` | `OnlyPredecessorsDeadlock`, in place of "an accepted trace can be executed" |
| 20 | run `TraceValidation` | `AcceptedIsClosed`: named "once or more" |
| 21 | run `RtlResults` | `HashesCertifyOneRun`: the accepted log, not the accepted run |

1. **Overlap limit and age.** `_memory_compute_overlap_blocked` (`backend/zen4.py:440`)
   refuses a load while `max_pending_groups` groups have a load issued and a compute
   uop waiting, however old they are. Two younger loads of an accumulation chain take
   both slots; the compute uops they wait for depend, through the accumulator, on
   the oldest operation, whose load then waits for a slot. Every later iteration is a
   cycle boundary without effect until `run()` raises "event loop did not converge".
   The engine itself reproduces it on such a trace. `tests/test_engine.py:42` expects
   every uop to complete. The XSAI loop has the same limit (`backend/xsai.py:2184`):
   `AccumulateTrace` of `MCXsaiIssue` is a trace for it, which `PlacesReturn` therefore leaves out of
   `Terminates`.
2. **Access across lines.** An access one of whose lines is pending is merged as a whole
   (`simulator/memory.py:183`); its other lines are not fetched.
   `docs/simulator_resource.md:137` describes merging per cache line.
3. **Register release.** The release width is per call of `_release_rename`
   (`backend/xsai.py:1582`), which is called at every visited tick; the comment at
   `:2282` says leftovers wait for the next architectural cycle.
4. **Partial draining.** The comment at `backend/xsai.py:1270` reserves it for macro-ops
   that intrinsically exceed a cycle or an enqueue width; the code (`:1300`) drains in
   parts whenever the whole does not fit *now*.
5. **Mixed epochs and age.** The configuration of an epoch that stores and reduces takes
   one of `mixed_store_reduction_capacity` places when it issues (`backend/xsai.py:1224`).
   If the first such epoch is held by the one before it, the next two take both places,
   and when their reductions continue the sum of the first none of them ends.
   `tests/test_xsai_backend.py:86` expects every uop to issue.
6. **A place that is never given back.** `_reduction_terminal` (`backend/xsai.py:1187`) may
   choose the address preparation of a store behind the reduction, which depends on
   nothing and may complete before the configuration issues; the place is then taken
   (`:1241`) after the only point that returns it (`:965`).
7. **Exclusive or.** `register_roles` (`frontends/x86.py:231`) takes `xorq $1, %rax` for a
   zeroing idiom, as it names one register only, and records no read; the shipped
   kernels use the register form.
   `docs/simulator_plan.md:123`: read-after-write dependencies on the last writer of
   registers and flags.
8. **Carry.** `incq` and `decq` become the last flags writer (`frontends/x86.py:178`) but keep the
   carry (`:446`); a later `jb` depends on them alone. No shipped recipe lists them. The same sentence of the plan.
9. **Kept VL.** `vsetvli zero, zero` takes VL from the configuration before
   (`frontends/rvv.py:319`) and records no dependency on it (`:214`); the alignment
   microbenchmark `vset_throughput` uses this form. The same sentence.
10. **Reductions of groups.** A reduction has one part and, by the preference for the same
    part (`simulator/profile.py:1737`), waits for part 0 of its source alone.
    `docs/semantic_uop.md:333`: it sums the lanes of the vector. With LMUL 1 there is no
    difference.
11. **Two counts of flows.** `bind` counts them from the bytes of an access
    (`simulator/profile.py:1552`), the expander from VL times SEW (`backend/xsai.py:330`):
    `vle32.v` under another SEW is bound and then refused. `docs/simulator_xsai.md:77`
    gives the rule by EMUL.
12. **Unused measures.** The engine applies `int()` to every register and issue domain
    (`backend/xsai.py:584`, `:594`, `:629`), used or not. `tests/test_profile.py:281`:
    `test_xsai_unused_measures_do_not_block_resolved_compute_trace`, which stops at `bind`.
13. **Reason for stopping.** `early_stop_reason` is assigned anew at each sample
    (`gbench-test/scripts/runtime_gate.py:507`), so the report line at `:382` may say "none" for
    a run that was stopped. The verdict is not affected.
14. **Dead thread.** An exception of `ps` (`runtime_gate.py:103`) ends the competitor thread
    unnoticed; the check `no_cpu8_cpu200_competitor` (`:347`) then passes on the scans there
    are, possibly none.
15. **Hash of the table.** `run_alignment.py` reads `summary.csv` at its start and hashes what is
    at that path at its end (`xsai/scripts/run_alignment.py:609`).
    `docs/simulator_xsai.md:131`: all reports are bound to their versions.
16. **Hash of the program.** `refresh_run_metadata.py:57` hashes the benchmark after a run of hours,
    not the one that was loaded. The same sentence.
17. **Ports and units.** A uop that finds its read port or its writeback slot taken
    names the next cycle (`backend/xsai.py:1890`, `:1901`), and `_next_event_tick` (`:2271`) looks at
    the resources and issue domains of a candidate but not at its units. A unit with another
    port that becomes free in the middle of the cycle is not noticed until the cycle
    ends. `docs/simulator_plan.md:224`: jump to the next completion, resource release or
    integer dispatch or retire boundary.
18. **Slots of uops on different units.** The engine expands uops into slots
    (`backend/xsai.py:540`) and then demands that each unit of a slot has one of the slot's resources
    (`:727`). The units are those of all uops of the slot (`:178`), the resources those of the
    last that moves data (`:410`, `:442`). A recipe that gives the address to one unit and the data of the same part to
    another passes all validators and `bind`, and the engine raises an error. For the same reason
    a slot has the issue domains, ports and demands of its owner only. The recipes of `profiles/xsai.yaml`
    give all uops of a slot the same units.
19. **Issue predecessors.** `validate_bound_trace` looks for cycles of dependencies; of
    `issue_after_uop` it checks that it exists (`simulator/trace.py:150`). A uop that names itself, or
    two that name each other, are accepted; both loops wait for the predecessor's issue without
    a tick to wake up at (`backend/zen4.py:336`, `backend/xsai.py:1835`), and `run()` ends with "did
    not converge". (The XSAI expander drops a predecessor in the uop's own slot.) What `bind` makes has no such cycle (`BindsBackward`).
20. **A uop named twice.** A macro-op may list a uop more than once (`simulator/trace.py:60`). The
    XSAI expander refuses such a trace later ("multiple backend owners", `backend/xsai.py:160`); the Zen 4
    loop does not notice, as it keeps dispatched uops in a set.
21. **External trees.** `xsai/scripts/run_rtl.sh:55` compares the state of the external source trees with the one before
    only when the hashes are in place (`xsai/scripts/common.sh:56`). A run that it refuses leaves a directory that looks
    like that of an accepted one. `docs/xsai_sim.md:20`: running must not leave new files in those trees.

## 6. Not modelled, and the plan

Not modelled, and why:

* views, export and CLI: formatting and file output, no state beyond a call, nothing
  reads them back; statistics, peaks, stall counters and event logs of the engines for
  the same reason;
* parsing of assembly text, the tables of `utils/asm_to_uop.py`, and
  `utils/bind_uop_profile.py`, an older binder that only labels uops;
* checks of one scalar profile field against its type, and the JSON schema;
* the kernels: straight-line floating point, whose correctness is numerical; the loops
  that time them, and the AMD microbenchmarks, which measure the processor;
* the benchmark suite scripts of `gbench-test` apart from the gate: a chain of programs
  into a fresh directory, and statistics over files;
* the build audits of the RTL scripts, which match text and addresses, and the NEMU
  run, which writes another directory by the same steps;
* the composition of `XsaiFrontEnd` with `XsaiIssue`: each leaves the other's side open, in a
  way that allows more than the code does, but fairness of `Execute` is assumed, not derived.

Hazards seen and not covered: a group one of whose loads issues after all its compute
uops stays in the pending set (`backend/zen4.py:450`; `GroupAssumption` excludes it, as all
recipes do); a
macro-op wider than the dispatch or retirement width never passes (`backend/zen4.py:212`);
the bound on iterations depends on the number of uops only, so that a slow trace is
reported as not converging (`backend/zen4.py:99`); an exception while sampling leaves the
benchmark running (`runtime_gate.py:504`); `leaq` stores addresses below zero unmasked
(`frontends/x86.py:458`).

Planned, in this order:

1. `XsaiEngine`: the composition of both sides of the XSAI loop, and with
   `MemoryHierarchy`.
