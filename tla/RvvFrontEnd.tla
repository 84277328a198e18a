---------------------------- MODULE RvvFrontEnd ----------------------------
(***************************************************************************)
(* frontends/rvv.py: the expansion of a RISC-V vector kernel into a        *)
(* dynamic trace.  Beside scalar values the loop interprets vsetvli: the   *)
(* element width and the register grouping (LMUL) decide how many          *)
(* registers an operand stands for, and VL how many bytes an access moves. *)
(*                                                                         *)
(* An instruction is a record [op, dst, src, mem, sew, lmul, target]: src   *)
(* is a sequence of operands, mem NoMemory or [base, disp, label].  LMUL is *)
(* counted in eighths, so that m1 is 8 and mf8 is 1.  Scalar words have W  *)
(* bits, elements ElementBytes bytes.                                      *)
(***************************************************************************)
EXTENDS DynamicTrace

CONSTANTS
    W,                      \* bits of a scalar register (64)
    ElementBytes,           \* bytes of an element of vle32 and vse32 (4)
    ScalarBytes,            \* bytes of ld and sd (8)
    InputBase, OutputBase, StackBase, StackBytes, ConstantBase,
    ConstantBytes,          \* distance of two constants (64)
    Page,                   \* what lui rounds to (0x1000)
    ScalarRegister,         \* integer and floating-point registers but zero
    VectorRegister,         \* v0, v1, ...: a sequence of names
    Jobs,                   \* functions with an element count and a VLEN
    StepBase, StepFactor    \* max_steps = StepBase + StepFactor * count

Zero == "zero"
VConfig == "vconfig"
Register == ScalarRegister \cup {VectorRegister[k] : k \in DOMAIN VectorRegister}
            \cup {VConfig}
NoMemory == [base |-> None]
Reg(r) == [kind |-> "reg", reg |-> r]

Branch == {"beq", "bgeu", "bgtu", "bltu", "j"}
Return == {"ret", "jr"}
VectorAccess == {"vle32", "vse32"}
Loads == {"ld", "flw", "vle32"}
Stores == {"sd", "fsw", "vse32"}
WritesScalar == {"li", "lui", "add", "sub", "slli", "ld", "vsetvli"}
Vector == VectorAccess \cup {"vsetvli", "vop", "vfmacc"}

Word == 2^W
ASSUME WordAssumption ==
    /\ W \in Nat \ {0} /\ LineBytes \in Nat \ {0} /\ ElementBytes \in Nat \ {0}
    /\ ScalarBytes \in Nat \ {0} /\ ConstantBytes \in Nat /\ Page \in Nat \ {0}
    /\ {InputBase, OutputBase, StackBase} \subseteq 0..(Word - 1)
    /\ StackBytes \in Nat /\ ConstantBase \in Nat /\ StepBase \in Nat /\ StepFactor \in Nat
    /\ InputBase < OutputBase /\ OutputBase < StackBase /\ StackBase < ConstantBase
\* Powers of two are positive integers: stated for the provers, which have no
\* axioms about powers.
ASSUME PowersAssumption == \A n \in 0..W : 2^n \in Nat \ {0}
ASSUME RegisterAssumption ==
    /\ {"a0", "a1", "a2", "sp", "ra"} \subseteq ScalarRegister
    /\ {Zero, VConfig, None} \cap ScalarRegister = {}
    /\ Len(VectorRegister) \in Nat /\ DOMAIN VectorRegister = 1..Len(VectorRegister)
\* What parse_function and an assembler hand over: known registers, numbers and
\* branch targets that exist; scalar instructions name scalar registers, a shift
\* amount fits the word, an access has an address, vsetvli an SEW and an LMUL.
RegisterOperand(S) == {Reg(r) : r \in S \cup {Zero}}
IsScalarSource(o) == (o.kind = "imm" /\ o.value \in Int) \/ o \in RegisterOperand(ScalarRegister)
Operand(o) == o = NoOperand \/ o.kind = "imm" \/ o \in RegisterOperand(Register)
Sources(i) ==
    CASE i.op \in {"li", "sd"} -> {1}
      [] i.op \in {"add", "sub"} -> {1, 2}
      [] i.op = "slli" \/ (i.op = "lui" /\ i.mem = NoMemory) -> {1}
      [] OTHER -> {}
InstructionIsParsed(i, length) ==
    /\ Operand(i.dst) /\ \A n \in DOMAIN i.src : Operand(i.src[n])
    /\ i.mem # NoMemory => i.mem.base \in ScalarRegister \cup {Zero} /\ i.mem.disp \in Int
    /\ i.op \in Loads \cup Stores => i.mem # NoMemory
    /\ i.op = "lui" /\ i.mem # NoMemory => i.mem.label # None
    /\ i.op \in WritesScalar => i.dst \in RegisterOperand(ScalarRegister)
    /\ \A n \in Sources(i) : IsScalarSource(i.src[n])
    /\ i.op = "slli" => i.src[2].kind = "imm" /\ i.src[2].value \in 0..(W - 1)
    /\ i.op = "vsetvli" => /\ i.src[1] \in RegisterOperand(ScalarRegister)
                           /\ i.sew \in Nat \ {0} /\ i.lmul \in Nat \ {0}
    /\ i.target \in 1..(length + 1)
ProgramsAreParsed ==
    \A j \in Jobs :
        /\ j.count \in 0..(Word - 1) /\ j.vlen \in Nat /\ Len(j.program) \in Nat
        /\ \A k \in 1..Len(j.program) : InstructionIsParsed(j.program[k], Len(j.program))
ASSUME ProgramAssumption == ProgramsAreParsed

VARIABLES
    job, pc, steps, status,     \* as in X86FrontEnd
    regs,           \* registers: 0 until written
    stack,          \* what sd has stored, by address
    constants,      \* addresses given to labels
    config,         \* vector_state: sew, lmul, vlmax, vl (NoVl at first)
    lastReg, lastStore, trace

machine == <<regs, stack, constants, config>>
vars == <<job, pc, steps, status, machine, lastReg, lastStore, trace>>

NoVl == -1
Program == job.program
Here == Program[pc]

-----------------------------------------------------------------------------
\* vector_group: an operand stands for LMUL consecutive vector registers.
GroupSize == IF config.lmul < 16 THEN 1 ELSE config.lmul \div 8
IndexOf(r) == {k \in DOMAIN VectorRegister : VectorRegister[k] = r}
Group(r) ==
    IF IndexOf(r) = {} THEN {r}
    ELSE {VectorRegister[k] : k \in UNION {n..(n + GroupSize - 1) : n \in IndexOf(r)}}

ExceedsFile(i) ==
    \E o \in {i.dst} \cup {i.src[n] : n \in DOMAIN i.src} :
        /\ o.kind = "reg"
        /\ \E n \in IndexOf(o.reg) : n + GroupSize - 1 > Len(VectorRegister)

RegistersOf(o) == IF o.kind = "reg" /\ o.reg # Zero THEN Group(o.reg) ELSE {}

\* register_roles.  A fused multiply-add reads its destination too.
Reads(i) ==
    (UNION {RegistersOf(i.src[n]) : n \in DOMAIN i.src})
    \cup ({i.mem.base} \ {Zero, None})
    \cup (IF i.op = "vfmacc" THEN RegistersOf(i.dst) ELSE {})
    \cup (IF i.op = "ret" THEN {"ra"} ELSE {})
    \cup (IF i.op \in Vector \ {"vsetvli"} THEN {VConfig} ELSE {})
Writes(i) == RegistersOf(i.dst) \cup IF i.op = "vsetvli" THEN {VConfig} ELSE {}

-----------------------------------------------------------------------------
Value(o) == IF o.kind = "imm" THEN o.value ELSE IF o.reg = Zero THEN 0 ELSE regs[o.reg]

\* constant_address.  lui rounds it to a page, the access adds the rest back.
WithLabel(label) ==
    IF label = None \/ label \in DOMAIN constants THEN constants
    ELSE [l \in DOMAIN constants \cup {label} |->
            IF l \in DOMAIN constants THEN constants[l]
            ELSE ConstantBase + ConstantBytes * Cardinality(DOMAIN constants)]

\* evaluate_memory.
Address(mem) ==
    IF mem.label # None THEN WithLabel(mem.label)[mem.label]
    ELSE (IF mem.base = Zero THEN 0 ELSE regs[mem.base]) + mem.disp
Region(mem) ==
    LET a == Address(mem)
    IN  CASE mem.label # None -> "constant"
          [] a >= InputBase /\ a < OutputBase -> "input"
          [] a >= OutputBase /\ a < StackBase -> "output"
          [] a >= StackBase - StackBytes /\ a < ConstantBase -> "stack"
          [] a >= ConstantBase -> "constant"
          [] OTHER -> "other"

\* access_bytes.
MutantWholeGroup(i) == CASE i.op \in {"ld", "sd"} -> ScalarBytes
                         [] i.op \in {"flw", "fsw"} -> ElementBytes
                         [] i.op \in VectorAccess -> config.vlmax * ElementBytes
Bytes(i) == CASE i.op \in {"ld", "sd"} -> ScalarBytes
              [] i.op \in {"flw", "fsw"} -> ElementBytes
              [] i.op \in VectorAccess -> config.vl * ElementBytes

AccessOf(i) ==
    IF i.op \notin Loads \cup Stores THEN NoAccess
    ELSE [access |-> IF i.op \in Stores THEN "store" ELSE "load",
          address |-> Address(i.mem), region |-> Region(i.mem),
          bytes |-> Bytes(i), lines |-> LinesOf(Address(i.mem), Bytes(i))]

\* vector_state_from_operands: a source of zero asks for VLMAX, or with a
\* destination of zero for the VL there is.
KeepsVl(i) == i.dst = Reg(Zero) /\ i.src[1] = Reg(Zero)
VlMax(i) == (job.vlen * i.lmul) \div (8 * i.sew)
ConfigAfter(i, c) ==
    [sew |-> i.sew, lmul |-> i.lmul, vlmax |-> VlMax(i),
     vl |-> CASE KeepsVl(i) -> c.vl
              [] i.src[1] = Reg(Zero) /\ i.dst # Reg(Zero) -> VlMax(i)
              [] OTHER -> Min({Value(i.src[1]), VlMax(i)})]

\* update_scalar_state: the value written to the destination.
Result(i) ==
    CASE i.op = "li" -> Value(i.src[1])
      [] i.op = "lui" ->
            IF i.mem = NoMemory THEN Value(i.src[1]) * Page
            ELSE ((WithLabel(i.mem.label)[i.mem.label] + Page \div 2) \div Page) * Page
      [] i.op = "add" -> Value(i.src[1]) + Value(i.src[2])
      [] i.op = "sub" -> Value(i.src[1]) - Value(i.src[2])
      [] i.op = "slli" -> Value(i.src[1]) * 2^Value(i.src[2])
      [] i.op = "ld" -> IF Address(i.mem) \in DOMAIN stack THEN stack[Address(i.mem)] ELSE 0
      [] i.op = "vsetvli" -> ConfigAfter(i, config).vl

UpdateScalarState(i) ==
    /\ regs' = IF i.op \in WritesScalar /\ i.dst # Reg(Zero)
               THEN [regs EXCEPT ![i.dst.reg] = Result(i) % Word] ELSE regs
    /\ stack' = IF i.op # "sd" THEN stack
                ELSE [a \in DOMAIN stack \cup {Address(i.mem)} |->
                        IF a = Address(i.mem) THEN Value(i.src[1]) ELSE stack[a]]
    /\ config' = IF i.op = "vsetvli" THEN ConfigAfter(i, config) ELSE config
    /\ constants' = IF i.mem = NoMemory THEN constants ELSE WithLabel(i.mem.label)

\* branch_taken.
BranchTaken(i) ==
    i.op = "j" \/
    LET left == Value(i.src[1]) % Word  right == Value(i.src[2]) % Word
    IN  CASE i.op = "beq" -> left = right
          [] i.op = "bgeu" -> left >= right
          [] i.op = "bgtu" -> left > right
          [] i.op = "bltu" -> left < right

-----------------------------------------------------------------------------
\* build_dynamic_trace.
Init ==
    /\ job \in Jobs /\ pc = 1 /\ steps = 0 /\ trace = <<>>
    /\ status = IF job.count > 0 /\ job.vlen > 0 /\ job.vlen % 8 = 0
                THEN "running" ELSE "error"
    /\ regs = [r \in ScalarRegister |->
                CASE r = "a0" -> InputBase [] r = "a1" -> OutputBase
                  [] r = "a2" -> job.count [] r = "sp" -> StackBase [] OTHER -> 0]
    /\ config = [sew |-> 0, lmul |-> 8, vlmax |-> NoVl, vl |-> NoVl]
    /\ stack = [a \in {} |-> 0] /\ constants = [l \in {} |-> 0]
    /\ lastReg = [r \in Register |-> 0] /\ lastStore = [l \in {} |-> 0]

MaxSteps == StepBase + StepFactor * job.count

\* What raises: a group past the last register, a vector access or a kept VL
\* before the first vsetvli.
Unsupported(i) ==
    \/ ExceedsFile(i)
    \/ config.vl = NoVl /\ \/ i.op \in VectorAccess
                           \/ i.op = "vsetvli" /\ KeepsVl(i)

MemoryDependencies(a) ==
    IF a = NoAccess THEN {} ELSE {lastStore[l] : l \in a.lines \cap DOMAIN lastStore}

\* semantic_uops marks the old destination only where the operand is also read.
OldDestination(i) == {r \in Reads(i) \cap Writes(i) : IndexOf(r) # {}}

Record(i, a) ==
    [static |-> pc, reads |-> Reads(i), writes |-> Writes(i), memory |-> a,
     old |-> {lastReg[r] : r \in OldDestination(i)} \ {0},
     config |-> IF i.op = "vsetvli" THEN ConfigAfter(i, config) ELSE config,
     dependsOn |-> ({lastReg[r] : r \in Reads(i)} \ {0}) \cup MemoryDependencies(a)]

MutantHeadOfGroup(i) ==
    [r \in Register |-> IF i.dst = Reg(r) THEN Len(trace) + 1 ELSE lastReg[r]]
WritersAfter(i) ==
    [r \in Register |-> IF r \in Writes(i) THEN Len(trace) + 1 ELSE lastReg[r]]

Running == status = "running" /\ pc <= Len(Program) /\ steps < MaxSteps

Expand ==
    /\ Running /\ ~Unsupported(Here)
    /\ steps' = steps + 1
    /\ trace' = Append(trace, Record(Here, AccessOf(Here)))
    /\ lastReg' = WritersAfter(Here)
    /\ lastStore' = StoresAfter(lastStore, AccessOf(Here), Len(trace) + 1)
    /\ UpdateScalarState(Here)
    /\ pc' = IF Here.op \in Branch /\ BranchTaken(Here) THEN Here.target ELSE pc + 1
    /\ status' = IF Here.op \in Return THEN "done" ELSE status
    /\ UNCHANGED job

Raise ==
    /\ status = "running" /\ pc <= Len(Program)
    /\ steps >= MaxSteps \/ Unsupported(Here)
    /\ status' = "error"
    /\ UNCHANGED <<job, pc, steps, machine, lastReg, lastStore, trace>>

RunOffTheEnd ==
    /\ status = "running" /\ pc > Len(Program)
    /\ status' = "done"
    /\ UNCHANGED <<job, pc, steps, machine, lastReg, lastStore, trace>>

Stopped == status # "running" /\ UNCHANGED vars

Next == Expand \/ Raise \/ RunOffTheEnd \/ Stopped

Spec == Init /\ [][Next]_vars

-----------------------------------------------------------------------------
(* Properties *)

\* Every variable keeps its shape.
TypeOK ==
    /\ pc \in 1..(Len(Program) + 1) /\ steps \in 0..MaxSteps
    /\ status \in {"running", "done", "error"}
    /\ regs \in [ScalarRegister -> 0..(Word - 1)]
    /\ config.vl \in Nat \cup {NoVl}
    /\ lastReg \in [Register -> 0..Len(trace)]
    /\ \A l \in DOMAIN lastStore : lastStore[l] \in 1..Len(trace)

\* An access follows every earlier store to any of its bytes, whatever VL each of
\* them had, although only the last store to each line is remembered.
StoresOrdered == FollowStores(trace)

\* An entry depends on the last writer of every register of its operands' groups,
\* also where that writer used another grouping, and on the last vsetvli.
DependsOnLastWriters == \A k \in DOMAIN trace : OnLastWriters(trace, k, {})

\* The writers of the old value of a destination, which the binder takes as a
\* separate input, are dependencies of the entry: a destination that is merely
\* overwritten adds no write-after-write edge.
OldDestinationsAreDependencies ==
    \A k \in DOMAIN trace : trace[k].old \subseteq trace[k].dependsOn

\* VL never exceeds VLMAX, if every vsetvli that keeps VL keeps VLMAX too: the
\* loop takes the old VL over without a look at the new VLMAX.
KeptUnderSameMax ==
    \A k, n \in 1..Len(Program) :
        /\ Program[k].op = "vsetvli" /\ Program[n].op = "vsetvli" /\ KeepsVl(Program[n])
        => VlMax(Program[k]) = VlMax(Program[n])
VlWithinMax == KeptUnderSameMax => config.vl <= config.vlmax

\* The trace says of the program what the program does, under a configuration
\* that changes: registers by groups, bytes by VL.
TraceExact ==
    /\ TypeOK /\ StoresOrdered /\ DependsOnLastWriters
    /\ OldDestinationsAreDependencies /\ VlWithinMax

\* A vsetvli that keeps VL takes it from the configuration before it: the entry
\* that made that configuration must be an ancestor of every later vector entry.
KeptVlHasProducer ==
    \A k \in DOMAIN trace : Program[trace[k].static].op \in Vector \ {"vsetvli"} =>
        \A j \in 1..(k - 1) :
            /\ Program[trace[j].static].op = "vsetvli"
            /\ \A l \in (j + 1)..(k - 1) :
                  LET i == Program[trace[l].static]
                  IN  i.op = "vsetvli" => KeepsVl(i)
            => j \in Ancestors(trace, k)

=============================================================================
