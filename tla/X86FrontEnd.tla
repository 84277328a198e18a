---------------------------- MODULE X86FrontEnd ----------------------------
(***************************************************************************)
(* frontends/x86.py: the expansion of a kernel's assembly into a dynamic   *)
(* trace (build_dynamic_trace).  The loop interprets the scalar            *)
(* instructions on concrete values, follows the branches, and records for  *)
(* every instruction it passes the instructions it depends on: the last    *)
(* writer of each register it reads, of the flags, and the last store to   *)
(* each cache line it touches.                                             *)
(*                                                                         *)
(* Machine words have W bits, their low halves H and bytes B (64, 32 and 8 *)
(* in the code); a cache line has LineBytes bytes.  An instruction is a record    *)
(* [op, src, dst, mem, bytes, target]: src and dst are operands, mem is a  *)
(* memory operand or NoMemory, bytes what access_bytes says of it, target  *)
(* the index a branch label stands for.  The text of instructions is left  *)
(* out; so is the recipe's list of semantic uops, which decides nothing.   *)
(***************************************************************************)
EXTENDS DynamicTrace

CONSTANTS
    W, H, B,        \* bits of a register, of its low half and of a byte
    InputBase,      \* where the loop puts the input buffer (0x100000)
    OutputBase,     \* ... and the output buffer (0x200000)
    ConstantBase,   \* ... and the first constant (0x400000)
    GeneralRegister, VectorRegister, Label,
    Jobs,           \* the functions to expand, each with an element count
    Granule,        \* count must be a positive multiple of it (16)
    StepBase, StepFactor    \* max_steps = StepBase + StepFactor * count

Register == GeneralRegister \cup VectorRegister
Word == 2^W
NoMemory == [base |-> None]

\* Register operands: a register, or the low half of one.
Reg(r) == [kind |-> "reg", reg |-> r, low |-> FALSE]
Low(r) == [kind |-> "reg", reg |-> r, low |-> TRUE]

Conditional == {"jb", "jnb", "jbe", "ja", "je", "jne", "jl", "jge", "jle", "jg",
                "jo", "jno", "js", "jns"}
Branch == Conditional \cup {"jmp"}
Shift == {"shlq", "shrq", "sarq"}
Logic == {"andq", "orq", "xorq", "xorl"}
TwoOperand == {"addq", "subq"} \cup Logic \cup Shift
OneOperand == {"incq", "decq", "negq", "notq"}
Compare == {"testq", "cmpq"}
Move == {"movl", "movq", "movslq", "movzbl"}
FlagWriters == (TwoOperand \cup OneOperand \cup Compare) \ {"notq"}
VectorOp == {"vmovups", "vop", "vfmadd", "vxorps"}

ASSUME WordAssumption ==
    /\ W \in Nat \ {0} /\ H \in 1..W /\ B \in 1..H /\ LineBytes \in Nat \ {0}
    /\ InputBase \in Nat /\ OutputBase \in Nat /\ ConstantBase \in Nat
    /\ StepBase \in Nat /\ StepFactor \in Nat
    /\ Granule \in Nat \ {0}
\* The arithmetic of powers that a word of W bits needs, for the provers, which
\* have no axioms about them.
ASSUME PowersAssumption ==
    /\ 2^0 = 1
    /\ \A n \in 1..W : 2^n \in Nat /\ 2^n = 2 * 2^(n - 1)
ASSUME RegisterAssumption ==
    /\ {"rdi", "rsi", "rdx", "rax", "rcx"} \subseteq GeneralRegister
    /\ GeneralRegister \cap VectorRegister = {} /\ None \notin Register
\* What the parser hands over: known registers, numbers, branch targets that
\* exist.  An assembler accepts a mnemonic that ends in q with whole registers
\* only, and leaq with an address and a register.
OperandIsParsed(o) ==
    \/ o = NoOperand
    \/ o.kind = "imm" /\ o.value \in Int
    \/ o.kind = "reg" /\ o.reg \in Register /\ o.low \in BOOLEAN
MemoryIsParsed(mem) ==
    mem # NoMemory => mem.disp \in Int /\ mem.scale \in Int
WholeWord == (TwoOperand \cup OneOperand \cup {"movslq", "leaq"}) \ {"xorl"}
InstructionIsParsed(i, length) ==
    /\ OperandIsParsed(i.src) /\ OperandIsParsed(i.dst) /\ MemoryIsParsed(i.mem)
    /\ i.bytes \in Nat /\ (i.mem # NoMemory /\ i.op # "leaq" => i.bytes > 0)
    /\ i.target \in 1..length
    /\ i.op \in WholeWord /\ i.dst.kind = "reg" => ~i.dst.low
    /\ i.op = "leaq" => i.mem # NoMemory /\ i.dst.kind = "reg"
ProgramsAreParsed ==
    \A j \in Jobs :
        /\ j.count \in Nat /\ Len(j.program) \in Nat
        /\ \A k \in 1..Len(j.program) : InstructionIsParsed(j.program[k], Len(j.program))
ASSUME ProgramAssumption == ProgramsAreParsed

VARIABLES
    program, count, \* the parsed function and the element count, never changed
    pc,             \* index of the next instruction
    steps,          \* how often the loop body has been entered
    status,         \* "running", "done", or "error" once the loop has raised
    regs,           \* registers: the ones that have been given a value
    flags,          \* flags: zf, cf, sf, of
    constants,      \* addresses given to labels
    lastReg,        \* last_register_writer (0: none)
    lastFlags,      \* last_flags_writer (0: none)
    lastStore,      \* last_store_by_line: the lines stored to
    trace           \* instructions: what has been recorded so far

input == <<program, count>>
machine == <<regs, flags, constants>>
writers == <<lastReg, lastFlags, lastStore>>
vars == <<input, pc, steps, status, machine, writers, trace>>

-----------------------------------------------------------------------------
\* Arithmetic on words.
Bit(x, k) == ((x % Word) \div 2^k) % 2
Sign(x) == Bit(x, W - 1) = 1
Signed(x) == IF Sign(x) THEN (x % Word) - Word ELSE x % Word
Bits(x) == {k \in 0..(W - 1) : Bit(x, k) = 1}
FromBits(S) == MapThenSumSet(LAMBDA k : 2^k, S)
And(x, y) == FromBits(Bits(x) \cap Bits(y))
Or(x, y) == FromBits(Bits(x) \cup Bits(y))
Xor(x, y) == FromBits((Bits(x) \ Bits(y)) \cup (Bits(y) \ Bits(x)))

-----------------------------------------------------------------------------
\* register_roles: the registers an instruction reads and writes.
RegistersOf(operand) == IF operand.kind = "reg" THEN {operand.reg} ELSE {}
RegistersInMemory(mem) ==
    IF mem = NoMemory THEN {} ELSE {mem.base, mem.index} \cap Register

\* An exclusive or that names one register is taken for a zeroing idiom.
ZeroIdiom(i) ==
    /\ i.op \in {"xorl", "xorq", "vxorps"}
    /\ Cardinality(RegistersOf(i.src) \cup RegistersOf(i.dst)) = 1

\* A three-operand fused multiply-add also reads its destination.
Reads(i) ==
    RegistersInMemory(i.mem) \cup
    IF i.op \in Branch \cup {"ret", "leaq"} \/ ZeroIdiom(i) THEN {}
    ELSE RegistersOf(i.src) \cup
         IF i.op \in TwoOperand \cup OneOperand \cup Compare \cup {"vfmadd"}
         THEN RegistersOf(i.dst) ELSE {}

Writes(i) ==
    IF i.op \in Branch \cup {"ret"} \cup Compare THEN {} ELSE RegistersOf(i.dst)

ReadsFlags(i) == i.op \in Conditional
WritesFlags(i) == i.op \in FlagWriters

-----------------------------------------------------------------------------
\* evaluate_memory: a label is given the next constant's address when it is
\* first met.  rg is the register file the address is computed from.
WithLabel(mem) ==
    IF mem = NoMemory \/ mem.label = None \/ mem.label \in DOMAIN constants
    THEN constants
    ELSE [l \in DOMAIN constants \cup {mem.label} |->
            IF l \in DOMAIN constants THEN constants[l]
            ELSE ConstantBase + 4 * Cardinality(DOMAIN constants)]

Address(mem, rg) ==
    (IF mem.label = None THEN mem.disp ELSE WithLabel(mem)[mem.label])
    + (IF mem.base \in Register THEN rg[mem.base] ELSE 0)
    + (IF mem.index \in Register THEN rg[mem.index] * mem.scale ELSE 0)

Region(mem) ==
    IF mem.label # None THEN "constant"
    ELSE IF Address(mem, regs) < OutputBase THEN "input" ELSE "output"

Accesses(i) == i.mem # NoMemory /\ i.op # "leaq"

AccessOf(i) ==
    IF ~Accesses(i) THEN NoAccess
    ELSE [access |-> IF i.dst = NoOperand THEN "store" ELSE "load",
          address |-> Address(i.mem, regs), region |-> Region(i.mem),
          bytes |-> i.bytes, lines |-> LinesOf(Address(i.mem, regs), i.bytes)]

-----------------------------------------------------------------------------
\* update_scalar_state: what the interpreted instruction does to a register
\* file rg and flags fl.
Value(operand, rg) == IF operand.kind = "imm" THEN operand.value ELSE rg[operand.reg]

FlagsOf(result, cf, of) ==
    [zf |-> result % Word = 0, cf |-> cf, sf |-> Sign(result), of |-> of]

\* write_register: a write to a low half clears the high half.
Written(operand, value) == IF operand.low THEN value % 2^H ELSE value % Word

\* The operands whose values are looked up; an operation on memory is passed
\* over.  An operand in memory raises "unsupported scalar operand", one that has
\* no value yet "scalar register read before write"; so does an address.
OnRegister(i) == i.op \in TwoOperand \cup OneOperand /\ i.dst.kind = "reg"
Operands(i) ==
    CASE i.op \in Move -> {i.src}
      [] i.op \in Compare \/ (OnRegister(i) /\ i.op \in TwoOperand) -> {i.src, i.dst}
      [] OnRegister(i) /\ i.op \in OneOperand -> {i.dst}
      [] OTHER -> {}
Undefined(i) ==
    \/ \E o \in Operands(i) : o = NoOperand \/ ~(RegistersOf(o) \subseteq DOMAIN regs)
    \/ ~(RegistersInMemory(i.mem) \subseteq DOMAIN regs)

\* cmpq compares words; subq takes its destination as it is stored.
MutantOverflowsOnSign(i, rg) ==
    LET a == Value(i.dst, rg) % Word  b == Value(i.src, rg) % Word
    IN  FlagsOf(a - b, a < b, Sign(a) # Sign(a - b))
MutantBorrowsOnEqual(i, rg) ==
    LET a == Value(i.dst, rg) % Word  b == Value(i.src, rg) % Word
    IN  FlagsOf(a - b, a <= b, Sign(a) # Sign(b) /\ Sign(a) # Sign(a - b))
SubtractFlags(i, rg) ==
    LET a == IF i.op = "cmpq" THEN Value(i.dst, rg) % Word ELSE Value(i.dst, rg)
        b == Value(i.src, rg) % Word
    IN  FlagsOf(a - b, a < b, Sign(a) # Sign(b) /\ Sign(a) # Sign(a - b))

AddFlags(i, rg) ==
    LET a == Value(i.dst, rg)  b == Value(i.src, rg) % Word
    IN  FlagsOf(a + b, a + b >= Word, Sign(a) = Sign(b) /\ Sign(a) # Sign(a + b))

ShiftCount(i, rg) == Value(i.src, rg) % W

Shifted(i, rg) ==
    LET old == Value(i.dst, rg) % Word
        by == 2^ShiftCount(i, rg)
    IN  CASE i.op = "shlq" -> old * by
          [] i.op = "shrq" -> old \div by
          [] i.op = "sarq" -> Signed(old) \div by

\* The last bit shifted out.
ShiftCarry(i, rg) ==
    LET old == Value(i.dst, rg) % Word
        by == 2^ShiftCount(i, rg)
    IN  IF i.op = "shlq" THEN ((old * by) \div Word) % 2 = 1
        ELSE (old \div (by \div 2)) % 2 = 1

\* The value given to the destination.  leaq stores the address unmasked.
Result(i, rg) ==
    LET old == Value(i.dst, rg)
        src == Value(i.src, rg)
    IN  CASE i.op \in {"movl", "movq"} -> Written(i.dst, src)
          [] i.op = "movslq" -> IF src % 2^H >= 2^(H - 1)
                                THEN ((src % 2^H) - 2^H) % Word ELSE src % 2^H
          [] i.op = "movzbl" -> Written(i.dst, src % 2^B)
          [] i.op = "addq" -> (old + src) % Word
          [] i.op = "subq" -> (old - src) % Word
          [] i.op = "andq" -> Written(i.dst, And(old, src))
          [] i.op = "orq" -> Written(i.dst, Or(old, src))
          [] i.op \in {"xorl", "xorq"} -> Written(i.dst, Xor(old, src))
          [] i.op \in Shift ->
                IF ShiftCount(i, rg) = 0 THEN old ELSE Shifted(i, rg) % Word
          [] i.op = "incq" -> (old + 1) % Word
          [] i.op = "decq" -> (old - 1) % Word
          [] i.op = "negq" -> (-old) % Word
          [] i.op = "notq" -> (-old - 1) % Word
          [] i.op = "leaq" -> Address(i.mem, rg)

FlagsAfter(i, rg, fl) ==
    LET old == Value(i.dst, rg) % Word
        src == Value(i.src, rg)
    IN  CASE i.op \in TwoOperand \cup OneOperand /\ ~OnRegister(i) -> fl
          [] i.op = "addq" -> AddFlags(i, rg)
          [] i.op \in {"subq", "cmpq"} -> SubtractFlags(i, rg)
          [] i.op \in {"andq", "testq"} -> FlagsOf(And(old, src), FALSE, FALSE)
          [] i.op = "orq" -> FlagsOf(Or(old, src), FALSE, FALSE)
          [] i.op \in {"xorl", "xorq"} -> FlagsOf(Xor(old, src), FALSE, FALSE)
          [] i.op \in Shift ->
                IF ShiftCount(i, rg) = 0 THEN fl
                ELSE FlagsOf(Shifted(i, rg), ShiftCarry(i, rg), FALSE)
          [] i.op = "incq" -> FlagsOf(old + 1, fl.cf, old = 2^(W - 1) - 1)
          [] i.op = "decq" -> FlagsOf(old - 1, fl.cf, old = 2^(W - 1))
          [] i.op = "negq" -> FlagsOf(-old, old # 0, old = 2^(W - 1))
          [] OTHER -> fl

UpdatesRegister(i) ==
    i.op \in Move \cup TwoOperand \cup OneOperand \cup {"leaq"} /\ i.dst.kind = "reg"

UpdateScalarState(i) ==
    /\ regs' = IF UpdatesRegister(i)
               THEN [r \in DOMAIN regs \cup {i.dst.reg} |->
                        IF r = i.dst.reg THEN Result(i, regs) ELSE regs[r]]
               ELSE regs
    /\ flags' = FlagsAfter(i, regs, flags)
    /\ constants' = WithLabel(i.mem)

\* branch_taken.  A branch leaves the flags alone, so they are those before it.
BranchTaken(op, fl) ==
    CASE op = "jmp" -> TRUE
      [] op = "je" -> fl.zf
      [] op = "jne" -> ~fl.zf
      [] op = "jb" -> fl.cf
      [] op = "jnb" -> ~fl.cf
      [] op = "jbe" -> fl.cf \/ fl.zf
      [] op = "ja" -> ~fl.cf /\ ~fl.zf
      [] op = "jl" -> fl.sf # fl.of
      [] op = "jge" -> fl.sf = fl.of
      [] op = "jle" -> fl.zf \/ fl.sf # fl.of
      [] op = "jg" -> ~fl.zf /\ fl.sf = fl.of
      [] op = "jo" -> fl.of
      [] op = "jno" -> ~fl.of
      [] op = "js" -> fl.sf
      [] op = "jns" -> ~fl.sf

-----------------------------------------------------------------------------
\* build_dynamic_trace.
Init ==
    /\ \E j \in Jobs : program = j.program /\ count = j.count
    /\ pc = 1 /\ steps = 0 /\ trace = <<>>
    /\ status = IF count > 0 /\ count % Granule = 0 THEN "running" ELSE "error"
    /\ regs = [r \in {"rdi", "rsi", "rdx", "rax", "rcx"} |->
                CASE r = "rdi" -> InputBase [] r = "rsi" -> OutputBase
                  [] r = "rdx" -> count [] OTHER -> 0]
    /\ flags = [zf |-> FALSE, cf |-> FALSE, sf |-> FALSE, of |-> FALSE]
    /\ constants = [l \in {} |-> 0]
    /\ lastReg = [r \in Register |-> 0]
    /\ lastFlags = 0
    /\ lastStore = [l \in {} |-> 0]

MaxSteps == StepBase + StepFactor * count
Here == program[pc]
Running == status = "running" /\ pc <= Len(program) /\ steps < MaxSteps

\* Loads and stores alike wait for the last store to each line they touch.
MutantLoadsOnly(a) ==
    IF a.access # "load" THEN {}
    ELSE {lastStore[l] : l \in a.lines \cap DOMAIN lastStore}
MemoryDependencies(a) ==
    IF a = NoAccess THEN {} ELSE {lastStore[l] : l \in a.lines \cap DOMAIN lastStore}

FlagsDependency(i) == IF ReadsFlags(i) THEN {lastFlags} \ {0} ELSE {}
MutantOwnWrite(i) ==
    {IF r \in Writes(i) THEN Len(trace) + 1 ELSE lastReg[r] : r \in Reads(i)} \ {0}
RegisterDependencies(i) == {lastReg[r] : r \in Reads(i)} \ {0}

Record(i, a) ==
    [static |-> pc, reads |-> Reads(i), writes |-> Writes(i), memory |-> a,
     flags |-> WritesFlags(i),
     dependsOn |-> RegisterDependencies(i) \cup FlagsDependency(i)
                   \cup MemoryDependencies(a)]

\* The writers are recorded before the instruction is interpreted.
UpdateWriters(i, a) ==
    LET id == Len(trace) + 1
    IN  /\ lastReg' = [r \in Register |-> IF r \in Writes(i) THEN id ELSE lastReg[r]]
        /\ lastFlags' = IF WritesFlags(i) THEN id ELSE lastFlags
        /\ lastStore' = StoresAfter(lastStore, a, id)

Expand ==
    /\ Running /\ ~Undefined(Here)
    /\ steps' = steps + 1
    /\ trace' = Append(trace, Record(Here, AccessOf(Here)))
    /\ UpdateWriters(Here, AccessOf(Here))
    /\ UpdateScalarState(Here)
    /\ pc' = IF Here.op \in Branch /\ BranchTaken(Here.op, flags)
             THEN Here.target ELSE pc + 1
    /\ status' = IF Here.op = "ret" THEN "done" ELSE status
    /\ UNCHANGED input

\* A ValueError or KeyError: the trace is dropped.
Raise ==
    /\ status = "running" /\ pc <= Len(program)
    /\ steps >= MaxSteps \/ Undefined(Here)
    /\ status' = "error"
    /\ UNCHANGED <<input, pc, steps, machine, writers, trace>>

RunOffTheEnd ==
    /\ status = "running" /\ pc > Len(program)
    /\ status' = "done"
    /\ UNCHANGED <<input, pc, steps, machine, writers, trace>>

Stopped == status # "running" /\ UNCHANGED vars

Next == Expand \/ Raise \/ RunOffTheEnd \/ Stopped

Spec == Init /\ [][Next]_vars

-----------------------------------------------------------------------------
(* Properties *)

\* Every variable keeps its shape.
TypeOK ==
    /\ pc \in 1..(Len(program) + 1) /\ steps \in 0..MaxSteps
    /\ status \in {"running", "done", "error"}
    /\ DOMAIN regs \subseteq Register /\ \A r \in DOMAIN regs : regs[r] \in Int
    /\ flags \in [zf : BOOLEAN, cf : BOOLEAN, sf : BOOLEAN, of : BOOLEAN]
    /\ lastReg \in [Register -> 0..Len(trace)] /\ lastFlags \in 0..Len(trace)
    /\ \A l \in DOMAIN lastStore : lastStore[l] \in 1..Len(trace)

\* The dependencies of build_dynamic_trace point backwards: the trace is a DAG
\* and its order is a schedule of it, as the binder requires of the producers it
\* looks up.
DependenciesBackward == AllBackward(trace)

\* Memory order through the map from lines to last stores: an access is a
\* descendant of every earlier store to any of its bytes, although it only
\* remembers the last store to each line.
StoresOrdered == FollowStores(trace)

\* The recorded dependencies are read after write: an entry depends on the last
\* writer of each register it reads, on the last writer of the flags if it tests
\* them, on stores that share a line with it, and on nothing else.
DependsOnLastWriters ==
    \A k \in DOMAIN trace :
        OnLastWriters(trace, k,
            IF program[trace[k].static].op \notin Conditional THEN {}
            ELSE LatestOf({j \in 1..(k - 1) : trace[j].flags}))

\* Everything an instruction does that the loop keeps: the value it gives its
\* destination, the flags, and the address it goes to.
Outcome(i, rg) ==
    <<IF UpdatesRegister(i) THEN Result(i, rg) ELSE 0, FlagsAfter(i, rg, flags),
      IF i.mem = NoMemory THEN 0 ELSE Address(i.mem, rg)>>

\* register_roles and update_scalar_state agree on what an instruction reads: no
\* register outside the recorded reads can change its outcome, so that every
\* register RAW dependency is in the trace.
OutcomeFromReads ==
    Running /\ ~Undefined(Here) =>
        \A r \in DOMAIN regs \ Reads(Here) : \A v \in 0..(Word - 1) :
            Outcome(Here, [regs EXCEPT ![r] = v]) = Outcome(Here, regs)

\* The trace says of the program what the program does: which registers, flags
\* and bytes each entry takes from which earlier one.
TraceExact ==
    /\ TypeOK /\ DependenciesBackward /\ StoresOrdered /\ DependsOnLastWriters
    /\ OutcomeFromReads

\* An instruction that becomes the last flags writer determines all the flags:
\* none of them can come from a writer before it, on which the trace has no
\* dependency.
FlagsFromLastWriter ==
    Running /\ ~Undefined(Here) /\ WritesFlags(Here) =>
        \A cf \in BOOLEAN :
            FlagsAfter(Here, regs, [flags EXCEPT !.cf = cf]).cf
                = FlagsAfter(Here, regs, flags).cf

\* The comparisons a conditional branch stands for, on the words compared.
Holds(op, a, b) ==
    CASE op = "je" -> a = b [] op = "jne" -> a # b
      [] op = "jb" -> a < b [] op = "jnb" -> a >= b
      [] op = "jbe" -> a <= b [] op = "ja" -> a > b
      [] op = "jl" -> Signed(a) < Signed(b) [] op = "jge" -> Signed(a) >= Signed(b)
      [] op = "jle" -> Signed(a) <= Signed(b) [] op = "jg" -> Signed(a) > Signed(b)
      [] op \in {"js", "jns"} -> (Sign(a - b) <=> op = "js")
      [] OTHER -> ((Signed(a) - Signed(b) \notin -(2^(W - 1))..(2^(W - 1) - 1))
                      <=> op = "jo")

\* A conditional branch right after a cmpq goes where the comparison of the two
\* words, unsigned or signed, says: the carry, sign and overflow that
\* update_scalar_state derives from unbounded integers are those of the machine.
BranchFollowsComparison ==
    [][\A k \in {Len(trace)} \ {0} :
         LET c == program[trace[k].static]
         IN  Expand /\ Here.op \in Conditional /\ c.op = "cmpq" /\ pc # Len(program)
             => (pc' = Here.target) <=> (\/ Holds(Here.op, Value(c.dst, regs) % Word,
                                                  Value(c.src, regs) % Word)
                                         \/ Here.target = pc + 1)]_vars

\* A write through the low half of a register leaves a zero-extended value, and
\* no interpreted write but an address leaves more than a word.
WritesAreWords ==
    [][\A r \in DOMAIN regs' :
         \/ (r \in DOMAIN regs /\ regs'[r] = regs[r])
         \/ Here.op = "leaq"
         \/ regs'[r] \in 0..(IF Here.dst.low THEN 2^H - 1 ELSE Word - 1)]_vars

\* The scalar interpreter computes with machine words.
InterpretsWords == BranchFollowsComparison /\ WritesAreWords

=============================================================================
