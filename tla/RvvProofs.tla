----------------------------- MODULE RvvProofs -----------------------------
(***************************************************************************)
(* Theorems about RvvFrontEnd, for every program, VLEN, register file, line *)
(* size and element count: the trace that build_dynamic_trace records is   *)
(* exact under a register grouping and a vector length that change.        *)
(***************************************************************************)
EXTENDS RvvFrontEnd, DynamicTraceProofs

-----------------------------------------------------------------------------
(* What is interpreted: parsed instructions on typed registers.            *)

ProgramInv ==
    /\ Len(Program) \in Nat /\ job.count \in 0..(Word - 1) /\ job.vlen \in Nat
    /\ pc \in 1..(Len(Program) + 1)
    /\ \A k \in 1..Len(Program) : InstructionIsParsed(Program[k], Len(Program))

\* The configuration is that of the last vsetvli.
ConfigInv ==
    /\ config.vl \in Nat \cup {NoVl} /\ config.lmul \in Nat
    /\ IF config.vl = NoVl THEN config.vlmax = NoVl
       ELSE \E k \in 1..Len(Program) :
               Program[k].op = "vsetvli" /\ config.vlmax = VlMax(Program[k])
    /\ VlWithinMax

ValuesInv ==
    /\ regs \in [ScalarRegister -> 0..(Word - 1)]
    /\ \A a \in DOMAIN stack : stack[a] \in Int
    /\ IsFiniteSet(DOMAIN constants) /\ \A l \in DOMAIN constants : constants[l] \in Int

LEMMA WordFacts == Word \in Nat \ {0}
BY WordAssumption, PowersAssumption DEF Word

LEMMA HereFacts ==
    ASSUME ProgramInv, pc <= Len(Program)
    PROVE  /\ InstructionIsParsed(Here, Len(Program)) /\ pc \in 1..Len(Program)
           /\ Here.target \in 1..(Len(Program) + 1) /\ Len(Program) \in Nat
<1>1. Len(Program) \in Nat /\ pc \in 1..Len(Program)
  BY DEF ProgramInv
<1>2. InstructionIsParsed(Here, Len(Program))
  BY <1>1 DEF Here, ProgramInv
<1>3. Here.target \in 1..(Len(Program) + 1)
  BY <1>2 DEF InstructionIsParsed
<1> QED
  BY <1>1, <1>2, <1>3

LEMMA ValueType ==
    ASSUME ValuesInv, NEW o, IsScalarSource(o)
    PROVE  Value(o) \in Int
<1>1. CASE o.kind = "imm"
  BY <1>1 DEF IsScalarSource, Value, RegisterOperand, Reg
<1>2. CASE o \in RegisterOperand(ScalarRegister)
  <2>1. PICK r \in ScalarRegister \cup {Zero} : o = Reg(r)
    BY <1>2 DEF RegisterOperand
  <2>2. o.kind = "reg" /\ o.reg = r
    BY <2>1 DEF Reg
  <2>3. r # Zero => regs[r] \in Int
    BY WordFacts DEF ValuesInv
  <2> QED
    BY <2>2, <2>3 DEF Value
<1> QED
  BY <1>1, <1>2 DEF IsScalarSource

LEMMA LabelsType ==
    ASSUME ValuesInv, NEW label
    PROVE  /\ IsFiniteSet(DOMAIN WithLabel(label))
           /\ \A l \in DOMAIN WithLabel(label) : WithLabel(label)[l] \in Int
           /\ label # None => label \in DOMAIN WithLabel(label)
<1>1. /\ IsFiniteSet(DOMAIN constants) /\ \A l \in DOMAIN constants : constants[l] \in Int
      /\ ConstantBase \in Nat /\ ConstantBytes \in Nat
      /\ Cardinality(DOMAIN constants) \in Nat
  BY FS_CardinalityType, WordAssumption DEF ValuesInv
<1>2. CASE label = None \/ label \in DOMAIN constants
  <2>1. WithLabel(label) = constants
    BY <1>2 DEF WithLabel
  <2> QED
    BY <2>1, <1>1, <1>2
<1>3. CASE ~(label = None \/ label \in DOMAIN constants)
  <2> DEFINE a == ConstantBase + ConstantBytes * Cardinality(DOMAIN constants)
  <2>1. WithLabel(label) = [l \in DOMAIN constants \cup {label} |->
            IF l \in DOMAIN constants THEN constants[l] ELSE a]
    BY <1>3 DEF WithLabel
  <2>2. IsFiniteSet(DOMAIN constants \cup {label})
    BY <1>1, FS_AddElement
  <2>3. a \in Int
    BY <1>1
  <2> HIDE DEF a
  <2> QED
    BY <2>1, <2>2, <2>3, <1>1
<1> QED
  BY <1>2, <1>3

LEMMA AddressType ==
    ASSUME ValuesInv, NEW mem, mem.base \in ScalarRegister \cup {Zero}, mem.disp \in Int
    PROVE  Address(mem) \in Int
<1>1. mem.label # None => WithLabel(mem.label)[mem.label] \in Int
  BY LabelsType
<1>2. mem.base # Zero => regs[mem.base] \in Int
  BY WordFacts DEF ValuesInv
<1> QED
  BY <1>1, <1>2 DEF Address

LEMMA VlMaxType ==
    ASSUME ProgramInv, NEW i, i.sew \in Nat \ {0}, i.lmul \in Nat \ {0}
    PROVE  VlMax(i) \in Nat
<1>1. PICK a \in Nat : a = job.vlen * i.lmul
  BY DEF ProgramInv
<1>2. PICK b \in Nat \ {0} : b = 8 * i.sew
  OBVIOUS
<1>3. a \div b \in Nat
  OBVIOUS
<1> QED
  BY <1>1, <1>2, <1>3 DEF VlMax

LEMMA LeastOfTwo ==
    ASSUME NEW x \in Int, NEW y \in Int
    PROVE  Min({x, y}) \in {x, y} /\ Min({x, y}) <= x /\ Min({x, y}) <= y
<1>1. \E z \in {x, y} : \A w \in {x, y} : z <= w
  OBVIOUS
<1> QED
  BY <1>1 DEF Min

-----------------------------------------------------------------------------
(* The configuration. *)

LEMMA ConfigAfterFacts ==
    ASSUME ProgramInv, ValuesInv, ConfigInv, NEW k \in 1..Len(Program),
           Program[k].op = "vsetvli", ~Unsupported(Program[k])
    PROVE  LET c == ConfigAfter(Program[k], config)
           IN  /\ c.vl \in Nat /\ c.lmul \in Nat /\ c.vlmax = VlMax(Program[k])
               /\ KeptUnderSameMax => c.vl <= c.vlmax
<1> DEFINE i == Program[k]
           c == ConfigAfter(Program[k], config)
<1>1. /\ i.src[1] \in RegisterOperand(ScalarRegister) /\ i.sew \in Nat \ {0}
      /\ i.lmul \in Nat \ {0} /\ i.op = "vsetvli"
      /\ i.dst \in RegisterOperand(ScalarRegister)
  BY DEF ProgramInv, InstructionIsParsed, WritesScalar
<1>2. VlMax(i) \in Nat
  BY <1>1, VlMaxType
<1>3. Value(i.src[1]) \in Nat
  <2>1. PICK r \in ScalarRegister \cup {Zero} : i.src[1] = Reg(r)
    BY <1>1 DEF RegisterOperand
  <2>2. i.src[1].kind = "reg" /\ i.src[1].reg = r
    BY <2>1 DEF Reg
  <2>3. r # Zero => regs[r] \in Nat
    BY WordFacts DEF ValuesInv
  <2> QED
    BY <2>2, <2>3 DEF Value
<1>4. /\ c.lmul = i.lmul /\ c.vlmax = VlMax(i)
      /\ c.vl = CASE KeepsVl(i) -> config.vl
                  [] i.src[1] = Reg(Zero) /\ i.dst # Reg(Zero) -> VlMax(i)
                  [] OTHER -> Min({Value(i.src[1]), VlMax(i)})
  BY DEF ConfigAfter
<1>5. CASE KeepsVl(i)
  <2>1. config.vl # NoVl
    BY <1>1, <1>5 DEF Unsupported
  <2>2. config.vl \in Nat
    BY <2>1 DEF ConfigInv
  <2>3. PICK n \in 1..Len(Program) : Program[n].op = "vsetvli" /\ config.vlmax = VlMax(Program[n])
    BY <2>1 DEF ConfigInv
  <2>4. KeptUnderSameMax => config.vl <= config.vlmax /\ VlMax(Program[n]) = VlMax(i)
    BY <1>1, <1>5, <2>3 DEF ConfigInv, VlWithinMax, KeptUnderSameMax
  <2>5. c.vl = config.vl
    <3> HIDE DEF c, i
    <3> QED
      BY <1>4, <1>5 DEF KeepsVl
  <2> HIDE DEF c, i
  <2> QED
    BY <1>1, <1>4, <2>2, <2>3, <2>4, <2>5 DEF c, i
<1>6. CASE ~KeepsVl(i)
  <2>1. /\ Min({Value(i.src[1]), VlMax(i)}) \in Nat
        /\ Min({Value(i.src[1]), VlMax(i)}) <= VlMax(i)
    <3>1. \A x, y \in Nat : Min({x, y}) \in Nat /\ Min({x, y}) <= y
      BY LeastOfTwo
    <3> QED
      BY <3>1, <1>2, <1>3
  <2>2. c.vl = VlMax(i) \/ c.vl = Min({Value(i.src[1]), VlMax(i)})
    BY <1>4, <1>6 DEF KeepsVl
  <2> HIDE DEF c, i
  <2>3. c.vl \in Nat /\ c.vl <= VlMax(i)
    BY <1>2, <2>1, <2>2
  <2> QED
    BY <1>1, <1>4, <2>3 DEF c, i
<1> QED
  BY <1>5, <1>6

\* What an expanded instruction reads and writes is in the register file.
LEMMA RolesType ==
    ASSUME NEW i, NEW length, InstructionIsParsed(i, length), ~ExceedsFile(i),
           config.lmul \in Nat
    PROVE  Reads(i) \subseteq Register /\ Writes(i) \subseteq Register
<1> DEFINE Ops == {i.dst} \cup {i.src[n] : n \in DOMAIN i.src}
<1>1. ASSUME NEW o \in Ops PROVE RegistersOf(o) \subseteq Register
  <2>1. Operand(o)
    BY DEF InstructionIsParsed
  <2> SUFFICES ASSUME o.kind = "reg", o.reg # Zero PROVE Group(o.reg) \subseteq Register
    BY DEF RegistersOf
  <2>2. o.reg \in Register
    BY <2>1 DEF Operand, RegisterOperand, Reg, NoOperand, None
  <2>3. CASE IndexOf(o.reg) = {}
    BY <2>2, <2>3 DEF Group
  <2>4. CASE IndexOf(o.reg) # {}
    <3>1. /\ Len(VectorRegister) \in Nat /\ DOMAIN VectorRegister = 1..Len(VectorRegister)
          /\ GroupSize \in Int
      BY RegisterAssumption DEF GroupSize
    <3>2. \A n \in IndexOf(o.reg) : n \in 1..Len(VectorRegister)
                                  /\ n + GroupSize - 1 <= Len(VectorRegister)
      <4>1. \A n \in IndexOf(o.reg) : ~(n + GroupSize - 1 > Len(VectorRegister))
        BY DEF ExceedsFile
      <4>2. \A n \in IndexOf(o.reg) : n \in 1..Len(VectorRegister)
        BY <3>1 DEF IndexOf
      <4> QED
        BY <3>1, <4>1, <4>2
    <3> DEFINE K == UNION {n..(n + GroupSize - 1) : n \in IndexOf(o.reg)}
    <3>3. ASSUME NEW k \in K PROVE VectorRegister[k] \in Register
      <4>1. PICK n \in IndexOf(o.reg) : k \in n..(n + GroupSize - 1)
        OBVIOUS
      <4>2. n \in 1..Len(VectorRegister) /\ n + GroupSize - 1 <= Len(VectorRegister)
        BY <3>2
      <4>3. k \in 1..Len(VectorRegister)
        BY <3>1, <4>1, <4>2
      <4> QED
        BY <3>1, <4>3 DEF Register
    <3>4. Group(o.reg) = {VectorRegister[k] : k \in K}
      BY <2>4 DEF Group
    <3> HIDE DEF K
    <3> QED
      BY <3>3, <3>4
  <2> QED
    BY <2>3, <2>4
<1>2. RegistersOf(i.dst) \subseteq Register /\ \A n \in DOMAIN i.src : RegistersOf(i.src[n]) \subseteq Register
  BY <1>1
<1>3. {i.mem.base} \ {Zero, None} \subseteq Register
  BY DEF InstructionIsParsed, NoMemory, Register
<1>4. "ra" \in Register /\ VConfig \in Register
  BY RegisterAssumption DEF Register
<1>5. Writes(i) \subseteq Register
  BY <1>2, <1>4 DEF Writes
<1>6. UNION {RegistersOf(i.src[n]) : n \in DOMAIN i.src} \subseteq Register
  BY <1>2
<1>7. Reads(i) \subseteq Register
  BY <1>2, <1>3, <1>4, <1>6 DEF Reads
<1> QED
  BY <1>5, <1>7

\* An access before the first vsetvli raises: what is recorded has a length.
LEMMA AccessShape ==
    ASSUME ValuesInv, ConfigInv, NEW i, NEW length, InstructionIsParsed(i, length),
           ~Unsupported(i)
    PROVE  AccessIsShaped(AccessOf(i))
<1>1. CASE i.op \notin Loads \cup Stores
  BY <1>1 DEF AccessOf, AccessIsShaped
<1>2. CASE i.op \in Loads \cup Stores
  <2>1. i.mem.base \in ScalarRegister \cup {Zero} /\ i.mem.disp \in Int
    BY <1>2 DEF InstructionIsParsed
  <2>2. Address(i.mem) \in Int
    BY <2>1, AddressType
  <2>3. Bytes(i) \in Nat
    <3>1. ScalarBytes \in Nat /\ ElementBytes \in Nat
      BY WordAssumption
    <3>2. i.op \in VectorAccess => config.vl \in Nat
      BY DEF Unsupported, ConfigInv
    <3>3. i.op \in VectorAccess => config.vl * ElementBytes \in Nat
      BY <3>1, <3>2
    <3> QED
      BY <1>2, <3>1, <3>3 DEF Bytes, Loads, Stores, VectorAccess
  <2> QED
    BY <1>2, <2>2, <2>3 DEF AccessOf, AccessIsShaped
<1> QED
  BY <1>1, <1>2

-----------------------------------------------------------------------------
(* update_scalar_state. *)

LEMMA ResultType ==
    ASSUME ProgramInv, ValuesInv, ConfigInv, NEW k \in 1..Len(Program),
           ~Unsupported(Program[k]), Program[k].op \in WritesScalar
    PROVE  Result(Program[k]) \in Int
<1> DEFINE i == Program[k]
<1>1. InstructionIsParsed(i, Len(Program))
  BY DEF ProgramInv
<1>2. \A n \in Sources(i) : Value(i.src[n]) \in Int
  BY <1>1, ValueType DEF InstructionIsParsed
<1>3. CASE i.op \in {"li", "add", "sub"}
  BY <1>2, <1>3 DEF Sources, Result
<1>4. CASE i.op = "slli"
  <2>1. Value(i.src[2]) \in 0..(W - 1)
    BY <1>1, <1>4 DEF InstructionIsParsed, Value
  <2>2. 2^Value(i.src[2]) \in Nat
    BY <2>1, PowersAssumption, WordAssumption
  <2>3. Value(i.src[1]) \in Int
    BY <1>2, <1>4 DEF Sources
  <2>4. Result(i) = Value(i.src[1]) * 2^Value(i.src[2])
    BY <1>4 DEF Result
  <2>5. \A x \in Int, y \in Nat : x * y \in Int
    OBVIOUS
  <2> QED
    BY <2>2, <2>3, <2>4, <2>5
<1>5. CASE i.op = "lui"
  <2>1. CASE i.mem = NoMemory
    <3>1. Value(i.src[1]) \in Int /\ Page \in Int
      BY <1>2, <1>5, <2>1, WordAssumption DEF Sources
    <3>2. Result(i) = Value(i.src[1]) * Page
      BY <1>5, <2>1 DEF Result
    <3> QED
      BY <3>1, <3>2
  <2>2. CASE i.mem # NoMemory
    <3>1. PICK x \in Int : x = WithLabel(i.mem.label)[i.mem.label]
      BY <1>1, <1>5, <2>2, LabelsType DEF InstructionIsParsed
    <3>2. Page \in Nat \ {0}
      BY WordAssumption
    <3>3. PICK y \in Int : y = (x + Page \div 2) \div Page
      BY <3>2
    <3>4. Result(i) = y * Page
      BY <1>5, <2>2, <3>1, <3>3 DEF Result
    <3> QED
      BY <3>2, <3>4
  <2> QED
    BY <2>1, <2>2
<1>6. CASE i.op = "ld"
  BY <1>6 DEF Result, ValuesInv
<1>7. CASE i.op = "vsetvli"
  BY <1>7, ConfigAfterFacts DEF Result
<1> QED
  BY <1>3, <1>4, <1>5, <1>6, <1>7 DEF WritesScalar

LEMMA ExpandValues ==
    ASSUME ProgramInv, ValuesInv, ConfigInv, Expand
    PROVE  ValuesInv' /\ ConfigInv'
<1> DEFINE i == Here
<1>1. /\ InstructionIsParsed(i, Len(Program)) /\ ~Unsupported(i) /\ UpdateScalarState(i)
      /\ pc \in 1..Len(Program) /\ i = Program[pc] /\ Program' = Program /\ job' = job
  BY HereFacts DEF Expand, Running, Here, Program
<1>2. regs' \in [ScalarRegister -> 0..(Word - 1)]
  <2>1. CASE i.op \in WritesScalar /\ i.dst # Reg(Zero)
    <3>1. PICK x \in Int : x = Result(i)
      BY <1>1, <2>1, ResultType
    <3>2. x % Word \in 0..(Word - 1)
      BY WordFacts
    <3>3. regs' = [regs EXCEPT ![i.dst.reg] = x % Word]
      BY <1>1, <2>1, <3>1 DEF UpdateScalarState
    <3>4. i.dst.reg \in ScalarRegister
      BY <1>1, <2>1 DEF InstructionIsParsed, RegisterOperand, Reg
    <3> HIDE DEF i
    <3> QED
      BY <3>2, <3>3, <3>4 DEF ValuesInv
  <2>2. CASE ~(i.op \in WritesScalar /\ i.dst # Reg(Zero))
    BY <1>1, <2>2 DEF UpdateScalarState, ValuesInv
  <2> QED
    BY <2>1, <2>2
<1>3. \A a \in DOMAIN stack' : stack'[a] \in Int
  <2>1. CASE i.op = "sd"
    <3>1. Value(i.src[1]) \in Int
      BY <1>1, <2>1, ValueType DEF InstructionIsParsed, Sources
    <3>2. stack' = [a \in DOMAIN stack \cup {Address(i.mem)} |->
                        IF a = Address(i.mem) THEN Value(i.src[1]) ELSE stack[a]]
      BY <1>1, <2>1 DEF UpdateScalarState
    <3> HIDE DEF i
    <3> QED
      BY <3>1, <3>2 DEF ValuesInv
  <2>2. CASE i.op # "sd"
    BY <1>1, <2>2 DEF UpdateScalarState, ValuesInv
  <2> QED
    BY <2>1, <2>2
<1>4. IsFiniteSet(DOMAIN constants') /\ \A l \in DOMAIN constants' : constants'[l] \in Int
  <2>1. constants' \in {constants, WithLabel(i.mem.label)}
    BY <1>1 DEF UpdateScalarState
  <2> QED
    BY <2>1, LabelsType DEF ValuesInv
<1>5. KeptUnderSameMax' <=> KeptUnderSameMax
  BY <1>1 DEF KeptUnderSameMax, VlMax
<1>6. ConfigInv'
  <2>1. CASE i.op = "vsetvli"
    <3> DEFINE c == ConfigAfter(Program[pc], config)
    <3>1. config' = c
      BY <1>1, <2>1 DEF UpdateScalarState
    <3>2. /\ c.vl \in Nat /\ c.lmul \in Nat /\ c.vlmax = VlMax(Program[pc])
          /\ KeptUnderSameMax => c.vl <= c.vlmax
      BY <1>1, <2>1, ConfigAfterFacts
    <3>3. c.vl # NoVl
      BY <3>2 DEF NoVl
    <3> HIDE DEF c
    <3>4. \E k \in 1..Len(Program') : Program'[k].op = "vsetvli" /\ c.vlmax = VlMax(Program[k])'
      <4>1. Program'[pc].op = "vsetvli" /\ pc \in 1..Len(Program') /\ c.vlmax = VlMax(Program[pc])
        BY <1>1, <2>1, <3>2
      <4>2. \A k : VlMax(Program[k])' = VlMax(Program[k])
        BY <1>1 DEF VlMax
      <4> QED
        BY <4>1, <4>2
    <3> QED
      BY <3>1, <3>2, <3>3, <3>4, <1>5 DEF ConfigInv, VlWithinMax
  <2>2. CASE i.op # "vsetvli"
    <3>1. config' = config
      BY <1>1, <2>2 DEF UpdateScalarState
    <3>2. \A k : VlMax(Program[k])' = VlMax(Program[k])
      BY <1>1 DEF VlMax
    <3> QED
      BY <1>1, <1>5, <3>1, <3>2 DEF ConfigInv, VlWithinMax
  <2> QED
    BY <2>1, <2>2
<1> QED
  BY <1>2, <1>3, <1>4, <1>6 DEF ValuesInv, Word

-----------------------------------------------------------------------------
(* The trace and the maps beside it.                                       *)

SequenceInv == \E S : trace \in Seq(S)

\* The last writers are those that looking back over the trace finds.
WritersInv == WriterMap(trace, lastReg, Register) /\ StoreMap(trace, lastStore)

EntriesInv ==
    /\ AllBackward(trace)
    /\ \A k \in 1..Len(trace) :
          /\ AccessIsShaped(trace[k].memory) /\ AwaitsStores(trace, k)
          /\ OnLastWriters(trace, k, {}) /\ trace[k].old \subseteq trace[k].dependsOn

ProgressInv == steps \in 0..MaxSteps /\ status \in {"running", "done", "error"}

BuilderInv ==
    /\ ProgramInv /\ ValuesInv /\ ConfigInv /\ SequenceInv /\ WritersInv /\ EntriesInv
    /\ ProgressInv

LEMMA MaxStepsType == ProgramInv => MaxSteps \in Nat
<1> SUFFICES ASSUME ProgramInv PROVE MaxSteps \in Nat
  OBVIOUS
<1>1. job.count \in Nat /\ StepBase \in Nat /\ StepFactor \in Nat
  BY WordAssumption, WordFacts DEF ProgramInv
<1> QED
  BY <1>1 DEF MaxSteps

LEMMA InitBuilder ==
    ASSUME Init
    PROVE  BuilderInv
<1>1. job \in Jobs /\ pc = 1
  BY DEF Init
<1>2. ProgramInv
  BY <1>1, ProgramAssumption DEF ProgramsAreParsed, ProgramInv, Program
<1>3. trace = <<>> /\ trace \in Seq({}) /\ Len(trace) = 0 /\ DOMAIN trace = {}
  BY DEF Init
<1>4. SequenceInv
  BY <1>3 DEF SequenceInv
<1>5. ValuesInv
  <2>1. /\ regs = [r \in ScalarRegister |-> regs[r]]
        /\ \A r \in ScalarRegister : regs[r] \in {InputBase, OutputBase, StackBase, job.count, 0}
    BY DEF Init
  <2>2. \A r \in ScalarRegister : regs[r] \in 0..(Word - 1)
    <3>1. {InputBase, OutputBase, StackBase} \subseteq 0..(Word - 1)
      BY WordAssumption
    <3>2. job.count \in 0..(Word - 1)
      BY <1>2 DEF ProgramInv
    <3>3. 0 \in 0..(Word - 1)
      BY WordFacts
    <3> QED
      BY <2>1, <3>1, <3>2, <3>3
  <2>3. DOMAIN constants = {} /\ IsFiniteSet({}) /\ DOMAIN stack = {}
    BY FS_EmptySet DEF Init
  <2> QED
    BY <2>1, <2>2, <2>3 DEF ValuesInv
<1>6. ConfigInv
  BY DEF Init, ConfigInv, VlWithinMax, NoVl
<1>7. WritersInv
  BY <1>3 DEF Init, WritersInv, WriterMap, StoreMap
<1>8. EntriesInv
  BY <1>3 DEF EntriesInv, AllBackward
<1>9. ProgressInv
  BY <1>2, MaxStepsType DEF Init, ProgressInv
<1> QED
  BY <1>2, <1>4, <1>5, <1>6, <1>7, <1>8, <1>9 DEF BuilderInv

LEMMA ExpandBuilder == BuilderInv /\ Expand => BuilderInv'
<1> SUFFICES ASSUME BuilderInv, Expand PROVE BuilderInv'
  OBVIOUS
<1> DEFINE i == Here
           a == AccessOf(Here)
           e == Record(Here, AccessOf(Here))
           n == Len(trace)
<1>1. /\ ProgramInv /\ ValuesInv /\ ConfigInv /\ SequenceInv /\ WritersInv /\ EntriesInv
      /\ ProgressInv /\ pc <= Len(Program) /\ ~Unsupported(i)
  BY DEF BuilderInv, Expand, Running
<1>2. /\ InstructionIsParsed(i, Len(Program)) /\ pc \in 1..Len(Program)
      /\ i.target \in 1..(Len(Program) + 1) /\ Len(Program) \in Nat
  BY <1>1, HereFacts
<1>3. Reads(i) \subseteq Register /\ Writes(i) \subseteq Register
  BY <1>1, <1>2, RolesType DEF ConfigInv, Unsupported
<1>4. PICK S : trace \in Seq(S)
  BY <1>1 DEF SequenceInv
<1>5. Grows(trace, trace', e) /\ trace' \in Seq(S \cup {e})
  <2>1. trace' = Append(trace, e)
    BY DEF Expand
  <2> HIDE DEF e
  <2> QED
    BY <1>4, <2>1, GrowsByAppend
<1>6. /\ n \in Nat /\ Len(trace') = n + 1 /\ DOMAIN trace' = 1..(n + 1)
      /\ trace'[n + 1] = e /\ \A k \in 1..n : trace'[k] = trace[k]
  BY <1>5 DEF Grows
<1>7. /\ e.reads = Reads(i) /\ e.writes = Writes(i) /\ e.memory = a
      /\ e.old = {lastReg[r] : r \in OldDestination(i)} \ {0}
      /\ e.dependsOn = ({lastReg[r] : r \in e.reads} \ {0}) \cup {}
            \cup (IF e.memory = NoAccess THEN {}
                  ELSE {lastStore[l] : l \in e.memory.lines \cap DOMAIN lastStore})
  BY DEF Record, MemoryDependencies
<1>8. ProgramInv'
  <2>1. job' = job /\ Program' = Program
    BY DEF Expand, Program
  <2>2. pc' = i.target \/ pc' = pc + 1
    BY DEF Expand
  <2> HIDE DEF i
  <2> QED
    BY <2>1, <2>2, <1>1, <1>2 DEF ProgramInv, Word
<1>9. SequenceInv'
  BY <1>5 DEF SequenceInv
<1>10. ValuesInv' /\ ConfigInv'
  BY <1>1, ExpandValues
<1>11. ProgressInv'
  <2>1. steps' = steps + 1 /\ steps < MaxSteps /\ MaxSteps' = MaxSteps
    BY DEF Expand, Running, MaxSteps
  <2>2. status' \in {"done", status}
    BY DEF Expand
  <2>3. MaxSteps \in Nat
    BY <1>1, MaxStepsType
  <2> QED
    BY <2>1, <2>2, <2>3, <1>1 DEF ProgressInv
<1>12. WritersInv'
  <2>1. /\ lastReg' = [r \in Register |-> IF r \in e.writes THEN n + 1 ELSE lastReg[r]]
        /\ lastStore' = StoresAfter(lastStore, e.memory, n + 1)
    BY <1>7 DEF Expand, WritersAfter
  <2> HIDE DEF e, i, a
  <2>2. WriterMap(trace', lastReg', Register)
    BY <1>1, <1>5, <2>1, WriterMapGrows DEF WritersInv
  <2>3. StoreMap(trace', lastStore')
    BY <1>1, <1>5, <2>1, StoreMapGrows DEF WritersInv
  <2> QED
    BY <2>2, <2>3 DEF WritersInv, Register
<1>13. EntriesInv'
  <2>1. AccessIsShaped(e.memory)
    BY <1>1, <1>2, <1>7, AccessShape
  <2>2. /\ OnLastWriters(trace', n + 1, {}) /\ AwaitsStores(trace', n + 1)
        /\ e.dependsOn \subseteq 1..n
    <3> DEFINE none == {}
    <3>1. none \subseteq 1..n
      OBVIOUS
    <3>2. /\ e.reads \subseteq Register
          /\ e.dependsOn = ({lastReg[r] : r \in e.reads} \ {0}) \cup none
                \cup (IF e.memory = NoAccess THEN {}
                      ELSE {lastStore[l] : l \in e.memory.lines \cap DOMAIN lastStore})
      BY <1>3, <1>7
    <3> HIDE DEF e, i, a, none
    <3>3. OnLastWriters(trace', n + 1, none) /\ AwaitsStores(trace', n + 1)
      BY <1>1, <1>5, <3>1, <3>2, NewEntryIsExact DEF WritersInv
    <3>4. e.dependsOn \subseteq 1..n
      BY <1>1, <1>5, <3>1, <3>2, NewEntryIsExact DEF WritersInv
    <3> QED
      BY <3>3, <3>4 DEF none
  <2>3. e.old \subseteq e.dependsOn
    BY <1>7 DEF OldDestination
  <2>4. AllBackward(trace) /\ AllBackward(trace')
    <3>1. AllBackward(trace)
      BY <1>1 DEF EntriesInv
    <3>2. ASSUME NEW k \in 1..(n + 1) PROVE trace'[k].dependsOn \subseteq 1..(k - 1)
      <4> HIDE DEF e
      <4>1. CASE k = n + 1
        BY <4>1, <2>2, <1>6
      <4>2. CASE k \in 1..n
        BY <4>2, <3>1, <1>5, <1>6 DEF AllBackward, Grows
      <4> QED
        BY <4>1, <4>2, <1>6
    <3> QED
      BY <3>1, <3>2, <1>6 DEF AllBackward
  <2>5. ASSUME NEW k \in 1..(n + 1)
        PROVE  /\ AccessIsShaped(trace'[k].memory) /\ AwaitsStores(trace', k)
               /\ OnLastWriters(trace', k, {}) /\ trace'[k].old \subseteq trace'[k].dependsOn
    <3> HIDE DEF e, i, a
    <3>1. CASE k = n + 1
      BY <3>1, <2>1, <2>2, <2>3, <1>6
    <3>2. CASE k \in 1..n
      <4>1. /\ AccessIsShaped(trace[k].memory) /\ AwaitsStores(trace, k)
            /\ OnLastWriters(trace, k, {}) /\ trace'[k] = trace[k]
            /\ trace[k].old \subseteq trace[k].dependsOn
        BY <3>2, <1>1, <1>6 DEF EntriesInv
      <4>2. AwaitsStores(trace', k) /\ OnLastWriters(trace', k, {})
        BY <3>2, <4>1, <2>4, <1>5, OldEntriesKeep
      <4> QED
        BY <4>1, <4>2
    <3> QED
      BY <3>1, <3>2, <1>6
  <2> HIDE DEF e, i, a
  <2> QED
    BY <2>4, <2>5, <1>6 DEF EntriesInv
<1> QED
  BY <1>8, <1>9, <1>10, <1>11, <1>12, <1>13 DEF BuilderInv

LEMMA StepBuilder == BuilderInv /\ [Next]_vars => BuilderInv'
<1> SUFFICES ASSUME BuilderInv, [Next]_vars PROVE BuilderInv'
  OBVIOUS
<1>1. CASE Expand
  BY <1>1, ExpandBuilder
<1>2. CASE /\ UNCHANGED <<job, pc, steps, machine, lastReg, lastStore, trace>>
           /\ status' \in {status, "error", "done"}
  BY <1>2 DEF BuilderInv, ProgramInv, ConfigInv, ValuesInv, SequenceInv, WritersInv, EntriesInv,
              ProgressInv, MaxSteps, machine, Program, VlMax, VlWithinMax, KeptUnderSameMax,
              Word, Register
<1> QED
  BY <1>1, <1>2 DEF Next, Raise, RunOffTheEnd, Stopped, vars

LEMMA BuilderHolds == Spec => []BuilderInv
<1>1. Init => BuilderInv
  BY InitBuilder
<1> QED
  BY <1>1, StepBuilder, PTL DEF Spec

LEMMA BuilderIsExact ==
    ASSUME BuilderInv
    PROVE  TraceExact
<1>1. /\ ProgramInv /\ ValuesInv /\ ConfigInv /\ SequenceInv /\ WritersInv /\ EntriesInv
      /\ ProgressInv
  BY DEF BuilderInv
<1>2. PICK S : trace \in Seq(S)
  BY <1>1 DEF SequenceInv
<1>3. Len(trace) \in Nat /\ DOMAIN trace = 1..Len(trace)
  BY <1>2
<1>4. TypeOK
  <2>1. lastReg \in [Register -> 0..Len(trace)]
    <3>1. /\ lastReg = [r \in Register |-> lastReg[r]]
          /\ \A r \in Register : lastReg[r] \in 0..Len(trace)
      BY <1>1 DEF WritersInv, WriterMap
    <3> QED
      BY <3>1
  <2>2. \A l \in DOMAIN lastStore : lastStore[l] \in 1..Len(trace)
    BY <1>1 DEF WritersInv, StoreMap
  <2> QED
    BY <1>1, <2>1, <2>2 DEF TypeOK, ProgramInv, ConfigInv, ValuesInv, ProgressInv
<1>5. StoresOrdered
  BY <1>1, <1>3, StoresAreFollowed, WordAssumption DEF EntriesInv, StoresOrdered
<1>6. DependsOnLastWriters /\ OldDestinationsAreDependencies
  BY <1>1, <1>3 DEF EntriesInv, DependsOnLastWriters, OldDestinationsAreDependencies
<1> QED
  BY <1>1, <1>4, <1>5, <1>6 DEF TraceExact, ConfigInv

\* For every RVV program the trace of build_dynamic_trace is exact: an entry waits
\* for the last writers of every register of the groups it reads, which are those
\* in force when each of them was recorded, for the last vsetvli, and for every
\* earlier store to any of its bytes, which are as many as VL says.
THEOREM TraceIsExact == Spec => []TraceExact
BY BuilderHolds, BuilderIsExact, PTL

\* The two maps that build_dynamic_trace keeps hold, for every register and every
\* line, the latest entry that wrote it.
THEOREM WritersAreLatest == Spec => []WritersInv
<1>1. BuilderInv => WritersInv
  BY DEF BuilderInv
<1> QED
  BY <1>1, BuilderHolds, PTL
=============================================================================
