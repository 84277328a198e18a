----------------------------- MODULE X86Proofs -----------------------------
(***************************************************************************)
(* Theorems about X86FrontEnd, for every program, word width, line size    *)
(* and element count: the trace that build_dynamic_trace records is exact, *)
(* and its interpreter computes with machine words.                        *)
(***************************************************************************)
EXTENDS X86FrontEnd, DynamicTraceProofs

-----------------------------------------------------------------------------
(* Powers of two and words. *)

LEMMA Powers ==
    \A n \in 0..W : 2^n \in Nat \ {0} /\ 2^n <= Word
<1>1. W \in Nat \ {0} /\ 2^0 = 1 /\ \A n \in 1..W : 2^n \in Nat /\ 2^n = 2 * 2^(n - 1)
  BY WordAssumption, PowersAssumption
<1> DEFINE P == {n \in Nat : n \in 0..W => 2^n \in Nat \ {0}}
<1>2. Nat \subseteq P
  <2>1. 0 \in P
    BY <1>1
  <2>2. ASSUME NEW n \in Nat, n \in P PROVE n + 1 \in P
    <3> SUFFICES ASSUME n + 1 \in 0..W PROVE 2^(n + 1) \in Nat \ {0}
      OBVIOUS
    <3>1. n + 1 \in 1..W /\ n \in 0..W /\ (n + 1) - 1 = n
      BY <1>1
    <3>2. 2^(n + 1) \in Nat /\ 2^(n + 1) = 2 * 2^n
      BY <1>1, <3>1
    <3>3. 2^n \in Nat \ {0}
      BY <2>2, <3>1
    <3> QED
      BY <3>2, <3>3
  <2> HIDE DEF P
  <2> QED
    BY <2>1, <2>2, SetInduction
<1>3. \A n \in 0..W : 2^n \in Nat \ {0}
  BY <1>2
\* Down from W: every power is at most the one above it.
<1> DEFINE Q == {n \in Nat : n \in 0..W => 2^(W - n) <= Word}
<1>4. Nat \subseteq Q
  <2>1. 0 \in Q
    BY <1>1, <1>3 DEF Word
  <2>2. ASSUME NEW n \in Nat, n \in Q PROVE n + 1 \in Q
    <3> SUFFICES ASSUME n + 1 \in 0..W PROVE 2^(W - (n + 1)) <= Word
      OBVIOUS
    <3>1. /\ n \in 0..W /\ W - n \in 1..W /\ (W - n) - 1 = W - (n + 1)
          /\ W - (n + 1) \in 0..W /\ W - n \in 0..W /\ W \in 0..W
      BY <1>1
    <3>2. 2^(W - n) = 2 * 2^(W - (n + 1))
      BY <1>1, <3>1
    <3>3. 2^(W - n) <= Word
      BY <2>2, <3>1
    <3>4. 2^(W - (n + 1)) \in Nat /\ 2^(W - n) \in Nat /\ Word \in Nat
      BY <1>3, <3>1 DEF Word
    <3> QED
      BY <3>2, <3>3, <3>4
  <2> HIDE DEF Q
  <2> QED
    BY <2>1, <2>2, SetInduction
<1>5. ASSUME NEW n \in 0..W PROVE 2^n <= Word
  <2>1. W - n \in Nat /\ W - n \in 0..W /\ W - (W - n) = n
    BY <1>1
  <2>2. W - n \in Q
    BY <1>4, <2>1
  <2> QED
    BY <2>1, <2>2
<1> QED
  BY <1>3, <1>5

\* Half is the value of the sign bit.
Half == 2^(W - 1)

LEMMA WordFacts ==
    /\ Word \in Nat \ {0} /\ Half \in Nat \ {0} /\ Word = 2 * Half
    /\ 2^H \in Nat \ {0} /\ 2^H <= Word /\ 2^(H - 1) \in Nat \ {0} /\ 2^B \in Nat \ {0}
<1>1. /\ W \in Nat \ {0} /\ H \in 1..W /\ B \in 1..H
      /\ W \in 1..W /\ W \in 0..W /\ W - 1 \in 0..W
      /\ H \in 0..W /\ H - 1 \in 0..W /\ B \in 0..W
  BY WordAssumption
<1>2. Word = 2 * Half
  BY <1>1, PowersAssumption DEF Word, Half
<1> QED
  BY <1>1, <1>2, Powers DEF Word, Half

LEMMA WordRemainder ==
    ASSUME NEW x \in Int, NEW n \in Nat \ {0}
    PROVE  x % n \in 0..(n - 1) /\ x \div n \in Int /\ x = n * (x \div n) + (x % n)
OBVIOUS

\* The sign bit is set in the upper half of the words.
LEMMA SignIsUpperHalf ==
    ASSUME NEW x \in Int
    PROVE  Sign(x) <=> x % Word >= Half
<1>1. Word \in Nat \ {0} /\ Half \in Nat \ {0} /\ Word = 2 * Half
  BY WordFacts
<1>2. PICK y : y = x % Word
  OBVIOUS
<1>3. y \in 0..(Word - 1) /\ Half \in Int
  BY <1>1, <1>2
<1>4. y \in Int /\ 0 <= y /\ y < 2 * Half
  BY <1>1, <1>3
<1>5. y \div Half = IF y >= Half THEN 1 ELSE 0
  BY <1>1, <1>4
<1>6. Sign(x) <=> (y \div Half) % 2 = 1
  BY <1>2 DEF Sign, Bit, Half
<1> QED
  BY <1>2, <1>5, <1>6, <1>1, <1>4

-----------------------------------------------------------------------------
(* FromBits is a fold over the bits: a recursive function on the subsets.   *)

Picked(s) == CHOOSE k \in s : TRUE
Weight(k) == 2^k
BitSumStep(sum, s) == IF s = {} THEN 0 ELSE Weight(Picked(s)) + sum[s \ {Picked(s)}]
IsBitSum(S, sum) == sum = [s \in SUBSET S |-> BitSumStep(sum, s)]

LEMMA FromBitsIsSum ==
    ASSUME NEW S
    PROVE  FromBits(S) = (CHOOSE sum : IsBitSum(S, sum))[S]
BY Zenon DEF FromBits, MapThenSumSet, MapThenFoldSet, IsBitSum, BitSumStep, Weight, Picked

LEMMA PickedFacts ==
    ASSUME NEW S, IsFiniteSet(S), NEW s \in SUBSET S
    PROVE  /\ Cardinality(s) \in Nat /\ (Cardinality(s) = 0 <=> s = {})
           /\ s # {} => /\ Picked(s) \in s /\ s \ {Picked(s)} \in SUBSET S
                        /\ Cardinality(s \ {Picked(s)}) = Cardinality(s) - 1
<1>1. IsFiniteSet(s)
  BY FS_Subset
<1>2. Cardinality(s) \in Nat /\ (Cardinality(s) = 0 <=> s = {})
  BY <1>1, FS_CardinalityType, FS_EmptySet
<1>3. s # {} => Picked(s) \in s
  BY DEF Picked
<1>4. \A x \in s : Cardinality(s \ {x}) = Cardinality(s) - 1
  BY <1>1, FS_RemoveElement
<1> QED
  BY <1>2, <1>3, <1>4

\* The recursion has a solution.
LEMMA BitSumExists ==
    ASSUME NEW S, IsFiniteSet(S)
    PROVE  \E sum : IsBitSum(S, sum)
<1> DEFINE Upto(n) == {s \in SUBSET S : Cardinality(s) <= n}
           Solves(n, g) == g = [s \in Upto(n) |-> BitSumStep(g, s)]
           N == {n \in Nat : \E g : Solves(n, g)}
<1>1. 0 \in N
  <2> DEFINE g == [s \in Upto(0) |-> 0]
  <2>1. \A s \in Upto(0) : s = {}
    <3> SUFFICES ASSUME NEW s \in SUBSET S, Cardinality(s) <= 0 PROVE s = {}
      OBVIOUS
    <3>1. Cardinality(s) \in Nat /\ (Cardinality(s) = 0 <=> s = {})
      BY PickedFacts
    <3> QED
      BY <3>1
  <2>2. Solves(0, g)
    <3> HIDE DEF Upto
    <3> QED
      BY <2>1 DEF BitSumStep
  <2> QED
    BY <2>2
<1>2. ASSUME NEW n \in Nat, n \in N PROVE n + 1 \in N
  <2>1. PICK g : Solves(n, g)
    BY <1>2
  <2> DEFINE h == [s \in Upto(n + 1) |-> BitSumStep(g, s)]
  <2>2. \A s \in Upto(n + 1) : s # {} => s \ {Picked(s)} \in Upto(n)
    <3> SUFFICES ASSUME NEW s \in SUBSET S, Cardinality(s) <= n + 1, s # {}
                 PROVE  s \ {Picked(s)} \in Upto(n)
      OBVIOUS
    <3>1. /\ Cardinality(s) \in Nat /\ s \ {Picked(s)} \in SUBSET S
          /\ Cardinality(s \ {Picked(s)}) = Cardinality(s) - 1
      BY PickedFacts
    <3> QED
      BY <3>1
  <2>3. \A s \in Upto(n) : s \in Upto(n + 1)
    <3> SUFFICES ASSUME NEW s \in SUBSET S, Cardinality(s) <= n PROVE Cardinality(s) <= n + 1
      OBVIOUS
    <3>1. Cardinality(s) \in Nat
      BY PickedFacts
    <3> QED
      BY <3>1
  <2> HIDE DEF Upto
  <2>4. \A s \in Upto(n) : h[s] = g[s]
    BY <2>1, <2>3
  <2>5. \A s \in Upto(n + 1) : BitSumStep(g, s) = BitSumStep(h, s)
    <3> HIDE DEF h
    <3> QED
      BY <2>2, <2>4 DEF BitSumStep
  <2>6. Solves(n + 1, h)
    BY <2>5
  <2> HIDE DEF Solves, h
  <2> QED
    BY <2>6
<1>3. Cardinality(S) \in Nat /\ Upto(Cardinality(S)) = SUBSET S
  <2>1. \A s \in SUBSET S : Cardinality(s) <= Cardinality(S)
    BY FS_Subset
  <2>2. Cardinality(S) \in Nat
    BY FS_CardinalityType
  <2> QED
    BY <2>1, <2>2
<1>4. Cardinality(S) \in N
  <2> HIDE DEF N
  <2> QED
    BY <1>1, <1>2, <1>3, SetInduction
<1>5. PICK g : Solves(Cardinality(S), g)
  BY <1>4
<1>6. IsBitSum(S, g)
  <2> HIDE DEF Upto
  <2> QED
    BY <1>3, <1>5 DEF IsBitSum
<1> QED
  BY <1>6

\* The bits of a word give a number, whichever they are.
LEMMA FromBitsType ==
    ASSUME NEW S, S \subseteq 0..(W - 1)
    PROVE  FromBits(S) \in Int
<1>1. IsFiniteSet(S) /\ \A k \in S : Weight(k) \in Int
  <2>1. W \in Nat \ {0}
    BY WordAssumption
  <2>2. IsFiniteSet(0..(W - 1))
    BY <2>1, FS_Interval
  <2>3. 0..(W - 1) \subseteq 0..W
    BY <2>1
  <2>4. ASSUME NEW k \in S PROVE Weight(k) \in Int
    <3>1. k \in 0..W
      BY <2>3
    <3> QED
      BY <3>1, Powers DEF Weight
  <2>5. IsFiniteSet(S)
    BY <2>2, FS_Subset
  <2> QED
    BY <2>4, <2>5
<1> DEFINE sum == CHOOSE f : IsBitSum(S, f)
<1>2. IsBitSum(S, sum)
  BY <1>1, BitSumExists
<1>3. FromBits(S) = sum[S]
  BY FromBitsIsSum
<1> HIDE DEF sum
<1> DEFINE M == {n \in Nat : \A s \in SUBSET S : Cardinality(s) <= n => sum[s] \in Int}
<1>4. \A s \in SUBSET S : sum[s] = BitSumStep(sum, s)
  BY <1>2 DEF IsBitSum
<1>5. sum[{}] = 0
  BY <1>4 DEF BitSumStep
<1>6. 0 \in M
  <2> SUFFICES ASSUME NEW s \in SUBSET S, Cardinality(s) <= 0 PROVE sum[s] \in Int
    BY Zenon
  <2>1. Cardinality(s) \in Nat /\ (Cardinality(s) = 0 <=> s = {})
    BY <1>1, PickedFacts
  <2>2. s = {}
    BY <2>1
  <2>3. sum[s] = 0
    BY <2>2, <1>5, Zenon
  <2> QED
    BY <2>3
<1>7. ASSUME NEW n \in Nat, n \in M PROVE n + 1 \in M
  <2> SUFFICES ASSUME NEW s \in SUBSET S, Cardinality(s) <= n + 1 PROVE sum[s] \in Int
    <3>1. n + 1 \in Nat
      OBVIOUS
    <3> QED
      BY <3>1, Zenon
  <2> SUFFICES ASSUME s # {} PROVE sum[s] \in Int
    <3>1. 0 \in Int
      OBVIOUS
    <3> QED
      BY <3>1, <1>5, Zenon
  <2>1. /\ Cardinality(s) \in Nat /\ Picked(s) \in s /\ s \ {Picked(s)} \in SUBSET S
        /\ Cardinality(s \ {Picked(s)}) = Cardinality(s) - 1
    BY <1>1, PickedFacts
  <2>2. sum[s \ {Picked(s)}] \in Int
    BY <1>7, <2>1
  <2>3. sum[s] = Weight(Picked(s)) + sum[s \ {Picked(s)}]
    BY <1>4 DEF BitSumStep
  <2>4. Weight(Picked(s)) \in Int
    BY <1>1, <2>1
  <2> QED
    BY <2>2, <2>3, <2>4
<1>8. Cardinality(S) \in Nat /\ S \in SUBSET S
  BY <1>1, FS_CardinalityType
<1>9. Cardinality(S) \in M
  <2> HIDE DEF M
  <2> QED
    BY <1>6, <1>7, <1>8, SetInduction
<1>10. sum[S] \in Int
  BY <1>8, <1>9
<1> QED
  BY <1>3, <1>10

LEMMA BitwiseType ==
    ASSUME NEW x, NEW y
    PROVE  And(x, y) \in Int /\ Or(x, y) \in Int /\ Xor(x, y) \in Int
<1>1. Bits(x) \subseteq 0..(W - 1) /\ Bits(y) \subseteq 0..(W - 1)
  BY Zenon DEF Bits
<1>2. /\ Bits(x) \cap Bits(y) \subseteq 0..(W - 1) /\ Bits(x) \cup Bits(y) \subseteq 0..(W - 1)
      /\ (Bits(x) \ Bits(y)) \cup (Bits(y) \ Bits(x)) \subseteq 0..(W - 1)
  BY <1>1
<1> QED
  BY <1>2, FromBitsType DEF And, Or, Xor

LEMMA XorOfItself ==
    ASSUME NEW x, NEW y
    PROVE  Xor(x, x) = Xor(y, y)
<1>1. (Bits(x) \ Bits(x)) \cup (Bits(x) \ Bits(x)) = (Bits(y) \ Bits(y)) \cup (Bits(y) \ Bits(y))
  OBVIOUS
<1> QED
  BY <1>1 DEF Xor

-----------------------------------------------------------------------------
(* What is interpreted: parsed instructions on typed registers.            *)

ProgramInv ==
    /\ Len(program) \in Nat /\ count \in Nat /\ pc \in 1..(Len(program) + 1)
    /\ \A k \in 1..Len(program) : InstructionIsParsed(program[k], Len(program))

FlagsType == [zf : BOOLEAN, cf : BOOLEAN, sf : BOOLEAN, of : BOOLEAN]

ValuesInv ==
    /\ DOMAIN regs \subseteq Register /\ \A r \in DOMAIN regs : regs[r] \in Int
    /\ flags \in FlagsType
    /\ IsFiniteSet(DOMAIN constants) /\ \A l \in DOMAIN constants : constants[l] \in Int

LEMMA HereFacts ==
    ASSUME ProgramInv, pc <= Len(program)
    PROVE  /\ InstructionIsParsed(Here, Len(program)) /\ pc \in 1..Len(program)
           /\ Here.target \in 1..Len(program) /\ Len(program) \in Nat
           /\ Reads(Here) \subseteq Register /\ Writes(Here) \subseteq Register
<1>1. Len(program) \in Nat /\ pc \in 1..Len(program)
  BY DEF ProgramInv
<1>2. InstructionIsParsed(Here, Len(program))
  BY <1>1 DEF Here, ProgramInv
<1>3. Here.target \in 1..Len(program)
  BY <1>2 DEF InstructionIsParsed
<1>4. RegistersOf(Here.src) \subseteq Register /\ RegistersOf(Here.dst) \subseteq Register
  BY <1>2 DEF InstructionIsParsed, OperandIsParsed, RegistersOf, NoOperand, None
<1>5. RegistersInMemory(Here.mem) \subseteq Register
  BY DEF RegistersInMemory
<1>6. Reads(Here) \subseteq Register
  BY <1>4, <1>5, Zenon DEF Reads
<1>7. Writes(Here) \subseteq Register
  BY <1>4 DEF Writes
<1> QED
  BY <1>1, <1>2, <1>3, <1>6, <1>7

\* What ~Undefined promises of the operands.
LEMMA ValueType ==
    ASSUME ValuesInv, NEW o, OperandIsParsed(o), o # NoOperand,
           RegistersOf(o) \subseteq DOMAIN regs
    PROVE  Value(o, regs) \in Int
BY DEF ValuesInv, OperandIsParsed, RegistersOf, Value

LEMMA LabelsType ==
    ASSUME ValuesInv, NEW mem
    PROVE  /\ IsFiniteSet(DOMAIN WithLabel(mem))
           /\ \A l \in DOMAIN WithLabel(mem) : WithLabel(mem)[l] \in Int
           /\ mem # NoMemory /\ mem.label # None => mem.label \in DOMAIN WithLabel(mem)
<1>1. /\ IsFiniteSet(DOMAIN constants) /\ \A l \in DOMAIN constants : constants[l] \in Int
      /\ ConstantBase \in Nat /\ Cardinality(DOMAIN constants) \in Nat
  BY FS_CardinalityType, WordAssumption DEF ValuesInv
<1>2. CASE mem = NoMemory \/ mem.label = None \/ mem.label \in DOMAIN constants
  <2>1. WithLabel(mem) = constants
    BY <1>2 DEF WithLabel
  <2> QED
    BY <2>1, <1>1, <1>2
<1>3. CASE ~(mem = NoMemory \/ mem.label = None \/ mem.label \in DOMAIN constants)
  <2>1. WithLabel(mem) = [l \in DOMAIN constants \cup {mem.label} |->
            IF l \in DOMAIN constants THEN constants[l]
            ELSE ConstantBase + 4 * Cardinality(DOMAIN constants)]
    BY <1>3 DEF WithLabel
  <2>2. IsFiniteSet(DOMAIN constants \cup {mem.label})
    BY <1>1, FS_AddElement
  <2>3. ConstantBase + 4 * Cardinality(DOMAIN constants) \in Int
    BY <1>1
  <2> HIDE <1>1
  <2> QED
    BY <2>1, <2>2, <2>3, <1>1
<1> QED
  BY <1>2, <1>3

LEMMA AddressType ==
    ASSUME ValuesInv, NEW mem, MemoryIsParsed(mem), mem # NoMemory,
           RegistersInMemory(mem) \subseteq DOMAIN regs
    PROVE  Address(mem, regs) \in Int
<1>1. mem.label # None => WithLabel(mem)[mem.label] \in Int
  BY LabelsType
<1>2. mem.disp \in Int /\ mem.scale \in Int
  BY DEF MemoryIsParsed
<1>3. /\ mem.base \in Register => regs[mem.base] \in Int
      /\ mem.index \in Register => regs[mem.index] \in Int
  BY DEF RegistersInMemory, ValuesInv
<1> DEFINE a == IF mem.label = None THEN mem.disp ELSE WithLabel(mem)[mem.label]
           b == IF mem.base \in Register THEN regs[mem.base] ELSE 0
           c == IF mem.index \in Register THEN regs[mem.index] * mem.scale ELSE 0
<1>4. a \in Int /\ b \in Int
  BY <1>1, <1>2, <1>3
<1>5. c \in Int
  BY <1>2, <1>3
<1>6. Address(mem, regs) = a + b + c
  BY DEF Address
<1> HIDE DEF a, b, c
<1> QED
  BY <1>4, <1>5, <1>6

LEMMA WrittenType ==
    ASSUME NEW o, NEW x \in Int
    PROVE  /\ Written(o, x) \in 0..(IF o.low THEN 2^H - 1 ELSE Word - 1)
           /\ Written(o, x) \in Int
<1>1. Word \in Nat \ {0} /\ 2^H \in Nat \ {0}
  BY WordFacts
<1>2. CASE o.low
  <2>1. PICK h \in Nat \ {0} : h = 2^H
    BY <1>1
  <2>2. x % h \in 0..(h - 1) /\ h - 1 \in Int
    BY WordRemainder
  <2> QED
    BY <1>2, <2>1, <2>2 DEF Written
<1>3. CASE ~o.low
  <2>1. x % Word \in 0..(Word - 1) /\ Word - 1 \in Int
    BY <1>1, WordRemainder
  <2> QED
    BY <1>3, <2>1 DEF Written
<1> QED
  BY <1>2, <1>3

LEMMA ShiftedType ==
    ASSUME NEW i, NEW rg, i.op \in Shift, Value(i.src, rg) \in Int, Value(i.dst, rg) \in Int
    PROVE  Shifted(i, rg) \in Int
<1>1. W \in Nat \ {0} /\ Word \in Nat \ {0}
  BY WordAssumption, WordFacts
<1>2. ShiftCount(i, rg) \in 0..W
  BY <1>1 DEF ShiftCount
<1> DEFINE by == 2^ShiftCount(i, rg)
           old == Value(i.dst, rg) % Word
<1>3. by \in Nat \ {0} /\ old \in Int
  BY <1>1, <1>2, Powers
<1>4. Signed(old) \in Int
  <2>1. old % Word \in Int
    BY <1>1, <1>3, WordRemainder
  <2> QED
    BY <1>1, <2>1 DEF Signed
<1>5. Shifted(i, rg) = CASE i.op = "shlq" -> old * by
                         [] i.op = "shrq" -> old \div by
                         [] i.op = "sarq" -> Signed(old) \div by
  BY DEF Shifted
<1>6. old * by \in Int /\ old \div by \in Int /\ Signed(old) \div by \in Int
  <2> HIDE DEF old, by
  <2> QED
    BY <1>3, <1>4, WordRemainder
<1> HIDE DEF old, by
<1> QED
  BY <1>5, <1>6 DEF Shift

\* What the interpreter stores is a number; but for an address and a value that
\* is not changed it is a word, or a half if it is stored through a low half.
LEMMA ResultFacts ==
    ASSUME ValuesInv, NEW i, NEW length, InstructionIsParsed(i, length), ~Undefined(i),
           UpdatesRegister(i)
    PROVE  /\ Result(i, regs) \in Int
           /\ \/ Result(i, regs) \in 0..(IF i.dst.low THEN 2^H - 1 ELSE Word - 1)
              \/ i.op = "leaq"
              \/ i.dst.reg \in DOMAIN regs /\ Result(i, regs) = regs[i.dst.reg]
<1> DEFINE s == Value(i.src, regs)
           d == Value(i.dst, regs)
           range == 0..(IF i.dst.low THEN 2^H - 1 ELSE Word - 1)
<1>1. /\ Word \in Nat \ {0} /\ 2^H \in Nat \ {0} /\ 2^H <= Word /\ 2^(H - 1) \in Nat \ {0}
      /\ 2^B \in Nat \ {0} /\ W \in Nat \ {0}
  BY WordFacts, WordAssumption
<1>2. /\ OperandIsParsed(i.src) /\ OperandIsParsed(i.dst) /\ MemoryIsParsed(i.mem)
      /\ i.dst.kind = "reg" /\ i.dst # NoOperand
      /\ i.op \in WholeWord => ~i.dst.low
      /\ i.op = "leaq" => i.mem # NoMemory
  BY DEF InstructionIsParsed, UpdatesRegister, NoOperand, None
<1>3. i.op \in Move \cup TwoOperand => s \in Int
  <2> SUFFICES ASSUME i.op \in Move \cup TwoOperand PROVE s \in Int
    OBVIOUS
  <2>1. i.src \in Operands(i)
    <3>1. CASE i.op \in Move
      BY <3>1 DEF Operands, Move, Compare, TwoOperand, OneOperand, Logic, Shift
    <3>2. CASE i.op \in TwoOperand
      <4>1. OnRegister(i) /\ i.op \notin Move
        BY <3>2, <1>2 DEF OnRegister, Move, TwoOperand, Logic, Shift
      <4> QED
        BY <4>1, <3>2 DEF Operands, Move, Compare, TwoOperand, OneOperand, Logic, Shift
    <3> QED
      BY <3>1, <3>2
  <2> QED
    BY <1>2, <2>1, ValueType DEF Undefined
<1>4. i.op \in TwoOperand \cup OneOperand =>
        d \in Int /\ i.dst.reg \in DOMAIN regs /\ d = regs[i.dst.reg]
  <2> SUFFICES ASSUME i.op \in TwoOperand \cup OneOperand
               PROVE  d \in Int /\ i.dst.reg \in DOMAIN regs /\ d = regs[i.dst.reg]
    OBVIOUS
  <2>1. OnRegister(i) /\ i.op \notin Move /\ i.op \notin Compare
    BY <1>2 DEF OnRegister, Move, TwoOperand, OneOperand, Logic, Shift, Compare
  <2>2. i.dst \in Operands(i)
    BY <2>1 DEF Operands
  <2>3. RegistersOf(i.dst) \subseteq DOMAIN regs
    BY <2>2 DEF Undefined
  <2> QED
    BY <1>2, <2>3, ValueType DEF RegistersOf, Value
<1>5. \A x \in Int : /\ Written(i.dst, x) \in range /\ Written(i.dst, x) \in Int
                     /\ x % Word \in 0..(Word - 1) /\ x % Word \in Int
  <2> TAKE x \in Int
  <2>1. Written(i.dst, x) \in range /\ Written(i.dst, x) \in Int
    BY WrittenType
  <2> QED
    BY <1>1, <2>1, WordRemainder
<1>6. ~i.dst.low => range = 0..(Word - 1)
  OBVIOUS
<1> HIDE DEF s, d, range
<1>7. CASE i.op \in {"movl", "movq"}
  <2>1. Result(i, regs) = Written(i.dst, s)
    BY <1>7 DEF Shift, Result, s
  <2> QED
    BY <1>3, <1>5, <1>7, <2>1 DEF Move, range
<1>8. CASE i.op = "movslq"
  <2>1. Result(i, regs) = IF s % 2^H >= 2^(H - 1) THEN ((s % 2^H) - 2^H) % Word ELSE s % 2^H
    BY <1>8 DEF Shift, Result, s
  <2>2. PICK h \in Nat \ {0} : h = 2^H
    BY <1>1
  <2>3. s \in Int /\ s % h \in 0..(h - 1) /\ h <= Word
    BY <1>1, <1>3, <1>8, <2>2, WordRemainder DEF Move
  <2>4. ((s % h) - h) % Word \in 0..(Word - 1) /\ s % h \in 0..(Word - 1)
    BY <1>1, <2>3
  <2>5. Result(i, regs) \in 0..(Word - 1) /\ Word \in Int
    BY <1>1, <2>1, <2>2, <2>4
  <2> QED
    BY <1>2, <1>6, <1>8, <2>5 DEF WholeWord, range
<1>9. CASE i.op = "movzbl"
  <2>1. Result(i, regs) = Written(i.dst, s % 2^B)
    BY <1>9 DEF Shift, Result, s
  <2>2. PICK b \in Nat \ {0} : b = 2^B
    BY <1>1
  <2>3. s % b \in Int
    BY <1>3, <1>9, WordRemainder DEF Move
  <2> QED
    BY <1>5, <2>1, <2>2, <2>3 DEF range
<1>10. CASE i.op \in {"addq", "subq", "incq", "decq", "negq", "notq"}
  <2>1. \E x \in Int : Result(i, regs) = x % Word
    <3>1. CASE i.op = "addq"
      BY <3>1, <1>3, <1>4 DEF Shift, Result, s, d, TwoOperand
    <3>2. CASE i.op = "subq"
      BY <3>2, <1>3, <1>4 DEF Shift, Result, s, d, TwoOperand
    <3>3. CASE i.op = "incq"
      BY <3>3, <1>4 DEF Shift, Result, d, OneOperand
    <3>4. CASE i.op = "decq"
      BY <3>4, <1>4 DEF Shift, Result, d, OneOperand
    <3>5. CASE i.op = "negq"
      BY <3>5, <1>4 DEF Shift, Result, d, OneOperand
    <3>6. CASE i.op = "notq"
      BY <3>6, <1>4 DEF Shift, Result, d, OneOperand
    <3> QED
      BY <1>10, <3>1, <3>2, <3>3, <3>4, <3>5, <3>6
  <2>2. Result(i, regs) \in 0..(Word - 1) /\ Result(i, regs) \in Int
    BY <1>5, <2>1
  <2> QED
    BY <1>2, <1>6, <1>10, <2>2 DEF WholeWord, TwoOperand, OneOperand, range
<1>11. CASE i.op \in Logic
  <2>1. \E x \in Int : Result(i, regs) = Written(i.dst, x)
    <3>1. And(d, s) \in Int /\ Or(d, s) \in Int /\ Xor(d, s) \in Int
      BY BitwiseType
    <3>2. CASE i.op = "andq"
      BY <3>1, <3>2 DEF Shift, Result, s, d
    <3>3. CASE i.op = "orq"
      BY <3>1, <3>3 DEF Shift, Result, s, d
    <3>4. CASE i.op \in {"xorl", "xorq"}
      BY <3>1, <3>4 DEF Shift, Result, s, d
    <3> QED
      BY <1>11, <3>2, <3>3, <3>4 DEF Logic
  <2> QED
    BY <1>5, <2>1 DEF range
<1>12. CASE i.op \in Shift
  <2>1. Result(i, regs) = IF ShiftCount(i, regs) = 0 THEN d ELSE Shifted(i, regs) % Word
    BY <1>12 DEF Shift, Result, d
  <2>2. s \in Int /\ d \in Int /\ i.dst.reg \in DOMAIN regs /\ d = regs[i.dst.reg]
    BY <1>3, <1>4, <1>12 DEF TwoOperand
  <2>3. Shifted(i, regs) \in Int
    BY <1>12, <2>2, ShiftedType DEF s, d
  <2>4. ~i.dst.low
    BY <1>2, <1>12 DEF WholeWord, TwoOperand, Shift
  <2> QED
    BY <1>5, <1>6, <2>1, <2>2, <2>3, <2>4 DEF range
<1>13. CASE i.op = "leaq"
  <2>1. Result(i, regs) = Address(i.mem, regs)
    BY <1>13 DEF Shift, Result
  <2> QED
    BY <1>2, <1>13, <2>1, AddressType DEF Undefined
<1> QED
  BY <1>7, <1>8, <1>9, <1>10, <1>11, <1>12, <1>13
     DEF UpdatesRegister, Move, TwoOperand, OneOperand

LEMMA FlagsAfterType ==
    ASSUME NEW i, NEW rg, NEW fl \in FlagsType
    PROVE  FlagsAfter(i, rg, fl) \in FlagsType
<1>1. ASSUME NEW x, NEW cf \in BOOLEAN, NEW of \in BOOLEAN PROVE FlagsOf(x, cf, of) \in FlagsType
  BY DEF FlagsOf, FlagsType, Sign
<1>2. fl.cf \in BOOLEAN
  BY DEF FlagsType
<1>3. /\ AddFlags(i, rg) \in FlagsType /\ SubtractFlags(i, rg) \in FlagsType
  <2>1. \A x, y : (x < y) \in BOOLEAN /\ (x >= y) \in BOOLEAN
    OBVIOUS
  <2> QED
    BY <1>1, <2>1 DEF AddFlags, SubtractFlags, Sign
<1>4. ShiftCarry(i, rg) \in BOOLEAN
  BY DEF ShiftCarry
<1> QED
  BY <1>1, <1>2, <1>3, <1>4 DEF FlagsAfter

-----------------------------------------------------------------------------
(* What an instruction does depends on the registers it is said to read.   *)

\* The immediate forms of the exclusive or are taken for a zeroing idiom, which
\* reads nothing (MCX86Immediate shows what comes of it); the repository's kernels
\* have none.
XorNamesRegisters(i) == i.op \in {"xorl", "xorq"} => i.src.kind # "imm"

LEMMA AddressFromReads ==
    ASSUME NEW i, NEW rg, \A r \in Reads(i) : rg[r] = regs[r], i.mem # NoMemory
    PROVE  Address(i.mem, rg) = Address(i.mem, regs)
<1>1. RegistersInMemory(i.mem) \subseteq Reads(i)
  BY DEF Reads
<1>2. /\ i.mem.base \in Register => rg[i.mem.base] = regs[i.mem.base]
      /\ i.mem.index \in Register => rg[i.mem.index] = regs[i.mem.index]
  BY <1>1 DEF RegistersInMemory
<1>3. /\ (IF i.mem.base \in Register THEN rg[i.mem.base] ELSE 0)
            = (IF i.mem.base \in Register THEN regs[i.mem.base] ELSE 0)
      /\ (IF i.mem.index \in Register THEN rg[i.mem.index] * i.mem.scale ELSE 0)
            = (IF i.mem.index \in Register THEN regs[i.mem.index] * i.mem.scale ELSE 0)
  BY <1>2
<1> QED
  BY <1>3, Zenon DEF Address

\* The operands of an operation, unless it is a zeroing idiom.
LEMMA ValuesFromReads ==
    ASSUME NEW i, NEW length, InstructionIsParsed(i, length), ~Undefined(i),
           NEW rg, \A r \in Reads(i) : rg[r] = regs[r], ~ZeroIdiom(i)
    PROVE  /\ i.op \in Move \cup Compare \/ (i.op \in TwoOperand /\ OnRegister(i))
                => Value(i.src, rg) = Value(i.src, regs)
           /\ i.op \in Compare \/ (i.op \in TwoOperand \cup OneOperand /\ OnRegister(i))
                => Value(i.dst, rg) = Value(i.dst, regs)
<1>1. ASSUME NEW o, o \in Operands(i), o \in {i.src, i.dst}, RegistersOf(o) \subseteq Reads(i)
      PROVE  Value(o, rg) = Value(o, regs)
  <2>1. OperandIsParsed(o) /\ o # NoOperand
    BY <1>1 DEF InstructionIsParsed, Undefined
  <2> QED
    BY <1>1, <2>1 DEF OperandIsParsed, RegistersOf, Value
<1>2. ASSUME i.op \in Move \cup Compare \cup TwoOperand PROVE RegistersOf(i.src) \subseteq Reads(i)
  BY <1>2 DEF Reads, Branch, Conditional, Move, Compare, TwoOperand, Logic, Shift
<1>3. ASSUME i.op \in Compare \cup TwoOperand \cup OneOperand
      PROVE  RegistersOf(i.dst) \subseteq Reads(i)
  BY <1>3 DEF Reads, Branch, Conditional, Compare, TwoOperand, OneOperand, Logic, Shift
<1>4. ASSUME i.op \in Move \cup Compare \/ (i.op \in TwoOperand /\ OnRegister(i))
      PROVE  i.src \in Operands(i)
  BY <1>4 DEF Operands, Move, Compare, TwoOperand, OneOperand, Logic, Shift
<1>5. ASSUME i.op \in Compare \/ (i.op \in TwoOperand \cup OneOperand /\ OnRegister(i))
      PROVE  i.dst \in Operands(i)
  BY <1>5 DEF Operands, Move, Compare, TwoOperand, OneOperand, Logic, Shift
<1> QED
  BY <1>1, <1>2, <1>3, <1>4, <1>5

\* A zeroing idiom on a register is an exclusive or of it with itself.
LEMMA IdiomNamesOne ==
    ASSUME NEW i, NEW length, InstructionIsParsed(i, length), ~Undefined(i),
           XorNamesRegisters(i), ZeroIdiom(i), OnRegister(i)
    PROVE  /\ i.op \in {"xorl", "xorq"}
           /\ \A rg : Value(i.src, rg) = Value(i.dst, rg)
<1>1. i.op \in {"xorl", "xorq"}
  BY DEF ZeroIdiom, OnRegister, TwoOperand, OneOperand, Logic, Shift
<1>2. i.src \in Operands(i)
  BY <1>1 DEF Operands, Move, Compare, TwoOperand, OneOperand, Logic, Shift, OnRegister
<1>3. i.src.kind = "reg" /\ i.dst.kind = "reg"
  BY <1>1, <1>2 DEF Undefined, InstructionIsParsed, OperandIsParsed, XorNamesRegisters, OnRegister
<1>4. Cardinality({i.src.reg} \cup {i.dst.reg}) = 1
  BY <1>3 DEF ZeroIdiom, RegistersOf
<1>5. i.src.reg = i.dst.reg
  <2>1. IsFiniteSet({i.src.reg} \cup {i.dst.reg})
    BY FS_Singleton, FS_AddElement
  <2>2. PICK x : {i.src.reg} \cup {i.dst.reg} = {x}
    BY <1>4, <2>1, FS_Singleton
  <2> QED
    BY <2>2
<1> QED
  BY <1>1, <1>3, <1>5 DEF Value

LEMMA ResultFromReads ==
    ASSUME NEW i, NEW length, InstructionIsParsed(i, length), ~Undefined(i),
           XorNamesRegisters(i), NEW rg, \A r \in Reads(i) : rg[r] = regs[r],
           UpdatesRegister(i)
    PROVE  Result(i, rg) = Result(i, regs)
<1>1. i.op \in TwoOperand \cup OneOperand => OnRegister(i)
  BY DEF OnRegister, UpdatesRegister
<1>2. CASE i.op = "leaq"
  <2>1. i.mem # NoMemory
    BY <1>2 DEF InstructionIsParsed
  <2>2. Address(i.mem, rg) = Address(i.mem, regs)
    BY <2>1, AddressFromReads
  <2> QED
    BY <1>2, <2>2 DEF Result, Shift
<1>3. CASE i.op \in Move
  <2>1. ~ZeroIdiom(i)
    BY <1>3 DEF ZeroIdiom, Move
  <2>2. Value(i.src, rg) = Value(i.src, regs)
    BY <1>3, <2>1, ValuesFromReads
  <2>3. CASE i.op \in {"movl", "movq"}
    BY <2>2, <2>3 DEF Result, Shift
  <2>4. CASE i.op = "movslq"
    BY <2>2, <2>4 DEF Result, Shift
  <2>5. CASE i.op = "movzbl"
    BY <2>2, <2>5 DEF Result, Shift
  <2> QED
    BY <1>3, <2>3, <2>4, <2>5 DEF Move
<1>4. CASE i.op \in OneOperand
  <2>1. ~ZeroIdiom(i)
    BY <1>4 DEF ZeroIdiom, OneOperand
  <2>2. Value(i.dst, rg) = Value(i.dst, regs)
    BY <1>1, <1>4, <2>1, ValuesFromReads
  <2>3. CASE i.op = "incq"
    BY <2>2, <2>3 DEF Result, Shift
  <2>4. CASE i.op = "decq"
    BY <2>2, <2>4 DEF Result, Shift
  <2>5. CASE i.op = "negq"
    BY <2>2, <2>5 DEF Result, Shift
  <2>6. CASE i.op = "notq"
    BY <2>2, <2>6 DEF Result, Shift
  <2> QED
    BY <1>4, <2>3, <2>4, <2>5, <2>6 DEF OneOperand
<1>5. CASE i.op \in TwoOperand /\ ~ZeroIdiom(i)
  <2>1. Value(i.src, rg) = Value(i.src, regs) /\ Value(i.dst, rg) = Value(i.dst, regs)
    BY <1>1, <1>5, ValuesFromReads
  <2>2. CASE i.op = "addq"
    BY <2>1, <2>2 DEF Result, Shift
  <2>3. CASE i.op = "subq"
    BY <2>1, <2>3 DEF Result, Shift
  <2>4. CASE i.op = "andq"
    BY <2>1, <2>4 DEF Result, Shift
  <2>5. CASE i.op = "orq"
    BY <2>1, <2>5 DEF Result, Shift
  <2>6. CASE i.op \in {"xorl", "xorq"}
    BY <2>1, <2>6 DEF Result, Shift
  <2>7. CASE i.op \in Shift
    <3>1. ShiftCount(i, rg) = ShiftCount(i, regs)
      BY <2>1, Zenon DEF ShiftCount
    <3>2. Shifted(i, rg) = Shifted(i, regs)
      BY <2>1, <3>1, Zenon DEF Shifted
    <3> QED
      BY <2>1, <2>7, <3>1, <3>2 DEF Result, Shift
  <2> QED
    BY <1>5, <2>2, <2>3, <2>4, <2>5, <2>6, <2>7 DEF TwoOperand, Logic
<1>6. CASE i.op \in TwoOperand /\ ZeroIdiom(i)
  <2>1. i.op \in {"xorl", "xorq"} /\ \A f : Value(i.src, f) = Value(i.dst, f)
    BY <1>1, <1>6, IdiomNamesOne
  <2>2. \A f : Result(i, f) = Written(i.dst, Xor(Value(i.dst, f), Value(i.dst, f)))
    BY <2>1 DEF Result, Shift
  <2> QED
    BY <2>2, XorOfItself
<1> QED
  BY <1>2, <1>3, <1>4, <1>5, <1>6 DEF UpdatesRegister

\* The bits of a number are those of its word.
LEMMA BitsOfWord ==
    ASSUME NEW x \in Int
    PROVE  Bits(x % Word) = Bits(x)
<1>1. (x % Word) % Word = x % Word
  BY WordFacts
<1>2. \A k : Bit(x % Word, k) = Bit(x, k)
  BY <1>1, Zenon DEF Bit
<1> QED
  BY <1>2, Zenon DEF Bits

LEMMA FlagsFromReads ==
    ASSUME NEW i, NEW length, InstructionIsParsed(i, length), ~Undefined(i), ValuesInv,
           XorNamesRegisters(i), NEW rg, \A r \in Reads(i) : rg[r] = regs[r], NEW fl,
           \A r \in DOMAIN regs : rg[r] \in Int
    PROVE  FlagsAfter(i, rg, fl) = FlagsAfter(i, regs, fl)
<1>1. CASE i.op \in TwoOperand \cup OneOperand /\ ~OnRegister(i)
  BY <1>1 DEF FlagsAfter, OnRegister, TwoOperand, OneOperand, Logic, Shift
<1>2. CASE i.op \notin TwoOperand \cup OneOperand \cup Compare
  BY <1>2 DEF FlagsAfter, OnRegister, TwoOperand, OneOperand, Logic, Shift, Compare
<1>3. CASE ZeroIdiom(i) /\ OnRegister(i)
  <2>1. i.op \in {"xorl", "xorq"} /\ \A f : Value(i.src, f) = Value(i.dst, f)
    BY <1>3, IdiomNamesOne
  <2>2. \A f : FlagsAfter(i, f, fl)
               = FlagsOf(Xor(Value(i.dst, f) % Word, Value(i.dst, f)), FALSE, FALSE)
    BY <1>3, <2>1 DEF FlagsAfter, Shift
  <2>3. Value(i.dst, rg) \in Int /\ Value(i.dst, regs) \in Int
    <3>1. i.dst \in Operands(i) /\ i.dst.kind = "reg"
      BY <1>3, <2>1 DEF Operands, OnRegister, Move, Compare, TwoOperand, OneOperand, Logic, Shift
    <3>2. i.dst.reg \in DOMAIN regs
      BY <3>1 DEF Undefined, RegistersOf
    <3> QED
      BY <3>1, <3>2 DEF Value, ValuesInv
  <2>4. ASSUME NEW x \in Int PROVE Xor(x % Word, x) = Xor(x, x)
    BY BitsOfWord, Zenon DEF Xor
  <2>5. Xor(Value(i.dst, rg) % Word, Value(i.dst, rg))
        = Xor(Value(i.dst, regs) % Word, Value(i.dst, regs))
    BY <2>3, <2>4, XorOfItself
  <2> QED
    BY <2>2, <2>5
<1>4. CASE i.op \in OneOperand /\ OnRegister(i)
  <2>1. ~ZeroIdiom(i)
    BY <1>4 DEF ZeroIdiom, OneOperand
  <2>2. Value(i.dst, rg) = Value(i.dst, regs)
    BY <1>4, <2>1, ValuesFromReads
  <2>3. CASE i.op = "incq"
    BY <2>2, <2>3, <1>4 DEF FlagsAfter, Shift
  <2>4. CASE i.op = "decq"
    BY <2>2, <2>4, <1>4 DEF FlagsAfter, Shift
  <2>5. CASE i.op = "negq"
    BY <2>2, <2>5, <1>4 DEF FlagsAfter, Shift
  <2>6. CASE i.op = "notq"
    BY <2>2, <2>6, <1>4 DEF FlagsAfter, Shift
  <2> QED
    BY <1>4, <2>3, <2>4, <2>5, <2>6 DEF OneOperand
<1>5. CASE /\ i.op \in Compare \/ (i.op \in TwoOperand /\ OnRegister(i))
           /\ ~ZeroIdiom(i)
  <2>1. Value(i.src, rg) = Value(i.src, regs) /\ Value(i.dst, rg) = Value(i.dst, regs)
    BY <1>5, ValuesFromReads
  <2>2. ~(i.op \in TwoOperand \cup OneOperand /\ ~OnRegister(i))
    BY <1>5 DEF TwoOperand, OneOperand, Compare, Logic, Shift
  <2>3. CASE i.op = "addq"
    <3>1. AddFlags(i, rg) = AddFlags(i, regs)
      BY <2>1, Zenon DEF AddFlags
    <3> QED
      BY <2>2, <2>3, <3>1 DEF FlagsAfter, Shift
  <2>4. CASE i.op \in {"subq", "cmpq"}
    <3>1. SubtractFlags(i, rg) = SubtractFlags(i, regs)
      BY <2>1 DEF SubtractFlags
    <3> QED
      BY <2>2, <2>4, <3>1 DEF FlagsAfter, Shift
  <2>5. CASE i.op \in {"andq", "testq"}
    BY <2>1, <2>2, <2>5 DEF FlagsAfter, Shift
  <2>6. CASE i.op = "orq"
    BY <2>1, <2>2, <2>6 DEF FlagsAfter, Shift
  <2>7. CASE i.op \in {"xorl", "xorq"}
    BY <2>1, <2>2, <2>7 DEF FlagsAfter, Shift
  <2>8. CASE i.op \in Shift
    <3>1. ShiftCount(i, rg) = ShiftCount(i, regs)
      BY <2>1, Zenon DEF ShiftCount
    <3>2. Shifted(i, rg) = Shifted(i, regs) /\ ShiftCarry(i, rg) = ShiftCarry(i, regs)
      BY <2>1, <3>1, Zenon DEF Shifted, ShiftCarry
    <3> QED
      BY <2>2, <2>8, <3>1, <3>2 DEF FlagsAfter, Shift
  <2> QED
    BY <1>5, <2>3, <2>4, <2>5, <2>6, <2>7, <2>8 DEF TwoOperand, Logic, Compare
<1>6. ~ZeroIdiom(i) \/ OnRegister(i) \/ i.op \notin Compare
  BY DEF ZeroIdiom, Compare
<1> QED
  BY <1>1, <1>2, <1>3, <1>4, <1>5, <1>6 DEF ZeroIdiom, Compare

LEMMA OutcomeFromAgreement ==
    ASSUME NEW i, NEW length, InstructionIsParsed(i, length), ~Undefined(i), ValuesInv,
           XorNamesRegisters(i), NEW rg, \A r \in Reads(i) : rg[r] = regs[r],
           \A r \in DOMAIN regs : rg[r] \in Int
    PROVE  Outcome(i, rg) = Outcome(i, regs)
<1>1. UpdatesRegister(i) => Result(i, rg) = Result(i, regs)
  BY ResultFromReads
<1>2. FlagsAfter(i, rg, flags) = FlagsAfter(i, regs, flags)
  BY FlagsFromReads
<1>3. i.mem # NoMemory => Address(i.mem, rg) = Address(i.mem, regs)
  BY AddressFromReads
<1>4. /\ (IF UpdatesRegister(i) THEN Result(i, rg) ELSE 0)
            = (IF UpdatesRegister(i) THEN Result(i, regs) ELSE 0)
      /\ (IF i.mem = NoMemory THEN 0 ELSE Address(i.mem, rg))
            = (IF i.mem = NoMemory THEN 0 ELSE Address(i.mem, regs))
  BY <1>1, <1>3
<1> QED
  BY <1>2, <1>4, Zenon DEF Outcome

-----------------------------------------------------------------------------
(* The trace and the maps beside it.                                       *)

SequenceInv == \E S : trace \in Seq(S)

\* last_flags_writer is the latest entry that writes the flags.
FlagsMap ==
    /\ lastFlags \in 0..Len(trace)
    /\ lastFlags # 0 => trace[lastFlags].flags
    /\ \A k \in (lastFlags + 1)..Len(trace) : ~trace[k].flags

\* The last writers are those that looking back over the trace finds.
WritersInv == WriterMap(trace, lastReg, Register) /\ FlagsMap /\ StoreMap(trace, lastStore)

FlagsBefore(t, k) ==
    IF program[t[k].static].op \notin Conditional THEN {}
    ELSE LatestOf({j \in 1..(k - 1) : t[j].flags})

EntriesInv ==
    /\ AllBackward(trace)
    /\ \A k \in 1..Len(trace) :
          /\ trace[k].static \in 1..Len(program)
          /\ AccessIsShaped(trace[k].memory) /\ AwaitsStores(trace, k)
          /\ OnLastWriters(trace, k, FlagsBefore(trace, k))

ProgressInv == steps \in 0..MaxSteps /\ status \in {"running", "done", "error"}

BuilderInv == ProgramInv /\ ValuesInv /\ SequenceInv /\ WritersInv /\ EntriesInv /\ ProgressInv

LEMMA InitBuilder ==
    ASSUME Init
    PROVE  BuilderInv
<1>1. PICK j \in Jobs : program = j.program /\ count = j.count
  BY DEF Init
<1>2. ProgramInv
  BY <1>1, ProgramAssumption DEF Init, ProgramsAreParsed, ProgramInv
<1>3. trace = <<>> /\ trace \in Seq({}) /\ Len(trace) = 0 /\ DOMAIN trace = {}
  BY DEF Init
<1>4. SequenceInv
  BY <1>3 DEF SequenceInv
<1>5. ValuesInv
  <2>1. /\ DOMAIN regs = {"rdi", "rsi", "rdx", "rax", "rcx"}
        /\ \A r \in DOMAIN regs : regs[r] \in {InputBase, OutputBase, count, 0}
    BY DEF Init
  <2>2. DOMAIN regs \subseteq Register /\ \A r \in DOMAIN regs : regs[r] \in Int
    BY <2>1, <1>2, WordAssumption, RegisterAssumption DEF ProgramInv, Register
  <2>3. flags \in FlagsType
    BY DEF Init, FlagsType
  <2>4. DOMAIN constants = {} /\ IsFiniteSet({})
    BY FS_EmptySet DEF Init
  <2> QED
    BY <2>2, <2>3, <2>4 DEF ValuesInv
<1>6. WritersInv
  BY <1>3 DEF Init, WritersInv, WriterMap, FlagsMap, StoreMap
<1>7. EntriesInv
  BY <1>3 DEF EntriesInv, AllBackward
<1>8. ProgressInv
  <2>1. count \in Nat /\ StepBase \in Nat /\ StepFactor \in Nat
    BY <1>2, WordAssumption DEF ProgramInv
  <2>2. MaxSteps \in Nat
    BY <2>1 DEF MaxSteps
  <2> QED
    BY <2>2 DEF Init, ProgressInv
<1> QED
  BY <1>2, <1>4, <1>5, <1>6, <1>7, <1>8 DEF BuilderInv

LEMMA ExpandValues ==
    ASSUME ProgramInv, ValuesInv, Expand
    PROVE  ValuesInv'
<1> DEFINE i == Here
<1>1. /\ InstructionIsParsed(i, Len(program)) /\ ~Undefined(i)
      /\ UpdateScalarState(i) /\ pc <= Len(program)
  BY HereFacts DEF Expand, Running
<1> HIDE DEF i
<1>2. /\ regs' = IF UpdatesRegister(i)
                 THEN [r \in DOMAIN regs \cup {i.dst.reg} |->
                          IF r = i.dst.reg THEN Result(i, regs) ELSE regs[r]]
                 ELSE regs
      /\ flags' = FlagsAfter(i, regs, flags)
      /\ constants' = WithLabel(i.mem)
  BY <1>1 DEF UpdateScalarState
<1>3. flags' \in FlagsType
  BY <1>2, FlagsAfterType DEF ValuesInv
<1>4. DOMAIN regs' \subseteq Register /\ \A r \in DOMAIN regs' : regs'[r] \in Int
  <2>1. CASE UpdatesRegister(i)
    <3>1. Result(i, regs) \in Int
      BY <1>1, <2>1, ResultFacts
    <3>2. i.dst.reg \in Register
      BY <1>1, <2>1 DEF UpdatesRegister, InstructionIsParsed, OperandIsParsed, NoOperand, None
    <3> QED
      BY <1>2, <2>1, <3>1, <3>2 DEF ValuesInv
  <2>2. CASE ~UpdatesRegister(i)
    BY <1>2, <2>2 DEF ValuesInv
  <2> QED
    BY <2>1, <2>2
<1>5. IsFiniteSet(DOMAIN constants') /\ \A l \in DOMAIN constants' : constants'[l] \in Int
  BY <1>2, LabelsType
<1> QED
  BY <1>3, <1>4, <1>5 DEF ValuesInv

\* An access is to an address that is known.
LEMMA AccessShape ==
    ASSUME ValuesInv, NEW i, NEW length, InstructionIsParsed(i, length), ~Undefined(i)
    PROVE  AccessIsShaped(AccessOf(i))
<1>1. CASE ~Accesses(i)
  BY <1>1 DEF AccessOf, AccessIsShaped
<1>2. CASE Accesses(i)
  <2>1. i.mem # NoMemory /\ MemoryIsParsed(i.mem) /\ i.bytes \in Nat
    BY <1>2 DEF Accesses, InstructionIsParsed
  <2>2. Address(i.mem, regs) \in Int
    BY <2>1, AddressType DEF Undefined
  <2> QED
    BY <1>2, <2>1, <2>2 DEF AccessOf, AccessIsShaped
<1> QED
  BY <1>1, <1>2

LEMMA ExpandBuilder == BuilderInv /\ Expand => BuilderInv'
<1> SUFFICES ASSUME BuilderInv, Expand PROVE BuilderInv'
  OBVIOUS
<1> DEFINE i == Here
           a == AccessOf(Here)
           e == Record(Here, AccessOf(Here))
           n == Len(trace)
<1>1. /\ ProgramInv /\ ValuesInv /\ SequenceInv /\ WritersInv /\ EntriesInv /\ ProgressInv
      /\ pc <= Len(program) /\ ~Undefined(i)
  BY DEF BuilderInv, Expand, Running
<1>2. /\ InstructionIsParsed(i, Len(program)) /\ pc \in 1..Len(program)
      /\ i.target \in 1..Len(program) /\ Len(program) \in Nat
      /\ Reads(i) \subseteq Register /\ Writes(i) \subseteq Register
  BY <1>1, HereFacts
<1>3. PICK S : trace \in Seq(S)
  BY <1>1 DEF SequenceInv
<1>4. Grows(trace, trace', e) /\ trace' \in Seq(S \cup {e})
  <2>1. trace' = Append(trace, e)
    BY DEF Expand
  <2> HIDE DEF e
  <2> QED
    BY <1>3, <2>1, GrowsByAppend
<1>5. /\ n \in Nat /\ Len(trace') = n + 1 /\ DOMAIN trace' = 1..(n + 1)
      /\ trace'[n + 1] = e /\ \A k \in 1..n : trace'[k] = trace[k]
  BY <1>4 DEF Grows
<1>6. /\ e.static = pc /\ e.reads = Reads(i) /\ e.writes = Writes(i) /\ e.memory = a
      /\ e.flags = WritesFlags(i)
      /\ e.dependsOn = ({lastReg[r] : r \in e.reads} \ {0}) \cup FlagsDependency(i)
            \cup (IF e.memory = NoAccess THEN {}
                  ELSE {lastStore[l] : l \in e.memory.lines \cap DOMAIN lastStore})
  BY DEF Record, RegisterDependencies, MemoryDependencies
<1>7. ProgramInv'
  <2>1. program' = program /\ count' = count
    BY DEF Expand, input
  <2>2. pc' = i.target \/ pc' = pc + 1
    BY DEF Expand
  <2> QED
    BY <2>1, <2>2, <1>1, <1>2 DEF ProgramInv
<1>8. SequenceInv'
  BY <1>4 DEF SequenceInv
<1>9. ValuesInv'
  BY <1>1, ExpandValues
<1>10. ProgressInv'
  <2>1. steps' = steps + 1 /\ steps < MaxSteps /\ MaxSteps' = MaxSteps
    BY DEF Expand, Running, MaxSteps, input
  <2>2. status' \in {"done", status}
    BY DEF Expand
  <2>3. MaxSteps \in Nat
    BY <1>1, WordAssumption DEF ProgramInv, MaxSteps
  <2> QED
    BY <2>1, <2>2, <2>3, <1>1 DEF ProgressInv
<1>11. WritersInv'
  <2>1. /\ lastReg' = [r \in Register |-> IF r \in e.writes THEN n + 1 ELSE lastReg[r]]
        /\ lastFlags' = IF WritesFlags(i) THEN n + 1 ELSE lastFlags
        /\ lastStore' = StoresAfter(lastStore, e.memory, n + 1)
    BY <1>6 DEF Expand, UpdateWriters
  <2> HIDE DEF e, i, a
  <2>2. WriterMap(trace', lastReg', Register)
    BY <1>1, <1>4, <2>1, WriterMapGrows DEF WritersInv
  <2>3. StoreMap(trace', lastStore')
    BY <1>1, <1>4, <2>1, StoreMapGrows DEF WritersInv
  <2>4. FlagsMap'
    <3>1. CASE WritesFlags(i)
      <4>1. trace'[n + 1].flags
        BY <3>1, <1>5, <1>6, Zenon
      <4> QED
        BY <4>1, <3>1, <2>1, <1>5 DEF FlagsMap
    <3>2. CASE ~WritesFlags(i)
      <4>1. /\ lastFlags' = lastFlags /\ lastFlags \in 0..n
            /\ lastFlags # 0 => trace[lastFlags].flags
            /\ \A k \in (lastFlags + 1)..n : ~trace[k].flags
        BY <3>2, <2>1, <1>1 DEF WritersInv, FlagsMap
      <4>2. lastFlags # 0 => trace'[lastFlags].flags
        BY <4>1, <1>5
      <4>3. \A k \in (lastFlags + 1)..n : ~trace'[k].flags
        BY <4>1, <1>5
      <4>4. ~trace'[n + 1].flags
        BY <3>2, <1>5, <1>6, Zenon
      <4> QED
        BY <4>1, <4>2, <4>3, <4>4, <1>5 DEF FlagsMap
    <3> QED
      BY <3>1, <3>2
  <2> QED
    BY <2>2, <2>3, <2>4 DEF WritersInv
<1>12. EntriesInv'
  <2>1. AccessIsShaped(e.memory)
    BY <1>1, <1>2, <1>6, AccessShape
  <2>2. FlagsDependency(i) \subseteq 1..n /\ FlagsBefore(trace', n + 1) = FlagsDependency(i)
    <3>1. /\ lastFlags \in 0..n /\ (lastFlags # 0 => trace[lastFlags].flags)
          /\ \A k \in (lastFlags + 1)..n : ~trace[k].flags
      BY <1>1 DEF WritersInv, FlagsMap
    <3>2. FlagsDependency(i) \subseteq 1..n
      BY <3>1, <1>5 DEF FlagsDependency
    <3> DEFINE F == {j \in 1..n : trace'[j].flags}
    <3>3. lastFlags # 0 => lastFlags \in F
      BY <3>1, <1>5
    <3>4. \A j \in F : j \in 1..n /\ j <= lastFlags
      BY <3>1, <1>5
    <3>5. (n + 1) - 1 = n /\ program[trace'[n + 1].static] = i
      BY <1>5, <1>6 DEF Here
    <3>6. FlagsBefore(trace', n + 1) = IF i.op \notin Conditional THEN {} ELSE LatestOf(F)
      BY <3>5, Zenon DEF FlagsBefore
    <3> HIDE DEF F, i
    <3>7. LatestOf(F) = {lastFlags} \ {0}
      BY <3>1, <3>3, <3>4 DEF LatestOf
    <3> QED
      BY <3>2, <3>6, <3>7 DEF FlagsDependency, ReadsFlags
  <2>3. /\ OnLastWriters(trace', n + 1, FlagsDependency(i)) /\ AwaitsStores(trace', n + 1)
        /\ e.dependsOn \subseteq 1..n
    <3> HIDE DEF e, i, a
    <3> QED
      BY <1>1, <1>2, <1>4, <1>6, <2>2, NewEntryIsExact DEF WritersInv
  <2>4. AllBackward(trace) /\ AllBackward(trace')
    <3>1. AllBackward(trace)
      BY <1>1 DEF EntriesInv
    <3>2. ASSUME NEW k \in 1..(n + 1) PROVE trace'[k].dependsOn \subseteq 1..(k - 1)
      <4> HIDE DEF e
      <4>1. CASE k = n + 1
        BY <4>1, <2>3, <1>5
      <4>2. CASE k \in 1..n
        BY <4>2, <3>1, <1>4, <1>5 DEF AllBackward, Grows
      <4> QED
        BY <4>1, <4>2, <1>5
    <3> QED
      BY <3>1, <3>2, <1>5 DEF AllBackward
  <2>5. ASSUME NEW k \in 1..(n + 1)
        PROVE  /\ trace'[k].static \in 1..Len(program)
               /\ AccessIsShaped(trace'[k].memory) /\ AwaitsStores(trace', k)
               /\ OnLastWriters(trace', k, FlagsBefore(trace', k))
    <3> HIDE DEF e, i, a
    <3>1. CASE k = n + 1
      BY <3>1, <2>1, <2>2, <2>3, <1>2, <1>5, <1>6
    <3>2. CASE k \in 1..n
      <4>1. /\ trace[k].static \in 1..Len(program)
            /\ AccessIsShaped(trace[k].memory) /\ AwaitsStores(trace, k)
            /\ OnLastWriters(trace, k, FlagsBefore(trace, k)) /\ trace'[k] = trace[k]
        BY <3>2, <1>1, <1>5 DEF EntriesInv
      <4>2. FlagsBefore(trace', k) = FlagsBefore(trace, k)
        <5>1. \A j \in 1..(k - 1) : trace'[j] = trace[j]
          BY <3>2, <1>5
        <5>2. {j \in 1..(k - 1) : trace'[j].flags} = {j \in 1..(k - 1) : trace[j].flags}
          BY <5>1
        <5> QED
          BY <4>1, <5>2 DEF FlagsBefore
      <4>3. /\ AwaitsStores(trace', k)
            /\ OnLastWriters(trace', k, FlagsBefore(trace, k))
        BY <3>2, <4>1, <2>4, <1>4, OldEntriesKeep
      <4> QED
        BY <4>1, <4>2, <4>3
    <3> QED
      BY <3>1, <3>2, <1>5
  <2>6. program' = program
    BY DEF Expand, input
  <2> HIDE DEF e, i, a
  <2> QED
    BY <2>4, <2>5, <2>6, <1>5 DEF EntriesInv, FlagsBefore
<1> QED
  BY <1>7, <1>8, <1>9, <1>10, <1>11, <1>12 DEF BuilderInv

LEMMA StepBuilder == BuilderInv /\ [Next]_vars => BuilderInv'
<1> SUFFICES ASSUME BuilderInv, [Next]_vars PROVE BuilderInv'
  OBVIOUS
<1>1. CASE Expand
  BY <1>1, ExpandBuilder
<1>2. CASE /\ UNCHANGED <<input, pc, steps, machine, writers, trace>>
           /\ status' \in {status, "error", "done"}
  BY <1>2 DEF BuilderInv, ProgramInv, ValuesInv, SequenceInv, WritersInv, FlagsMap, EntriesInv,
              FlagsBefore, ProgressInv, MaxSteps, input, machine, writers
<1> QED
  BY <1>1, <1>2 DEF Next, Raise, RunOffTheEnd, Stopped, vars

LEMMA BuilderHolds == Spec => []BuilderInv
<1>1. Init => BuilderInv
  BY InitBuilder
<1> QED
  BY <1>1, StepBuilder, PTL DEF Spec

LEMMA BuilderIsExact ==
    ASSUME BuilderInv
    PROVE  TypeOK /\ DependenciesBackward /\ StoresOrdered /\ DependsOnLastWriters
<1>1. /\ ProgramInv /\ ValuesInv /\ SequenceInv /\ WritersInv /\ EntriesInv /\ ProgressInv
  BY DEF BuilderInv
<1>2. PICK S : trace \in Seq(S)
  BY <1>1 DEF SequenceInv
<1>3. Len(trace) \in Nat /\ DOMAIN trace = 1..Len(trace)
  BY <1>2
<1>4. TypeOK
  <2>1. lastReg \in [Register -> 0..Len(trace)]
    <3>1. /\ lastReg = [r \in Register |-> lastReg[r]]
          /\ \A r \in Register : lastReg[r] \in 0..Len(trace)
      BY <1>1 DEF WritersInv, WriterMap
    <3> QED
      BY <3>1
  <2>2. \A l \in DOMAIN lastStore : lastStore[l] \in 1..Len(trace)
    BY <1>1 DEF WritersInv, StoreMap
  <2> QED
    BY <1>1, <2>1, <2>2 DEF TypeOK, ProgramInv, ValuesInv, FlagsType, ProgressInv, WritersInv, FlagsMap
<1>5. DependenciesBackward
  BY <1>1 DEF EntriesInv, DependenciesBackward
<1>6. StoresOrdered
  BY <1>1, <1>3, StoresAreFollowed, WordAssumption DEF EntriesInv, StoresOrdered
<1>7. DependsOnLastWriters
  BY <1>1, <1>3 DEF EntriesInv, DependsOnLastWriters, FlagsBefore
<1> QED
  BY <1>4, <1>5, <1>6, <1>7

LEMMA OutcomesAreRead ==
    ASSUME BuilderInv, Running => XorNamesRegisters(Here)
    PROVE  OutcomeFromReads
<1> SUFFICES ASSUME Running, ~Undefined(Here), NEW r \in DOMAIN regs \ Reads(Here),
                    NEW v \in 0..(Word - 1)
             PROVE  Outcome(Here, [regs EXCEPT ![r] = v]) = Outcome(Here, regs)
  BY DEF OutcomeFromReads
<1> DEFINE rg == [regs EXCEPT ![r] = v]
<1>1. ProgramInv /\ ValuesInv /\ pc <= Len(program) /\ XorNamesRegisters(Here)
  BY DEF BuilderInv, Running
<1>2. InstructionIsParsed(Here, Len(program))
  BY <1>1, HereFacts
<1>3. \A q \in Reads(Here) : rg[q] = regs[q]
  <2> SUFFICES ASSUME NEW q \in Reads(Here) PROVE rg[q] = regs[q]
    OBVIOUS
  <2>1. q # r
    OBVIOUS
  <2> QED
    BY <2>1
<1>4. v \in Int
  BY WordFacts
<1>5. \A q \in DOMAIN regs : rg[q] \in Int
  BY <1>1, <1>4 DEF ValuesInv
<1> HIDE DEF rg
<1>6. Outcome(Here, rg) = Outcome(Here, regs)
  BY <1>1, <1>2, <1>3, <1>5, OutcomeFromAgreement
<1> QED
  BY <1>6 DEF rg

\* The trace of every program is a DAG in its own order, in which each entry waits
\* for the last writers of what it reads, the flags among them, and follows every
\* earlier store to any of its bytes.
THEOREM TraceIsComplete ==
    Spec => [](TypeOK /\ DependenciesBackward /\ StoresOrdered /\ DependsOnLastWriters)
BY BuilderHolds, BuilderIsExact, PTL

\* last_register_writer, last_flags_writer and last_store_by_line always name the
\* latest entry that writes the register, the flags or the line, and nothing if
\* there is none.
THEOREM WritersAreLatest == Spec => []WritersInv
<1>1. BuilderInv => WritersInv
  BY DEF BuilderInv
<1> QED
  BY <1>1, BuilderHolds, PTL

\* No exclusive or of the kernels has an immediate operand.
NoImmediateXor ==
    \A j \in Jobs : \A k \in 1..Len(j.program) : XorNamesRegisters(j.program[k])
XorInv == \A k \in 1..Len(program) : XorNamesRegisters(program[k])

\* For every program without an immediate exclusive or, whatever an instruction
\* does is determined by the registers it is recorded to read: the trace of
\* build_dynamic_trace is exact.
THEOREM TraceIsExact ==
    NoImmediateXor => (Spec => []TraceExact)
<1> SUFFICES ASSUME NoImmediateXor PROVE Spec => []TraceExact
  OBVIOUS
<1>1. Init => XorInv
  BY DEF Init, XorInv, NoImmediateXor
<1>2. XorInv /\ [Next]_vars => XorInv'
  BY DEF XorInv, Next, Expand, Raise, RunOffTheEnd, Stopped, vars, input
<1>3. BuilderInv /\ XorInv => TraceExact
  <2> SUFFICES ASSUME BuilderInv, XorInv PROVE TraceExact
    OBVIOUS
  <2>1. Running => XorNamesRegisters(Here)
    BY DEF Running, Here, XorInv, BuilderInv, ProgramInv
  <2> QED
    BY <2>1, BuilderIsExact, OutcomesAreRead DEF TraceExact
<1> QED
  BY <1>1, <1>2, <1>3, BuilderHolds, PTL DEF Spec

-----------------------------------------------------------------------------
(* The flags of a comparison.                                              *)

\* The remainder is the only number of the word in its class.
LEMMA RemainderIs ==
    ASSUME NEW x \in Int, NEW y \in 0..(Word - 1), NEW q \in Int, x = Word * q + y
    PROVE  x % Word = y
<1>1. Word \in Nat \ {0}
  BY WordFacts
<1>2. PICK p \in Int, z \in 0..(Word - 1) : z = x % Word /\ x = Word * p + z
  <2>1. x % Word \in 0..(Word - 1) /\ x \div Word \in Int /\ x = Word * (x \div Word) + (x % Word)
    BY <1>1, WordRemainder
  <2> QED
    BY <2>1
<1>3. p = q
  <2>1. y \in Int /\ z \in Int /\ 0 <= y /\ y < Word /\ 0 <= z /\ z < Word /\ Word \in Int
    BY <1>1
  <2>2. Word * q + y = Word * p + z
    BY <1>2
  <2>3. CASE q < p
    <3>1. q + 1 <= p
      BY <2>3
    <3>2. Word * (q + 1) <= Word * p
      BY <3>1, <1>1
    <3>3. Word * (q + 1) = Word * q + Word
      BY <2>1
    <3> QED
      BY <2>1, <2>2, <3>2, <3>3
  <2>4. CASE p < q
    <3>1. p + 1 <= q
      BY <2>4
    <3>2. Word * (p + 1) <= Word * q
      BY <3>1, <1>1
    <3>3. Word * (p + 1) = Word * p + Word
      BY <2>1
    <3> QED
      BY <2>1, <2>2, <3>2, <3>3
  <2> QED
    BY <2>3, <2>4
<1> QED
  BY <1>1, <1>2, <1>3

\* A difference of two words, as a word.
LEMMA DifferenceIs ==
    ASSUME NEW a \in 0..(Word - 1), NEW b \in 0..(Word - 1)
    PROVE  (a - b) % Word = IF a >= b THEN a - b ELSE (a - b) + Word
<1>1. Word \in Nat \ {0}
  BY WordFacts
<1>2. CASE a >= b
  <2>1. a - b \in 0..(Word - 1) /\ a - b \in Int /\ a - b = Word * 0 + (a - b)
    BY <1>1, <1>2
  <2> QED
    BY <1>2, <2>1, RemainderIs
<1>3. CASE ~(a >= b)
  <2> DEFINE y == (a - b) + Word
  <2>1. y \in 0..(Word - 1) /\ a - b \in Int /\ a - b = Word * (-1) + y
    BY <1>1, <1>3
  <2>2. (a - b) % Word = y
    <3> HIDE DEF y
    <3> QED
      BY <2>1, RemainderIs
  <2> QED
    BY <1>3, <2>2
<1> QED
  BY <1>2, <1>3

LEMMA Booleans ==
    ASSUME NEW u \in BOOLEAN, NEW v \in BOOLEAN
    PROVE  ((u # v) <=> (u <=> ~v)) /\ ((u = v) <=> (u <=> v))
OBVIOUS

LEMMA FlagsOfFields ==
    ASSUME NEW x, NEW cf, NEW of, NEW fl, fl = FlagsOf(x, cf, of)
    PROVE  /\ fl.zf = (x % Word = 0) /\ fl.cf = cf /\ fl.sf = Sign(x) /\ fl.of = of
<1> DEFINE z == x % Word = 0
           s == Sign(x)
<1>1. fl = [zf |-> z, cf |-> cf, sf |-> s, of |-> of]
  BY DEF FlagsOf
<1> HIDE DEF z, s
<1>2. fl.zf = z /\ fl.cf = cf /\ fl.sf = s /\ fl.of = of
  BY <1>1
<1> QED
  BY <1>2 DEF z, s

\* What a conditional branch tests after the comparison of the words a and b.
LEMMA BranchIsComparison ==
    ASSUME NEW a \in 0..(Word - 1), NEW b \in 0..(Word - 1), NEW op \in Conditional, NEW fl,
           fl = FlagsOf(a - b, a < b, Sign(a) # Sign(b) /\ Sign(a) # Sign(a - b))
    PROVE  BranchTaken(op, fl) <=> Holds(op, a, b)
<1>1. Word \in Nat \ {0} /\ Half \in Nat \ {0} /\ Word = 2 * Half /\ a \in Int /\ b \in Int
      /\ 0 <= a /\ a < Word /\ 0 <= b /\ b < Word
  BY WordFacts
<1>2. PICK d \in Int : d = (a - b) % Word /\ d = IF a >= b THEN a - b ELSE (a - b) + Word
  BY <1>1, DifferenceIs
<1>3. a % Word = a /\ b % Word = b
  BY <1>1
<1> DEFINE sa == a >= Half
           sb == b >= Half
           sd == d >= Half
<1>4. (Sign(a) <=> sa) /\ (Sign(b) <=> sb) /\ (Sign(a - b) <=> sd)
  <2>1. a - b \in Int
    BY <1>1
  <2> QED
    BY <1>1, <1>2, <1>3, <2>1, SignIsUpperHalf
<1>5. /\ Signed(a) = IF sa THEN a - Word ELSE a
      /\ Signed(b) = IF sb THEN b - Word ELSE b
  BY <1>3, <1>4 DEF Signed
<1>6. /\ fl.zf = (d = 0) /\ fl.cf = (a < b) /\ fl.sf = Sign(a - b)
      /\ fl.of = ((Sign(a) # Sign(b)) /\ (Sign(a) # Sign(a - b)))
  <2>1. /\ fl.zf = ((a - b) % Word = 0) /\ fl.cf = (a < b) /\ fl.sf = Sign(a - b)
        /\ fl.of = ((Sign(a) # Sign(b)) /\ (Sign(a) # Sign(a - b)))
    <3> DEFINE cf == a < b
               of == (Sign(a) # Sign(b)) /\ (Sign(a) # Sign(a - b))
    <3>1. fl = FlagsOf(a - b, cf, of)
      OBVIOUS
    <3> HIDE DEF cf, of
    <3>2. fl.zf = ((a - b) % Word = 0) /\ fl.cf = cf /\ fl.sf = Sign(a - b) /\ fl.of = of
      BY <3>1, FlagsOfFields
    <3> QED
      BY <3>2 DEF cf, of
  <2> QED
    BY <2>1, <1>2, Zenon
<1>7. /\ fl.zf \in BOOLEAN /\ fl.cf \in BOOLEAN /\ fl.sf \in BOOLEAN /\ fl.of \in BOOLEAN
      /\ fl.zf <=> d = 0
      /\ fl.cf <=> a < b
      /\ fl.sf <=> sd
      /\ fl.of <=> ((Sign(a) # Sign(b)) /\ (Sign(a) # Sign(a - b)))
  <2>2. /\ (d = 0) \in BOOLEAN /\ (a < b) \in BOOLEAN /\ Sign(a - b) \in BOOLEAN
        /\ ((Sign(a) # Sign(b)) /\ (Sign(a) # Sign(a - b))) \in BOOLEAN
    BY DEF Sign
  <2> HIDE DEF sa, sb, sd
  <2> QED
    BY <2>2, <1>4, <1>6, Zenon
<1>8. fl.of <=> ((sa <=> ~sb) /\ (sa <=> ~sd))
  <2>1. Sign(a) \in BOOLEAN /\ Sign(b) \in BOOLEAN /\ Sign(a - b) \in BOOLEAN
    BY DEF Sign
  <2>2. /\ (Sign(a) # Sign(b)) <=> (Sign(a) <=> ~Sign(b))
        /\ (Sign(a) # Sign(a - b)) <=> (Sign(a) <=> ~Sign(a - b))
    BY <2>1, Booleans
  <2>3. fl.of <=> ((Sign(a) # Sign(b)) /\ (Sign(a) # Sign(a - b)))
    BY <1>7
  <2> HIDE DEF sa, sb, sd
  <2> QED
    BY <2>2, <2>3, <1>4
<1>9. fl.zf <=> a = b
  BY <1>1, <1>2, <1>7
\* The signed comparison: with equal signs the difference has no overflow.
<1>10. (fl.sf <=> ~fl.of) <=> Signed(a) < Signed(b)
  <2>1. (sd <=> ~((sa <=> ~sb) /\ (sa <=> ~sd))) <=> Signed(a) < Signed(b)
    BY <1>1, <1>2, <1>5
  <2> HIDE DEF sa, sb, sd
  <2> QED
    BY <1>7, <1>8, <2>1
<1>11. Signed(a) = Signed(b) <=> a = b
  BY <1>1, <1>5
<1>12. Signed(a) \in Int /\ Signed(b) \in Int
  BY <1>1, <1>5
<1>13. fl.of <=> Signed(a) - Signed(b) \notin -Half..(Half - 1)
  <2>1. ((sa <=> ~sb) /\ (sa <=> ~sd)) <=> Signed(a) - Signed(b) \notin -Half..(Half - 1)
    BY <1>1, <1>2, <1>5
  <2> QED
    BY <1>8, <2>1
<1> HIDE DEF sa, sb, sd
<1>14. CASE op \in {"je", "jne"}
  BY <1>9, <1>14 DEF BranchTaken, Holds
<1>15. CASE op \in {"jb", "jnb"}
  <2>1. BranchTaken(op, fl) <=> (fl.cf <=> op = "jb")
    BY <1>15 DEF BranchTaken
  <2>2. Holds(op, a, b) <=> (a < b <=> op = "jb")
    BY <1>1, <1>15 DEF Holds
  <2> QED
    BY <1>7, <2>1, <2>2
<1>16. CASE op \in {"jbe", "ja"}
  <2>1. BranchTaken(op, fl) <=> ((fl.cf \/ fl.zf) <=> op = "jbe")
    BY <1>16 DEF BranchTaken
  <2>2. Holds(op, a, b) <=> ((a < b \/ a = b) <=> op = "jbe")
    BY <1>1, <1>16 DEF Holds
  <2> QED
    BY <1>7, <1>9, <2>1, <2>2
<1>17. CASE op \in {"jl", "jge"}
  <2>1. (fl.sf # fl.of <=> (fl.sf <=> ~fl.of)) /\ (fl.sf = fl.of <=> ~(fl.sf <=> ~fl.of))
    BY <1>7, Booleans
  <2>2. BranchTaken(op, fl) <=> (fl.sf # fl.of <=> op = "jl")
    BY <1>17 DEF BranchTaken
  <2>3. Holds(op, a, b) <=> (Signed(a) < Signed(b) <=> op = "jl")
    BY <1>12, <1>17 DEF Holds
  <2> QED
    BY <1>10, <2>1, <2>2, <2>3
<1>18. CASE op \in {"jle", "jg"}
  <2>1. (fl.sf # fl.of <=> (fl.sf <=> ~fl.of)) /\ (fl.sf = fl.of <=> ~(fl.sf <=> ~fl.of))
    BY <1>7, Booleans
  <2>2. BranchTaken(op, fl) <=> ((fl.zf \/ fl.sf # fl.of) <=> op = "jle")
    BY <1>18 DEF BranchTaken
  <2>3. Holds(op, a, b) <=> ((Signed(a) = Signed(b) \/ Signed(a) < Signed(b)) <=> op = "jle")
    BY <1>12, <1>18 DEF Holds
  <2> QED
    BY <1>9, <1>10, <1>11, <2>1, <2>2, <2>3
<1>19. CASE op \in {"js", "jns"}
  BY <1>4, <1>7, <1>19 DEF BranchTaken, Holds
<1>20. CASE op \in {"jo", "jno"}
  <2>1. Holds(op, a, b) <=>
          ((Signed(a) - Signed(b) \notin -Half..(Half - 1)) <=> op = "jo")
    BY <1>20 DEF Holds, Half
  <2>2. BranchTaken(op, fl) <=> (fl.of <=> op = "jo")
    BY <1>20 DEF BranchTaken
  <2> QED
    BY <1>13, <2>1, <2>2
<1> QED
  BY <1>14, <1>15, <1>16, <1>17, <1>18, <1>19, <1>20 DEF Conditional

-----------------------------------------------------------------------------
(* The interpreter and machine words.                                      *)

Last == program[trace[Len(trace)].static]

\* After a cmpq the flags are its flags on the registers as they are (i and rg name
\* the instruction and the registers, so that only they change in a step).
CompareInv ==
    \A i, rg : Len(trace) # 0 /\ i = Last /\ rg = regs /\ i.op = "cmpq" =>
        /\ flags = SubtractFlags(i, rg)
        /\ Value(i.src, rg) \in Int /\ Value(i.dst, rg) \in Int

LEMMA StepCompare == BuilderInv /\ CompareInv /\ [Next]_vars => CompareInv'
<1> SUFFICES ASSUME BuilderInv, CompareInv, [Next]_vars PROVE CompareInv'
  OBVIOUS
\* Values and flags depend on nothing but the instruction and the registers given.
<1>0. \A i, rg : /\ SubtractFlags(i, rg)' = SubtractFlags(i, rg)
                 /\ Value(i.src, rg)' = Value(i.src, rg) /\ Value(i.dst, rg)' = Value(i.dst, rg)
  BY DEF SubtractFlags, FlagsOf, Sign, Bit, Word, Value
<1>1. CASE Expand
  <2> DEFINE i == Here
             e == Record(Here, AccessOf(Here))
  <2>1. PICK S : trace \in Seq(S)
    BY DEF BuilderInv, SequenceInv
  <2>2. trace' = Append(trace, e) /\ e.static = pc /\ program' = program
    BY <1>1 DEF Expand, Record, input
  <2>3. Len(trace') = Len(trace) + 1 /\ trace'[Len(trace) + 1] = e
    <3> HIDE DEF e
    <3> QED
      BY <2>1, <2>2, AppendFacts
  <2>4. Last' = i
    BY <2>2, <2>3 DEF Last, Here
  <2> SUFFICES ASSUME i.op = "cmpq"
               PROVE  /\ flags' = SubtractFlags(i, regs')
                      /\ Value(i.src, regs') \in Int /\ Value(i.dst, regs') \in Int
    <3> HIDE DEF e, i
    <3> QED
      BY <2>4, <1>0 DEF CompareInv
  <2>5. UpdateScalarState(i) /\ ~Undefined(i) /\ InstructionIsParsed(i, Len(program)) /\ ValuesInv
    BY <1>1, HereFacts DEF Expand, Running, BuilderInv
  <2> HIDE DEF i, e
  <2>6. regs' = regs /\ flags' = FlagsAfter(i, regs, flags)
    <3>1. ~UpdatesRegister(i)
      BY DEF UpdatesRegister, Move, TwoOperand, OneOperand, Logic, Shift
    <3> QED
      BY <3>1, <2>5 DEF UpdateScalarState
  <2>7. FlagsAfter(i, regs, flags) = SubtractFlags(i, regs)
    BY DEF FlagsAfter, TwoOperand, OneOperand, Logic, Shift
  <2>8. i.src \in Operands(i) /\ i.dst \in Operands(i)
    BY DEF Operands, Move, Compare, TwoOperand, OneOperand, Logic, Shift
  <2>9. Value(i.src, regs) \in Int /\ Value(i.dst, regs) \in Int
    BY <2>5, <2>8, ValueType DEF Undefined, InstructionIsParsed
  <2> QED
    BY <2>6, <2>7, <2>9
<1>2. CASE UNCHANGED <<input, machine, writers, trace>>
  <2>1. trace' = trace /\ regs' = regs /\ flags' = flags /\ program' = program
    BY <1>2 DEF input, machine
  <2>2. Last' = Last
    BY <2>1 DEF Last
  <2> QED
    BY <2>1, <2>2, <1>0 DEF CompareInv
<1> QED
  BY <1>1, <1>2 DEF Next, Raise, RunOffTheEnd, Stopped, vars

LEMMA BranchStep ==
    ASSUME BuilderInv, CompareInv, Expand, NEW k, k = Len(trace), k # 0,
           NEW c, c = program[trace[k].static], c.op = "cmpq", Here.op \in Conditional
    PROVE  (pc' = Here.target) <=>
              (\/ Holds(Here.op, Value(c.dst, regs) % Word, Value(c.src, regs) % Word)
               \/ Here.target = pc + 1)
<1> DEFINE a == Value(c.dst, regs) % Word
           b == Value(c.src, regs) % Word
<1>1. /\ flags = SubtractFlags(c, regs)
      /\ Value(c.src, regs) \in Int /\ Value(c.dst, regs) \in Int
  BY DEF CompareInv, Last
<1>2. a \in 0..(Word - 1) /\ b \in 0..(Word - 1)
  BY <1>1, WordFacts, WordRemainder
<1>3. flags = FlagsOf(a - b, a < b, Sign(a) # Sign(b) /\ Sign(a) # Sign(a - b))
  BY <1>1 DEF SubtractFlags
<1> HIDE DEF a, b
<1>4. BranchTaken(Here.op, flags) <=> Holds(Here.op, a, b)
  BY <1>2, <1>3, BranchIsComparison
<1>5. pc' = IF BranchTaken(Here.op, flags) THEN Here.target ELSE pc + 1
  BY DEF Expand, Branch
<1> QED
  BY <1>4, <1>5 DEF a, b

\* The register that a step changes.
LEMMA WriteStep ==
    ASSUME BuilderInv, Expand, NEW r \in DOMAIN regs'
    PROVE  \/ (r \in DOMAIN regs /\ regs'[r] = regs[r])
           \/ Here.op = "leaq"
           \/ regs'[r] \in 0..(IF Here.dst.low THEN 2^H - 1 ELSE Word - 1)
<1> DEFINE i == Here
<1>1. /\ InstructionIsParsed(i, Len(program)) /\ ~Undefined(i) /\ ValuesInv
      /\ regs' = IF UpdatesRegister(i)
                 THEN [q \in DOMAIN regs \cup {i.dst.reg} |->
                          IF q = i.dst.reg THEN Result(i, regs) ELSE regs[q]]
                 ELSE regs
  BY HereFacts DEF Expand, Running, BuilderInv, UpdateScalarState
<1> HIDE DEF i
<1>2. CASE ~UpdatesRegister(i)
  BY <1>1, <1>2
<1>3. CASE UpdatesRegister(i) /\ r # i.dst.reg
  BY <1>1, <1>3
<1>4. CASE UpdatesRegister(i) /\ r = i.dst.reg
  <2>1. regs'[r] = Result(i, regs)
    BY <1>1, <1>4
  <2>2. \/ Result(i, regs) \in 0..(IF i.dst.low THEN 2^H - 1 ELSE Word - 1)
        \/ i.op = "leaq"
        \/ r \in DOMAIN regs /\ Result(i, regs) = regs[r]
    BY <1>1, <1>4, ResultFacts
  <2> QED
    BY <2>1, <2>2 DEF i
<1> QED
  BY <1>2, <1>3, <1>4

\* A branch after a cmpq goes where the comparison of the words, signed or not,
\* says, and what is stored is a word: for every width of words and every program.
THEOREM InterpreterIsExact == Spec => InterpretsWords
<1>1. Init => CompareInv
  BY DEF Init, CompareInv
<1>2. BuilderInv /\ CompareInv /\ [Next]_vars =>
        [\A k \in {Len(trace)} \ {0} :
           LET c == program[trace[k].static]
           IN  Expand /\ Here.op \in Conditional /\ c.op = "cmpq" /\ pc # Len(program)
               => (pc' = Here.target) <=> (\/ Holds(Here.op, Value(c.dst, regs) % Word,
                                                    Value(c.src, regs) % Word)
                                           \/ Here.target = pc + 1)]_vars
  BY BranchStep
<1>3. BuilderInv /\ [Next]_vars =>
        [\A r \in DOMAIN regs' :
           \/ (r \in DOMAIN regs /\ regs'[r] = regs[r])
           \/ Here.op = "leaq"
           \/ regs'[r] \in 0..(IF Here.dst.low THEN 2^H - 1 ELSE Word - 1)]_vars
  <2> SUFFICES ASSUME BuilderInv, Next, NEW r \in DOMAIN regs'
               PROVE  \/ (r \in DOMAIN regs /\ regs'[r] = regs[r])
                      \/ Here.op = "leaq"
                      \/ regs'[r] \in 0..(IF Here.dst.low THEN 2^H - 1 ELSE Word - 1)
    BY DEF vars
  <2>1. CASE Expand
    BY <2>1, WriteStep
  <2>2. CASE UNCHANGED machine
    BY <2>2 DEF machine
  <2> QED
    BY <2>1, <2>2 DEF Next, Raise, RunOffTheEnd, Stopped, vars
<1> QED
  BY <1>1, <1>2, <1>3, StepCompare, BuilderHolds, PTL
     DEF Spec, InterpretsWords, BranchFollowsComparison, WritesAreWords
=============================================================================
