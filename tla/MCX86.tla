-------------------------------- MODULE MCX86 --------------------------------
(***************************************************************************)
(* Instances of X86FrontEnd with words of six bits: every pair of scalar  *)
(* instructions followed by every branch; every short sequence of loads    *)
(* and stores of different sizes; the copy kernel of the tests.            *)
(***************************************************************************)
EXTENDS X86FrontEnd

MCGeneral == {"rdi", "rsi", "rdx", "rax", "rcx", "r8"}
MCVector == {"zmm0", "zmm1"}

\* Instructions, with what they do not use left empty.
I(op, src, dst) == [op |-> op, src |-> src, dst |-> dst, mem |-> NoMemory,
                    bytes |-> 0, target |-> 1]
J(op, target) == [I(op, NoOperand, NoOperand) EXCEPT !.target = target]
At(base, index, scale, disp) == [base |-> base, index |-> index, scale |-> scale,
                                 disp |-> disp, label |-> None]
Load(mem, bytes) == [I("vmovups", NoOperand, Reg("zmm0")) EXCEPT
                        !.mem = mem, !.bytes = bytes]
Store(mem, bytes) == [I("vmovups", Reg("zmm0"), NoOperand) EXCEPT
                        !.mem = mem, !.bytes = bytes]
Lea(mem, dst) == [I("leaq", NoOperand, Reg(dst)) EXCEPT !.mem = mem]
Constant(label) == [Load([base |-> "rip", index |-> None, scale |-> 1, disp |-> 0,
                          label |-> label], 4) EXCEPT !.op = "vop"]

\* Two values in rax and rcx, an operation on them, a comparison and a branch.
Settings == {<<I("movq", Imm(a), Reg("rax")), I("movq", Imm(b), Reg("rcx"))>> :
                a \in {0, 19, 31, 32}, b \in {-1, 0, 1, 31, 32}}
Operations ==
    {I(op, Reg("rax"), Reg("rcx")) : op \in {"addq", "subq", "andq", "orq", "xorq"}}
    \cup {I(op, Imm(n), Reg("rcx")) : op \in Shift, n \in {0, 1, 3}}
    \cup {I(op, NoOperand, Reg("rcx")) : op \in OneOperand}
    \cup {I(op, Low("rax"), Low("rcx")) : op \in {"movl", "xorl", "movzbl"}}
    \cup {I("movslq", Low("rax"), Reg("rcx")), I("xorl", Low("rcx"), Low("rcx")),
          I("addq", Reg("r8"), Reg("rcx")), I("testq", Reg("rax"), Reg("rcx")),
          Lea(At("rax", "rcx", 2, -1), "r8")}
ScalarPrograms ==
    {s \o <<o, I("cmpq", Reg("rax"), Reg("rcx")), J(b, 1), J("ret", 1)>> :
        s \in Settings, o \in Operations, b \in Conditional}

\* Sequences of accesses of different sizes to two lines and across them.
Places == {At("rsi", None, 1, 0), At("rsi", None, 1, 3), At("rsi", "rcx", 2, 2)}
Access == {Load(p, 4) : p \in Places}
          \cup {Store(p, n) : p \in Places, n \in {1, 4}}
MemoryPrograms ==
    {<<a, b, c, [I("vfmadd", Reg("zmm1"), Reg("zmm0")) EXCEPT !.op = v], d>> :
        a \in Access, b \in Access, c \in Access, v \in {"vfmadd", "vxorps"},
        d \in {Store(At("rsi", None, 1, 2), 4), Load(At("rsi", None, 1, 5), 1)}}

\* Loops, one of which never ends, and constants.
Loops ==
    {<<Constant("a"), Constant("b"), Constant("a"), I("incq", NoOperand, Reg("rax")),
       I("cmpq", Reg("rdx"), Reg("rax")), J(b, 4), J("ret", 1)>> : b \in {"jb", "jmp"}}

\* The copy kernel of the repository's tests: rax counts elements, of four bytes
\* there and of one here.
Copy == <<I("testq", Reg("rdx"), Reg("rdx")), J("je", 8),
          I("xorl", Low("rax"), Low("rax")),
          Load(At("rdi", "rax", 1, 0), 2), Store(At("rsi", "rax", 1, 0), 2),
          I("addq", Imm(2), Reg("rax")), I("cmpq", Reg("rdx"), Reg("rax")),
          J("jb", 4), J("ret", 1)>>

For(programs, counts) == [program : programs, count : counts]
MCJobs == For(ScalarPrograms \cup MemoryPrograms, {2})
          \cup For(Loops \cup {Copy}, {0, 2, 3, 4, 6})

\* The immediate forms of the exclusive or, and a carry kept past an increment.
ImmediateJobs == For(
    {<<I("movq", Imm(5), Reg("rax")), I("xorq", Imm(n), Reg("rax")), J("ret", 1)>> :
        n \in 0..3}, {2})
IncrementJobs == For(
    {<<I("cmpq", Reg("rdx"), Reg("rax")), I(op, NoOperand, Reg("rcx")), J("jb", 1),
       J("ret", 1)>> : op \in {"incq", "decq"}}, {2})

\* The copy kernel moves every element once in each direction, as
\* test_generic_scalar_loop_is_expanded expects of two counts, and no load of the
\* input waits for a store to the output.
CopyMovesCount ==
    program = Copy /\ status = "done" =>
        /\ BytesMoved(trace, "load") = count /\ BytesMoved(trace, "store") = count
        /\ \A k \in DOMAIN trace :
              trace[k].memory.access = "load" =>
                \A j \in Ancestors(trace, k) : trace[j].memory.access # "store"

=============================================================================
