-------------------------------- MODULE MCRvv --------------------------------
(***************************************************************************)
(* Instances of RvvFrontEnd with a file of five vector registers and       *)
(* elements of two bytes: the strip-mined copy kernel for every count,     *)
(* grouping and VLEN, and sequences that change the grouping under way.    *)
(***************************************************************************)
EXTENDS RvvFrontEnd

MCScalar == {"a0", "a1", "a2", "sp", "ra", "t0", "t1", "f0"}
MCVector == <<"v0", "v1", "v2", "v3", "v4">>
Sew == 8 * ElementBytes

I(op, dst, src) == [op |-> op, dst |-> dst, src |-> src, mem |-> NoMemory,
                    sew |-> 0, lmul |-> 0, target |-> 1]
At(base, disp) == [base |-> base, disp |-> disp, label |-> None]
Label(l) == [base |-> Zero, disp |-> 0, label |-> l]
Load(op, dst, mem) == [I(op, Reg(dst), <<>>) EXCEPT !.mem = mem]
Store(op, src, mem) == [I(op, NoOperand, <<Reg(src)>>) EXCEPT !.mem = mem]
Vset(dst, src, sew, lmul) == [I("vsetvli", Reg(dst), <<Reg(src)>>) EXCEPT
                                !.sew = sew, !.lmul = lmul]
Jump(op, src, target) == [I(op, NoOperand, src) EXCEPT !.target = target]
Add(dst, left, right) == I("add", Reg(dst), <<Reg(left), right>>)
Ret == I("ret", NoOperand, <<>>)

\* y := x, VL elements at a time.
Strip(lmul) ==
    <<Vset("t0", "a2", Sew, lmul),
      Load("vle32", "v0", At("a0", 0)), Store("vse32", "v0", At("a1", 0)),
      I("slli", Reg("t1"), <<Reg("t0"), Imm(1)>>),
      Add("a0", "a0", Reg("t1")), Add("a1", "a1", Reg("t1")),
      I("sub", Reg("a2"), <<Reg("a2"), Reg("t0")>>),
      Jump("bgtu", <<Reg("a2"), Reg(Zero)>>, 1), Ret>>
StripJobs == [program : {Strip(l) : l \in {4, 8, 16, 32}}, count : 0..9, vlen : {12, 16, 32}]

\* Steps under a grouping that changes; the last vsetvli keeps SEW/LMUL.
Steps == {Vset("t0", Zero, Sew, 8), Vset("t0", "a2", Sew, 16),
          Load("vle32", "v0", At("a1", 1)), Load("vle32", "v1", At("a1", 4)),
          Store("vse32", "v0", At("a1", 0)), Store("vse32", "v1", At("a1", 5)),
          Store("fsw", "f0", At("a1", 3)),
          I("vop", Reg("v1"), <<Reg("v3"), Reg("f0")>>),
          I("vfmacc", Reg("v0"), <<Reg("v1"), Reg("v4")>>)}
GroupJobs ==
    [program : {<<first, a, b, c, d>> :
                    first \in {Vset("t0", Zero, Sew, 8), Vset("t0", "a2", Sew, 16)},
                    a \in Steps, b \in Steps, c \in Steps,
                    d \in {Vset("t0", "a2", Sew, 16), Store("vse32", "v1", At("a1", 2)),
                           I("vfmacc", Reg("v0"), <<Reg("v2"), Reg("v0")>>)}},
     count : {3}, vlen : {32}]

\* Scalar steps: constants, the stack, and the branches that are not in a loop.
ScalarJobs ==
    [program : {<<Load("lui", "t1", Label("x")), Load("flw", "f0", Label("x")),
                  Load("flw", "f0", Label("y")), I("li", Reg("t1"), <<Imm(-3)>>),
                  Add("sp", "sp", Imm(-4)), Store("sd", "a2", At("sp", 0)),
                  Load("ld", "t0", At("sp", 0)), I("fop", Reg("f0"), <<Reg("f0")>>),
                  Jump(op, <<Reg("t0"), Imm(n)>>, t), Jump("j", <<>>, 12),
                  Load("ld", "a2", At("t1", 9)), I("jr", NoOperand, <<Reg("ra")>>)>> :
                    op \in {"beq", "bgeu", "bgtu", "bltu"}, n \in 2..4, t \in {2, 11, 12}},
     count : {3}, vlen : {32}]
    \cup [program : {<<Load("vle32", "v0", At("a0", 0))>>,
                     <<Vset(Zero, Zero, Sew, 8)>>,
                     <<I("lui", Reg("t0"), <<Imm(3)>>), Ret>>}, count : {3}, vlen : {32}]

\* The second vsetvli keeps VL.
Keeping(sew, lmul) ==
    <<Vset("t0", "a2", Sew, 16), Vset(Zero, Zero, sew, lmul),
      Load("vle32", "v0", At("a0", 0)), Ret>>
KeepJobs == [program : {Keeping(Sew \div 2, 8)}, count : {1, 3}, vlen : {32}]

MCJobs == StripJobs \cup GroupJobs \cup ScalarJobs \cup KeepJobs
          \cup [program : {Keeping(Sew, 8)}, count : {3}, vlen : {32}]

\* The elements an access of the trace covers.
Elements(k, base) ==
    {e \in 0..(job.count - 1) :
        trace[k].memory.address <= base + ElementBytes * e
        /\ base + ElementBytes * e < trace[k].memory.address + trace[k].memory.bytes}

\* Strip mining by VL moves every element once, in each direction, for every
\* count, grouping and VLEN that holds an element at all.
StripMovesEveryElement ==
    job \in StripJobs /\ status = "done" =>
        /\ BytesMoved(trace, "load") = job.count * ElementBytes
        /\ BytesMoved(trace, "store") = job.count * ElementBytes
        /\ \A e \in 0..(job.count - 1), a \in {<<"load", InputBase>>, <<"store", OutputBase>>} :
              \E k \in DOMAIN trace : trace[k].memory.access = a[1] /\ e \in Elements(k, a[2])

=============================================================================
