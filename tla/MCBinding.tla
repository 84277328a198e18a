----------------------------- MODULE MCBinding -----------------------------
(***************************************************************************)
(* Instances of Binding with recipes taken from profiles/xsai.yaml and     *)
(* profiles/amd_zen4.yaml: registers of 128 bits are scaled to 16, so that *)
(* an access of five bytes takes three parts.                              *)
(***************************************************************************)
EXTENDS XsaiExpander

Entry(id, kind, needs, part) == [id |-> id, kind |-> kind, needs |-> needs, part |-> part]
Agu == Entry("agu", "address_generation", {}, NoPart)

MCRecipes == [
    vsetvli |-> [parts |-> 0, decoded |-> 2,
                 uops |-> <<Entry("configure", "vector_control", {}, NoPart)>>],
    vle     |-> [parts |-> 0, decoded |-> 2,
                 uops |-> <<Agu, Entry("load", "load_data", {"agu"}, NoPart)>>],
    vse     |-> [parts |-> 0, decoded |-> 2,
                 uops |-> <<Agu, Entry("store", "store_data", {"agu"}, NoPart)>>],
    vfadd   |-> [parts |-> 0, decoded |-> 1,
                 uops |-> <<Entry("execute", "vector_fp", {}, NoPart)>>],
    vfred   |-> [parts |-> 0, decoded |-> 3,
                 uops |-> <<Entry("execute", "vector_fp", {}, NoPart)>>],
    zmmload |-> [parts |-> 2, decoded |-> 1,
                 uops |-> <<Agu, Entry("load", "load_data", {"agu"}, NoPart),
                            Entry("add-part-0", "vector_fp", {"load"}, 0),
                            Entry("add-part-1", "vector_fp", {"load"}, 1)>>],
    flw |-> [parts |-> 0, decoded |-> 1,
                 uops |-> <<Entry("load", "load_data", {}, NoPart)>>],
    zmm |-> [parts |-> 2, decoded |-> 1,
                 uops |-> <<Entry("add-part-0", "vector_fp", {}, 0),
                            Entry("add-part-1", "vector_fp", {}, 1)>>],
    ambiguous |-> [parts |-> 0, decoded |-> 1,
                 uops |-> <<Entry("execute", "vector_integer", {}, NoPart)>>]]

Prep(class) == [id |-> "prep", kind |-> IF class = "fp" THEN "vector_fp" ELSE "vector_integer"]
NoPrep == [x \in {} |-> {}]
MCRules == ("vector-vector" :> [by |-> "lmul", prep |-> NoPrep]) @@
    ("vector-scalar" :> [by |-> "lmul", prep |-> [register |-> Prep("int"), fp_register |-> Prep("fp")]]) @@
    ("vector-config" :> [by |-> "count", count |-> 1, prep |-> NoPrep]) @@
    ("vector-reduction" :> [by |-> "count", count |-> 1, prep |-> NoPrep]) @@
    ("vector-memory" :> [by |-> "dynamic", prep |-> [default |-> Prep("int")]])

MCNoRules == [x \in {} |-> {}]

Form(key, kinds, reads, writes) ==
    [keys |-> <<key>>, kinds |-> kinds, reads |-> reads, writes |-> writes,
     address |-> {}, flags |-> FALSE, memory |-> FALSE, bytes |-> 0,
     lmul |-> 0, active |-> 0, sources |-> <<>>, marks |-> TRUE]
Access(f, bytes) == [f EXCEPT !.memory = TRUE, !.bytes = bytes, !.address = {"a0"}]
Under(f, lmul, active) == [f EXCEPT !.lmul = lmul, !.active = active]
Source(class, register) == [class |-> class, register |-> register]

Vset(lmul) == Under(Form("vsetvli", <<"vector_config">>, {"a0"}, {"a0", "vl"}), lmul, 16 * lmul)
Vle(bytes, lmul) == Under(Access(Form("vle", <<"address_generation", "vector_load">>,
                              {"a0", "vl"}, {"v0"}), bytes), lmul, 8 * bytes)
Vse(bytes, lmul) == Under(Access(Form("vse", <<"address_generation", "vector_store">>,
                              {"a0", "v1", "vl"}, {}), bytes), lmul, 8 * bytes)
Vfadd(lmul) == Under(Form("vfadd", <<"vector_fp_add">>, {"v0", "vl"}, {"v1"}), lmul, 16 * lmul)
VfaddScalar(lmul) ==
    [Under(Form("vfadd", <<"vector_fp_add">>, {"v0", "a0", "vl"}, {"v1"}), lmul, 16 * lmul)
        EXCEPT !.sources = <<Source("vector", "v0"), Source("register", "a0")>>]
VfaddImmediate == [VfaddScalar(2) EXCEPT !.sources = <<Source("immediate", "a0")>>,
                                         !.reads = {"v0", "vl"}]
Vfred(lmul) == Under(Form("vfred", <<"vector_reduce_add">>, {"v0", "v1", "vl"}, {"v0"}), lmul, 16 * lmul)
Zmm == [Access(Form("zmmload", <<"address_generation", "vector_load", "vector_fp_add">>,
               {"a0", "v0"}, {"v1"}), 4) EXCEPT !.marks = FALSE]
Flw == Access(Form("flw", <<"scalar_load">>, {"a0"}, {"a0"}), 2)
AddI == Form("addi", <<"scalar_alu">>, {"a0"}, {"a0", "flags"})
Branch == [Form("bne", <<"branch">>, {}, {}) EXCEPT !.flags = TRUE]
Unknown == Form("vrgather", <<"vector_shuffle">>, {"v0"}, {"v1"})
Ambiguous == Form("ambiguous", <<"vector_shift", "vector_integer">>, {"v0"}, {"v1"})

MCForms == {Vset(2), Vle(5, 4), Vle(4, 2), Vle(0, 2), Vse(5, 4), Vse(2, 2), Vfadd(2), Vfadd(4),
            VfaddScalar(2), VfaddImmediate, Vfred(1), Flw, AddI, Branch, Unknown, Ambiguous}

\* Zen 4: no rules of the back end, static parts, no marked destinations.
ZmmReg == [Form("zmm", <<"vector_fp_add">>, {"v0", "v1"}, {"v1"}) EXCEPT !.marks = FALSE]
ZmmStore == [Access(Form("vse", <<"address_generation", "vector_store">>,
                    {"a0", "v1"}, {}), 4) EXCEPT !.marks = FALSE]
MCZenForms == {Zmm, ZmmReg, ZmmStore, AddI, Branch}

\* vle32.v under SEW 64: the access moves half of the active bits.
Narrow == [Vle(4, 2) EXCEPT !.active = 64]
MCWidthForms == {Vset(2), Vle(4, 2), Vfadd(2), Narrow}
MCReductionForms == {Vset(2), Vle(4, 2), Vfadd(2), Vfred(2)}

WaitKinds == {"load_data", "store_data", "vector_fp", "vector_integer"}
Xsai(forms) ==
    [forms |-> forms, length |-> 3, fitKinds |-> {"scalar_alu", "branch"}, rules |-> MCRules,
     stateKinds |-> WaitKinds, oldKinds |-> WaitKinds, implicitKinds |-> {"vector_fp"}]
Zen4 == [forms |-> MCZenForms, length |-> 4, fitKinds |-> {"scalar_alu", "branch"},
         rules |-> MCNoRules, stateKinds |-> {}, oldKinds |-> {}, implicitKinds |-> {}]
MCProfiles == {Xsai(MCForms), Zen4}
WidthProfiles == {Xsai(MCWidthForms)}
ReductionProfiles == {Xsai(MCReductionForms)}

=============================================================================
