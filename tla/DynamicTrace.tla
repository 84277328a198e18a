---------------------------- MODULE DynamicTrace ----------------------------
(***************************************************************************)
(* What the two ISA front ends (frontends/x86.py and frontends/rvv.py)     *)
(* have in common: the cache lines of an access, and what it means for the *)
(* dependencies of a dynamic trace to be complete.  A trace is a sequence  *)
(* of entries [reads, writes, memory, dependsOn, ...]; memory is NoAccess  *)
(* or [access, address, region, bytes, lines].                             *)
(***************************************************************************)
EXTENDS Integers, Sequences, FiniteSetsExt

CONSTANT LineBytes      \* bytes of a cache line (64)

None == "none"
NoAccess == [access |-> None]

\* Operands of an instruction: an immediate, a register, or nothing.
Imm(n) == [kind |-> "imm", value |-> n]
NoOperand == [kind |-> None]

\* The lines from the first byte of an access to the last.
LinesOf(address, bytes) ==
    address \div LineBytes .. (address + bytes - 1) \div LineBytes

\* last_store_by_line after entry id has been recorded.
StoresAfter(lastStore, a, id) ==
    IF a.access # "store" THEN lastStore
    ELSE [l \in DOMAIN lastStore \cup a.lines |->
            IF l \in a.lines THEN id ELSE lastStore[l]]

\* The statistics: bytes moved to or from the two buffers.
BytesMoved(trace, access) ==
    MapThenSumSet(LAMBDA k : trace[k].memory.bytes,
                  {k \in DOMAIN trace :
                     /\ trace[k].memory.access = access
                     /\ trace[k].memory.region \in {"input", "output"}})

-----------------------------------------------------------------------------
(* Reference definitions, over the whole trace. *)

\* The largest member of S, if there is one.
LatestOf(S) == {j \in S : \A l \in S : l <= j}

\* The last entry before k that writes register r.
LastWriter(trace, k, r) == LatestOf({j \in 1..(k - 1) : r \in trace[j].writes})

\* What an entry depends on, directly or not.
Ancestors(trace, k) ==
    LET up[n \in 0..Len(trace)] ==
          IF n = 0 THEN {k}
          ELSE LET below == up[n - 1]
               IN  below \cup UNION {trace[j].dependsOn : j \in below}
    IN  up[Len(trace)] \ {k}

\* Two accesses share a byte.
Overlap(a, b) ==
    /\ a # NoAccess /\ b # NoAccess /\ a.bytes > 0 /\ b.bytes > 0
    /\ a.address < b.address + b.bytes /\ b.address < a.address + a.bytes

AllBackward(trace) == \A k \in DOMAIN trace : trace[k].dependsOn \subseteq 1..(k - 1)

FollowStores(trace) ==
    \A k \in DOMAIN trace : \A j \in 1..(k - 1) :
        trace[j].memory.access = "store" /\ Overlap(trace[j].memory, trace[k].memory)
            => j \in Ancestors(trace, k)

\* Entry k depends on the last writers of its registers, on the entries in
\* others, on stores that share a line with it, and on nothing else.
OnLastWriters(trace, k, others) ==
    LET e == trace[k]
        raw == (UNION {LastWriter(trace, k, r) : r \in e.reads}) \cup others
    IN  /\ raw \subseteq e.dependsOn
        /\ \A j \in e.dependsOn \ raw :
              /\ trace[j].memory.access = "store" /\ e.memory # NoAccess
              /\ trace[j].memory.lines \cap e.memory.lines # {}

=============================================================================
