------------------------------ MODULE RtlResults ------------------------------
(***************************************************************************)
(* The RTL measurements and their use (softmax_sim_avx512/xsai/scripts).   *)
(* run_rtl.sh lets the emulator write a log, checks it (check_rtl_log.py), *)
(* turns it into tables (parse_results.py) and records the versions and    *)
(* the hashes of what it wrote (refresh_run_metadata.py), all in one       *)
(* directory that the next run overwrites file by file.  run_alignment.py  *)
(* reads two of the tables and compares them with the simulator.  Either   *)
(* may be killed at any point, the two may overlap, and the benchmark may  *)
(* be rebuilt meanwhile; two runs of the same script do not overlap.       *)
(*                                                                         *)
(* What a run writes is told by the number of the run, and a hash is the   *)
(* content it is the hash of.                                              *)
(***************************************************************************)
EXTENDS Integers, Sequences, FiniteSets, SequencesExt

CONSTANTS
    Point,      \* pairs of a kernel and an N
    RtlSample,     \* samples of each point
    Logs,       \* what the emulator may print
    MaxRuns,    \* bound: runs of run_rtl.sh
    MaxBuilds   \* bound: builds of the benchmark after the first

\* A log: the emulator's exit, the acceptance markers, XSAI_DONE status=PASS,
\* the matrix of results, the microbenchmarks, the counters, and which samples
\* of a point the counters call clean.
LogType(l) ==
    /\ {l.exits, l.markers, l.done, l.matrix, l.hpm} \subseteq BOOLEAN
    /\ l.params \in {"valid", "invalid", "none"}
    /\ l.clean \in [Point -> SUBSET RtlSample]
ASSUME BoundAssumption == MaxRuns \in Nat /\ MaxBuilds \in Nat
ASSUME SampleAssumption == RtlSample # {} /\ IsFiniteSet(RtlSample)
ASSUME LogAssumption == \A l \in Logs : LogType(l)

VARIABLES
    rtlPc, rtlAt,  \* where run_rtl.sh is; the table parse_results writes next
    logs,          \* the logs printed so far, by run
    loaded,        \* the build each run's emulator loaded
    build,         \* the build in artifacts/xsai/build
    disk,          \* the results directory
    hashed,        \* what refresh_run_metadata.py is about to move into place
    align,         \* where run_alignment.py is
    read,          \* the tables it has read
    alignment      \* alignment.json

run == <<rtlPc, rtlAt, logs, loaded>>
consumer == <<align, read, alignment>>
rtlVars == <<run, build, disk, hashed, consumer>>

-----------------------------------------------------------------------------
Missing == 0
Partial(r) == [run |-> r, whole |-> FALSE]
Whole(r) == [run |-> r, whole |-> TRUE]
RtlAbsent == [run |-> Missing, whole |-> FALSE]
NoHashes == <<>>

Tables == <<"samples", "summary", "result_metadata", "profile_samples", "profile_summary">>
File == {"log", "metadata"} \cup ToSet(Tables)
Run == 1..Len(logs)
Current == Len(logs)
Log == logs[Current]

\* check_rtl_log.py, and the three validators of parse_results.py.
Marked(l) == l.markers
RtlValid(l) == l.done /\ l.matrix /\ l.params # "invalid" /\ l.hpm

\* write_results, and write_parameter_results if there are microbenchmarks.
Written(l) == IF l.params = "none" THEN 3 ELSE Len(Tables)

\* A row of summary.csv: the samples whose median it holds, and its status.
MutantRow(l, p) ==
    [used |-> RtlSample, clean |-> Cardinality(l.clean[p]), valid |-> l.clean[p] # {}]
RtlRow(l, p) ==
    [used |-> IF l.clean[p] = {} THEN RtlSample ELSE l.clean[p],
     clean |-> Cardinality(l.clean[p]), valid |-> l.clean[p] # {}]

\* RESULT_ARTIFACTS.
MutantArtifacts == {"summary", "profile_summary", "result_metadata"}
Artifacts == {"log", "summary", "profile_summary", "result_metadata"}

-----------------------------------------------------------------------------
(* run_rtl.sh. *)

\* tee truncates the log of the run before.
Start(l) ==
    /\ rtlPc = "idle" /\ Current < MaxRuns
    /\ rtlPc' = "emulate" /\ logs' = Append(logs, l) /\ loaded' = Append(loaded, build)
    /\ disk' = [disk EXCEPT !["log"] = Partial(Current + 1)]
    /\ UNCHANGED <<rtlAt, build, hashed, consumer>>
\* The emulator ends, by itself or at the timeout.
Emulated ==
    /\ rtlPc = "emulate"
    /\ disk' = [disk EXCEPT !["log"] = Whole(Current)]
    /\ rtlPc' = IF Log.exits THEN "check" ELSE "idle"
    /\ UNCHANGED <<rtlAt, logs, loaded, build, hashed, consumer>>
CheckLog ==
    /\ rtlPc = "check"
    /\ rtlPc' = IF Marked(Log) THEN "parse" ELSE "idle"
    /\ UNCHANGED <<rtlAt, logs, loaded, build, disk, hashed, consumer>>
Parse ==
    /\ rtlPc = "parse"
    /\ rtlPc' = (IF RtlValid(Log) THEN "open" ELSE "idle") /\ rtlAt' = 1
    /\ UNCHANGED <<logs, loaded, build, disk, hashed, consumer>>
OpenTable ==
    /\ rtlPc = "open" /\ rtlAt <= Written(Log)
    /\ disk' = [disk EXCEPT ![Tables[rtlAt]] = Partial(Current)]
    /\ rtlPc' = "write"
    /\ UNCHANGED <<rtlAt, logs, loaded, build, hashed, consumer>>
WriteTable ==
    /\ rtlPc = "write"
    /\ disk' = [disk EXCEPT ![Tables[rtlAt]] = Whole(Current)]
    /\ rtlPc' = "open" /\ rtlAt' = rtlAt + 1
    /\ UNCHANGED <<logs, loaded, build, hashed, consumer>>
\* write_external_versions starts run_metadata.txt anew.
WriteVersions ==
    /\ rtlPc = "open" /\ rtlAt > Written(Log)
    /\ disk' = [disk EXCEPT !["metadata"] = [run |-> Current, hashes |-> NoHashes]]
    /\ rtlPc' = "refresh"
    /\ UNCHANGED <<rtlAt, logs, loaded, build, hashed, consumer>>
\* refreshed_metadata: all result artifacts must be there.
Refresh ==
    /\ rtlPc = "refresh"
    /\ IF \E f \in Artifacts : disk[f] = RtlAbsent
       THEN rtlPc' = "idle" /\ UNCHANGED hashed
       ELSE /\ rtlPc' = "replace"
            /\ hashed' = [build |-> build, files |-> [f \in Artifacts |-> disk[f]]]
    /\ UNCHANGED <<rtlAt, logs, loaded, build, disk, consumer>>
\* os.replace.  Then finish_external_guard looks at the external trees and may
\* refuse the run; it writes nothing, so the hashes of such a run stay in place,
\* and what they certify is the log, not the exit status of run_rtl.sh.
Replace ==
    /\ rtlPc = "replace"
    /\ disk' = [disk EXCEPT !["metadata"] = [run |-> Current, hashes |-> hashed]]
    /\ rtlPc' = "idle" /\ hashed' = NoHashes
    /\ UNCHANGED <<rtlAt, logs, loaded, build, consumer>>
\* Killed, or an exception (a median of no cycles, a full disk).
Crash ==
    /\ rtlPc # "idle" /\ rtlPc' = "idle" /\ hashed' = NoHashes
    /\ UNCHANGED <<rtlAt, logs, loaded, build, disk, consumer>>

\* build_baremetal.sh.
Rebuild ==
    /\ build < MaxBuilds /\ build' = build + 1
    /\ UNCHANGED <<run, disk, hashed, consumer>>

-----------------------------------------------------------------------------
(* run_alignment.py. *)

\* read_rtl_summary refuses a table that is not there or lacks a row or a number
\* of one.  It takes a table cut behind the last row's max_cycles: what is lost are
\* the cycles per element and the status, and the count of clean samples stands
\* before them.
SummaryRefused == align = "idle" /\ ~disk["summary"].whole /\ UNCHANGED rtlVars
ReadSummary ==
    /\ align = "idle" /\ disk["summary"] # RtlAbsent
    /\ align' = "profile" /\ read' = [read EXCEPT !.summary = disk["summary"]]
    /\ UNCHANGED <<run, build, disk, hashed, alignment>>
\* read_profile_summary takes what rows there are.
ReadProfile ==
    /\ align = "profile"
    /\ align' = "simulate" /\ read' = [read EXCEPT !.profile = disk["profile_summary"]]
    /\ UNCHANGED <<run, build, disk, hashed, alignment>>
\* classify_cache, for a row that parse_results wrote.  A row that was cut has a
\* status that is empty or no known one, and its clean samples decide alone.
Eligible(row) == row.valid /\ row.clean > 0
Records(r) == [p \in Point |-> [used |-> RtlRow(logs[r], p).used, fit |-> Eligible(RtlRow(logs[r], p))]]
\* write_outputs, when the simulations are through: the files are hashed now.
WriteAlignment ==
    /\ align = "simulate"
    /\ alignment' = [run |-> read.summary.run, records |-> Records(read.summary.run),
                     summaryHash |-> disk["summary"], evidence |-> read.profile]
    /\ align' = "idle" /\ read' = [summary |-> RtlAbsent, profile |-> RtlAbsent]
    /\ UNCHANGED <<run, build, disk, hashed>>
\* A simulation fails, the profile is not ready, or the script is killed.
AlignmentEnds ==
    /\ align # "idle" /\ align' = "idle" /\ read' = [summary |-> RtlAbsent, profile |-> RtlAbsent]
    /\ UNCHANGED <<run, build, disk, hashed, alignment>>

-----------------------------------------------------------------------------
NoAlignment == [run |-> Missing]
RtlInit ==
    /\ rtlPc = "idle" /\ rtlAt = 1 /\ logs = <<>> /\ loaded = <<>>
    /\ build = 0 /\ hashed = NoHashes
    /\ disk = [f \in File |-> IF f = "metadata" THEN [run |-> Missing, hashes |-> NoHashes]
                              ELSE RtlAbsent]
    /\ align = "idle" /\ read = [summary |-> RtlAbsent, profile |-> RtlAbsent]
    /\ alignment = NoAlignment
RtlNext ==
    \/ \E l \in Logs : Start(l)
    \/ Emulated \/ CheckLog \/ Parse \/ OpenTable \/ WriteTable \/ WriteVersions
    \/ Refresh \/ Replace \/ Crash \/ Rebuild
    \/ SummaryRefused \/ ReadSummary \/ ReadProfile \/ WriteAlignment \/ AlignmentEnds
RtlSpec == RtlInit /\ [][RtlNext]_rtlVars

-----------------------------------------------------------------------------
(* Properties. *)

RtlTypeOK ==
    /\ rtlPc \in {"idle", "emulate", "check", "parse", "open", "write", "refresh", "replace"}
    /\ rtlAt \in 1..(Len(Tables) + 1) /\ build \in 0..MaxBuilds
    /\ Len(logs) = Len(loaded) /\ Len(logs) <= MaxRuns
    /\ \A f \in File : disk[f].run \in 0..Current
    /\ rtlPc = "write" => rtlAt <= Written(Log)
    /\ align \in {"idle", "profile", "simulate"}

\* What docs/xsai_sim.md requires of a run.
Accepted(l) == l.exits /\ l.markers /\ l.done /\ l.matrix /\ l.params # "invalid" /\ l.hpm

\* Whatever was killed in between: if the hashes of run_metadata.txt are those
\* of the files, then the files are whole, of one run, and that run was accepted.
\* The one exception is a log without microbenchmarks: parse_results.py leaves
\* the profile_summary.csv of an older run, which is hashed with the others.
HashesCertifyOneRun ==
    LET metadata == disk["metadata"] IN
    metadata.hashes # NoHashes
    /\ (\A f \in DOMAIN metadata.hashes.files : metadata.hashes.files[f] = disk[f]) =>
        /\ Accepted(logs[metadata.run])
        /\ \A f \in {"log", "summary", "profile_summary", "result_metadata"} :
              f # "profile_summary" \/ logs[metadata.run].params # "none"
              => disk[f] = Whole(metadata.run)

\* What is compared with the simulator comes from an accepted run with all its
\* points, and a point enters the fit exactly when it has clean samples and its
\* median is that of the clean ones.
FitUsesCleanRuns ==
    alignment # NoAlignment =>
        /\ Accepted(logs[alignment.run])
        /\ \A p \in Point :
              LET clean == logs[alignment.run].clean[p] IN
              /\ alignment.records[p].fit <=> clean # {}
              /\ alignment.records[p].fit => alignment.records[p].used = clean

\* A table, even one that is being written, stems from an accepted log.
TablesFromAccepted ==
    \A f \in ToSet(Tables) : disk[f] # RtlAbsent => Accepted(logs[disk[f].run])

\* At no moment does the directory claim more than was measured.
FilesCertified == RtlTypeOK /\ HashesCertifyOneRun /\ TablesFromAccepted

\* docs/simulator_xsai.md: every report is bound to the RTL data it is about.
ReportBindsRead ==
    alignment # NoAlignment => alignment.summaryHash = Whole(alignment.run)

\* ... and to the program that was measured.
HashNamesBinary ==
    LET metadata == disk["metadata"] IN
    metadata.hashes # NoHashes => metadata.hashes.build = loaded[metadata.run]

=============================================================================
