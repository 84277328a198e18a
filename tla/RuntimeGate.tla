---------------------------- MODULE RuntimeGate -----------------------------
(***************************************************************************)
(* gbench-test/scripts/runtime_gate.py: one benchmark is run under         *)
(* /usr/bin/time while the main thread samples the machine once a second   *)
(* and a second thread scans for tasks that compete for the benchmark's    *)
(* core.  A sample that breaks a rule has the benchmark stopped; at the    *)
(* end all samples are judged again.                                       *)
(*                                                                         *)
(* The machine is the environment: between any two steps it may change.    *)
(***************************************************************************)
EXTENDS Integers, Sequences, FiniteSets, FiniteSetsExt

CONSTANTS
    MemTotal,       \* MemTotal, in some unit
    MemLevels,      \* values MemAvailable may take
    HighSamples,    \* consecutive busy samples that end a run (5)
    MaxSamples,     \* bound: samples taken before the run ends
    MaxScans,       \* bound: scans of the competitor thread
    MaxChanges      \* bound: changes of the machine during the run

ASSUME GateAssumption ==
    /\ MemTotal \in Nat /\ MemLevels \subseteq 0..MemTotal /\ MemLevels # {}
    /\ HighSamples \in Nat \ {0} /\ MaxSamples \in Nat \ {0}
    /\ MaxScans \in Nat /\ MaxChanges \in Nat

VARIABLES
    gatePc,         \* where main() is
    machine,        \* what /proc and ps would show now
    changes,        \* how often the machine has changed
    bench,          \* the child of /usr/bin/time
    timer,          \* /usr/bin/time itself, the process main() waits for
    exitCode,       \* formal_exit
    rows,           \* the samples
    scans, rivals,  \* len(competitor_rows), and whether one of them names a task
    monitor,        \* where the competitor thread is
    stop,           \* the event stop_competitor
    reason,         \* early_stop_reason
    signalled       \* the reasons for which the benchmark has been stopped

machineVars == <<machine, changes>>
child == <<bench, timer, exitCode>>
thread == <<scans, rivals, monitor>>
verdict == <<reason, signalled>>
gateVars == <<gatePc, machineVars, child, rows, thread, stop, verdict>>

GateNone == "none"
Quiet == [procs |-> FALSE, busy |-> FALSE, rival |-> FALSE, swapout |-> 0, psi |-> 0,
          avail |-> Max(MemLevels)]
Running == gatePc \notin {"warm", "refused", "evaluate", "passed", "failed"}

-----------------------------------------------------------------------------
\* What the samples say.

\* cpu_nonidle_percent: the first sample has no earlier ticks to compare with.
NonIdle == machine.busy /\ rows # <<>>
GateRow == [machine EXCEPT !.busy = NonIdle]

LowestAvailable(r) == Min({r[i].avail : i \in DOMAIN r})
LongestHighCpuRun(r) ==
    LET run[i \in 0..Len(r)] == IF i = 0 \/ ~r[i].busy THEN 0 ELSE run[i - 1] + 1
    IN  Max({run[i] : i \in 0..Len(r)})
TooLittle(r) == 10 * LowestAvailable(r) < MemTotal
Dropped(r) == 20 * (r[1].avail - LowestAvailable(r)) > MemTotal

\* immediate_violation; the load is judged on the last sample alone.
ImmediateViolation(r, rival) ==
    LET current == r[Len(r)]
    IN  IF current.procs THEN "procs_running"
        ELSE IF current.swapout # r[1].swapout THEN "pswpout"
        ELSE IF current.psi # r[1].psi THEN "psi_full"
        ELSE IF TooLittle(r) THEN "mem_available"
        ELSE IF Dropped(r) THEN "mem_drop"
        ELSE IF LongestHighCpuRun(r) >= HighSamples THEN "nonidle"
        ELSE IF rival THEN "competitor"
        ELSE GateNone

\* The checks of evaluate() that depend on the samples, the scans and the exit.
MutantChecks ==
    LET first == rows[1] last == rows[Len(rows)]
    IN  /\ exitCode = 0 /\ ~last.procs
        /\ last.swapout = first.swapout /\ last.psi = first.psi
        /\ ~TooLittle(rows) /\ ~Dropped(rows)
        /\ LongestHighCpuRun(rows) < HighSamples
        /\ ~rivals
Checks ==
    LET first == rows[1] last == rows[Len(rows)]
    IN  /\ exitCode = 0
        /\ \A i \in DOMAIN rows : ~rows[i].procs
        /\ last.swapout = first.swapout /\ last.psi = first.psi
        /\ ~TooLittle(rows) /\ ~Dropped(rows)
        /\ LongestHighCpuRun(rows) < HighSamples
        /\ ~rivals

-----------------------------------------------------------------------------
GateInit ==
    /\ gatePc = "warm" /\ machine = Quiet /\ changes = 0
    /\ bench = "none" /\ timer = "none" /\ exitCode = 0
    /\ rows = <<>> /\ scans = 0 /\ rivals = FALSE /\ monitor = "none"
    /\ stop = FALSE /\ reason = GateNone /\ signalled = {}

\* The result file exists, or the warm-up run fails: nothing is measured.
Refuse ==
    /\ gatePc = "warm" /\ gatePc' = "refused"
    /\ UNCHANGED <<machineVars, child, rows, thread, stop, verdict>>
\* The warm-up run succeeds; main() starts /usr/bin/time and the thread.
Launch ==
    /\ gatePc = "warm" /\ gatePc' = "sample"
    /\ timer' = "running" /\ bench' = "unforked" /\ monitor' = "check"
    /\ UNCHANGED <<machineVars, exitCode, rows, scans, rivals, stop, verdict>>

\* A sample is taken and judged.
GateSample ==
    /\ gatePc = "sample"
    /\ rows' = Append(rows, GateRow)
    /\ reason' = ImmediateViolation(rows', rivals)
    /\ gatePc' = IF reason' = GateNone THEN "wait" ELSE "kill"
    /\ UNCHANGED <<machineVars, child, thread, stop, signalled>>
\* stop_timed_child: SIGTERM to whatever children /usr/bin/time has.
Kill ==
    /\ gatePc = "kill" /\ gatePc' = "wait"
    /\ signalled' = signalled \cup {reason}
    /\ IF bench = "running" THEN bench' = "exited" /\ exitCode' = 1
       ELSE UNCHANGED <<bench, exitCode>>
    /\ UNCHANGED <<machineVars, timer, rows, thread, stop, reason>>
\* formal.wait: a second is over, or the process has ended.
TimedOut ==
    /\ gatePc = "wait" /\ timer = "running" /\ Len(rows) < MaxSamples
    /\ gatePc' = "sample"
    /\ UNCHANGED <<machineVars, child, rows, thread, stop, verdict>>
Ended ==
    /\ gatePc = "wait" /\ timer = "exited"
    /\ gatePc' = "last"
    /\ UNCHANGED <<machineVars, child, rows, thread, stop, verdict>>
\* The last sample; it is not judged here, and the thread is told to stop.
MutantLastSample ==
    /\ gatePc = "last" /\ gatePc' = "join"
    /\ rows' = Append(rows, GateRow)
    /\ UNCHANGED <<machineVars, child, thread, stop, verdict>>
LastSample ==
    /\ gatePc = "last" /\ gatePc' = "join"
    /\ rows' = Append(rows, GateRow)
    /\ stop' = TRUE
    /\ UNCHANGED <<machineVars, child, thread, verdict>>
Join ==
    /\ gatePc = "join" /\ monitor \in {"ended", "dead"}
    /\ gatePc' = "evaluate"
    /\ UNCHANGED <<machineVars, child, rows, thread, stop, verdict>>
\* evaluate(); rates says whether the checks on faults, CPU share and rates pass,
\* which only the end of the run decides.
Evaluate(rates) ==
    /\ gatePc = "evaluate"
    /\ gatePc' = IF rates /\ Checks THEN "passed" ELSE "failed"
    /\ UNCHANGED <<machineVars, child, rows, thread, stop, verdict>>

Main ==
    \/ Launch \/ GateSample \/ Kill \/ TimedOut \/ Ended \/ LastSample \/ Join
    \/ \E rates \in BOOLEAN : Evaluate(rates)

\* competitor_monitor
MonitorChecks ==
    /\ monitor = "check"
    /\ monitor' = IF stop THEN "ended" ELSE "scan"
    /\ UNCHANGED <<gatePc, machineVars, child, rows, scans, rivals, stop, verdict>>
Scan ==
    /\ monitor = "scan" /\ monitor' = "sleep"
    /\ scans' = scans + 1 /\ rivals' = (rivals \/ machine.rival)
    /\ UNCHANGED <<gatePc, machineVars, child, rows, stop, verdict>>
\* ps fails (check=True) and the exception ends the thread.
ScanFails ==
    /\ monitor = "scan" /\ monitor' = "dead"
    /\ UNCHANGED <<gatePc, machineVars, child, rows, scans, rivals, stop, verdict>>
MonitorWakes ==
    /\ monitor = "sleep" /\ (stop \/ scans < MaxScans)
    /\ monitor' = "check"
    /\ UNCHANGED <<gatePc, machineVars, child, rows, scans, rivals, stop, verdict>>
Monitor == MonitorChecks \/ Scan \/ MonitorWakes

\* /usr/bin/time and the benchmark.
Fork ==
    /\ bench = "unforked" /\ bench' = "running"
    /\ UNCHANGED <<gatePc, machineVars, timer, exitCode, rows, thread, stop, verdict>>
BenchExits(code) ==
    /\ bench = "running" /\ bench' = "exited" /\ exitCode' = code
    /\ UNCHANGED <<gatePc, machineVars, timer, rows, thread, stop, verdict>>
TimerExits ==
    /\ bench = "exited" /\ timer = "running" /\ timer' = "exited"
    /\ UNCHANGED <<gatePc, machineVars, bench, exitCode, rows, thread, stop, verdict>>
Child == Fork \/ (\E code \in {0, 1} : BenchExits(code)) \/ TimerExits

\* The machine changes under the run: load, memory, swapping, another task.
Change ==
    /\ Running /\ changes < MaxChanges /\ changes' = changes + 1
    /\ \/ machine' = [machine EXCEPT !.procs = ~@]
       \/ machine' = [machine EXCEPT !.busy = ~@]
       \/ machine' = [machine EXCEPT !.rival = ~@]
       \/ machine' = [machine EXCEPT !.swapout = @ + 1]
       \/ machine' = [machine EXCEPT !.psi = @ + 1]
       \/ \E level \in MemLevels \ {machine.avail} :
             machine' = [machine EXCEPT !.avail = level]
    /\ UNCHANGED <<gatePc, child, rows, thread, stop, verdict>>

GateStopped == gatePc \in {"refused", "passed", "failed"} /\ UNCHANGED gateVars

GateNext == Refuse \/ Main \/ Monitor \/ ScanFails \/ Child \/ Change \/ GateStopped

GateSpec == GateInit /\ [][GateNext]_gateVars
\* The threads and processes are scheduled, and the benchmark is finite; nothing
\* is assumed of the machine, nor that ps ever fails.
FairSpec == GateSpec /\ WF_gateVars(Main) /\ WF_gateVars(Monitor) /\ WF_gateVars(Child)

-----------------------------------------------------------------------------
Judged == gatePc \in {"passed", "failed"}

\* The processes, the thread and the samples are where main() can have them; a
\* verdict is given only after the benchmark has ended.
GateTypeOK ==
    /\ gatePc \in {"warm", "refused", "sample", "kill", "wait", "last", "join", "evaluate",
               "passed", "failed"}
    /\ bench \in {"none", "unforked", "running", "exited"}
    /\ timer \in {"none", "running", "exited"} /\ exitCode \in {0, 1}
    /\ monitor \in {"none", "check", "scan", "sleep", "dead", "ended"}
    /\ scans \in 0..MaxScans + 1 /\ Len(rows) <= MaxSamples + 1
    /\ Judged => timer = "exited" /\ Len(rows) >= 2

\* A run that passes was clean throughout: no prefix of its samples, the last one
\* (which is never judged when taken) included, breaks a rule, whichever of them
\* has recovered since, and no sample ever had the benchmark stopped.
PassIsClean ==
    gatePc = "passed" =>
        /\ exitCode = 0 /\ signalled = {}
        /\ \A k \in 1..Len(rows) : ImmediateViolation(SubSeq(rows, 1, k), rivals) = GateNone

\* A run that is stopped early is never excused: not if the load is gone at the
\* next sample, nor if the signal found no process, or one that had just ended
\* well.
StoppedRunFails == signalled # {} /\ Judged => gatePc = "failed"

\* Rare bursts do not add up: a run is not stopped for a busy system unless so
\* many consecutive samples were busy.
OnlyConsecutive ==
    reason = "nonidle" =>
        \E i \in 1..Len(rows) : /\ i + HighSamples - 1 <= Len(rows)
                                /\ \A j \in i..(i + HighSamples - 1) : rows[j].busy

\* The verdict is earned: a pass by a clean run, a stop by a run of samples.
VerdictSound == GateTypeOK /\ PassIsClean /\ StoppedRunFails /\ OnlyConsecutive

\* The gate always comes to an end: the competitor thread, alive or dead, never
\* keeps main() from joining it.
Ends == <>(gatePc \in {"refused", "passed", "failed"})

\* The report's "Early stop reason" names why the benchmark was stopped.
ReportNamesStop == Judged /\ signalled # {} => reason # GateNone

\* A run that passes the check no_cpu8_cpu200_competitor was scanned to its end.
PassMeansScanned == gatePc = "passed" => monitor = "ended" /\ scans > 0
=============================================================================
