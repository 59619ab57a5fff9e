-------------------------- MODULE MemoryThroughput --------------------------
(***************************************************************************)
(* The memory throughput benchmark, memory_throughput_test.c, with the PMU *)
(* driver of the Zephyr port: thread 0 measures every memcpy, thread 1 of  *)
(* the same priority reports.  The copied bytes are left out.              *)
(***************************************************************************)
EXTENDS TmThreads, PmuDriver

CONSTANTS
    IterationCount,        \* ITERATION_COUNT, the length of the name array
    ThroughputIterations,  \* THROUGHPUT_ITERATIONS
    CopyTime               \* what a counter may count in a memcpy

\* What the benchmark is built with.
Configuration ==
    /\ Port = "Zephyr"
    /\ {0, 1} \subseteq Thread
    /\ IterationCount \in 1 .. MaxLogEntries
    /\ ThroughputIterations \in Nat /\ ThroughputIterations >= IterationCount
    /\ CopyTime \subseteq Word

VARIABLES
    calls,  \* calls of the initialisation made so far
    pc,     \* pc[t]: the statement task t executes next
    i       \* the worker's loop index

vars == <<kernel, driver, calls, pc, i>>

Label == {"initialize", "done", "start", "copy", "end", "sleep", "report"}

Goto(t, label) == pc' = [pc EXCEPT ![t] = label]
At(t, label) == Runs(t) /\ pc[t] = label

Init ==
    /\ KernelInit /\ DriverInit
    /\ calls = 0
    /\ pc = [t \in Task |-> CASE t = Main -> "initialize" [] t = 0 -> "start"
                              [] OTHER -> "sleep"]
    /\ i = 0

Initialize ==
    /\ At(Main, "initialize")
    /\ calls' = calls + 1
    /\ \/ calls = 0 /\ tm_setup_pmu /\ UNCHANGED kernel
       \/ \E t \in {0, 1} : \/ calls = 2 * t + 1 /\ tm_thread_create(t, 10)
                            \/ calls = 2 * t + 2 /\ tm_thread_resume(t)
          /\ UNCHANGED driver
       \/ calls = 5 /\ Return(Main) /\ UNCHANGED driver
    /\ Goto(Main, IF calls = 5 THEN "done" ELSE "initialize")
    /\ UNCHANGED i

\* The loop runs past the names: what is there may read like the first or none.
NamesAt(n) == IF n < IterationCount THEN {n} ELSE {0, IterationCount}

WorkerStart ==
    /\ At(0, "start") /\ Goto(0, "copy")
    /\ \E name \in NamesAt(i) : Start(name)
    /\ UNCHANGED <<kernel, calls, i>>

WorkerCopy ==
    /\ At(0, "copy") /\ Goto(0, "end")
    /\ \E d \in [Counter -> CopyTime] : Elapse(d)
    /\ UNCHANGED <<kernel, calls, i>>

WorkerEnd ==
    /\ At(0, "end")
    /\ \E name \in NamesAt(i) : End(name)
    /\ i' = (i + 1) % ThroughputIterations
    /\ Goto(0, IF i' = 0 THEN "sleep" ELSE "start")
    /\ UNCHANGED <<kernel, calls>>

Sleep(t, next) ==
    /\ At(t, "sleep") /\ Goto(t, next)
    /\ tm_thread_sleep(t)
    /\ UNCHANGED <<driver, calls, i>>

Report ==
    /\ At(1, "report") /\ Goto(1, "sleep")
    /\ UNCHANGED <<kernel, driver, calls, i>>

Wake == (\E t \in {0, 1} : TickWakes(t)) /\ UNCHANGED <<driver, calls, pc, i>>

WorkerStep == WorkerStart \/ WorkerCopy \/ WorkerEnd \/ Sleep(0, "start")
ReporterStep == Report \/ Sleep(1, "report")

TaskStep == Initialize \/ WorkerStep \/ ReporterStep

Next == TaskStep \/ Wake

Spec == Init /\ [][Next]_vars

-----------------------------------------------------------------------------

TypeOK ==
    /\ KernelTypeOK /\ DriverTypeOK
    /\ calls \in 0 .. 6
    /\ pc \in [Task -> Label]
    /\ i \in 0 .. ThroughputIterations - 1

(***************************************************************************)
(* The report prints, under each name, the memcpy of that number from the  *)
(* first run, although the indices run past the array of names             *)
(* (memory_throughput_test.c:81-87) and the log is full before the end of  *)
(* a run; a run is never reported before it is complete.                   *)
(***************************************************************************)
FirstRunReported ==
    pc[1] = "report" /\ Runs(1) =>
        \A n \in 0 .. IterationCount - 1 :
            Found(n) # {} /\ Printed(n) = n /\ point[n].ended = n
=============================================================================
