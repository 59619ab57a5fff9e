--------------------------- MODULE ContextSwitch ----------------------------
(***************************************************************************)
(* The context switching benchmark, context_switching_test.c, on the       *)
(* Zephyr port: two threads of one priority relinquish to each other.  The *)
(* first starts a measurement before the switch, the second ends it after  *)
(* the switch.                                                             *)
(***************************************************************************)
EXTENDS TmThreads, PmuLog, UnsignedLong

CONSTANT IterationCount  \* ITERATION_COUNT

\* What the benchmark is built with.
Configuration ==
    /\ IterationCount \in 1 .. MaxWord /\ IterationCount <= MaxLogEntries
    /\ Thread = 1 .. 3

High == 1
Low == 2
Reporter == 3

VARIABLES
    calls,             \* calls of the initialisation made so far
    pc,                \* pc[t]: the statement task t executes next
    global_pmu_index,
    counter,           \* context_task<t>_counter
    last_count,        \* the reporter's own variables
    pmu_done

report == <<last_count, pmu_done>>
vars == <<kernel, pmu, calls, pc, global_pmu_index, counter, report>>

Label == {"initialize", "count", "measure", "relinquish", "sleep", "report"}

Goto(t, label) == pc' = [pc EXCEPT ![t] = label]

Init ==
    /\ KernelInit
    /\ Clear
    /\ calls = 0
    /\ pc = [t \in Task |-> CASE t = Main -> "initialize"
                              [] t = High -> "count"
                              [] t = Low -> "measure"
                              [] t = Reporter -> "sleep"]
    /\ global_pmu_index = IterationCount
    /\ counter = [t \in {High, Low} |-> 0]
    /\ last_count = 0 /\ pmu_done = FALSE

\* context_switch_test_initialize; the main task ends after it.
Initialize ==
    /\ Runs(Main)
    /\ calls' = calls + 1
    /\ \/ calls < 3 /\ tm_thread_create(calls + 1, <<5, 5, 2>>[calls + 1])
       \/ calls \in 3 .. 5 /\ tm_thread_resume(calls - 2)
       \/ calls = 6 /\ Return(Main)
    /\ UNCHANGED <<pmu, pc, global_pmu_index, counter, report>>

-----------------------------------------------------------------------------
(* high_prio_task and low_prio_task.                                       *)

CurrentName == IterationCount - global_pmu_index

Count(t) ==
    /\ t \in {High, Low}
    /\ Runs(t) /\ pc[t] = "count"
    /\ counter' = [counter EXCEPT ![t] = Inc(@)]
    /\ Goto(t, IF t = High THEN "measure" ELSE "relinquish")
    /\ UNCHANGED <<kernel, pmu, calls, global_pmu_index, report>>

\* The index goes down first, so the first name used is 1.
StartMeasurement ==
    /\ Runs(High) /\ pc[High] = "measure"
    /\ IF global_pmu_index # 0
       THEN /\ global_pmu_index' = global_pmu_index - 1
            /\ tm_pmu_profile_start(CurrentName')
       ELSE UNCHANGED <<pmu, global_pmu_index>>
    /\ Goto(High, "relinquish")
    /\ UNCHANGED <<kernel, calls, counter, report>>

EndMeasurement ==
    /\ Runs(Low) /\ pc[Low] = "measure"
    /\ IF global_pmu_index # 0
       THEN tm_pmu_profile_end(CurrentName)
       ELSE UNCHANGED pmu
    /\ Goto(Low, "count")
    /\ UNCHANGED <<kernel, calls, global_pmu_index, counter, report>>

Relinquish(t) ==
    /\ Runs(t) /\ pc[t] = "relinquish"
    /\ tm_thread_relinquish(t)
    /\ Goto(t, IF t = High THEN "count" ELSE "measure")
    /\ UNCHANGED <<pmu, calls, global_pmu_index, counter, report>>

-----------------------------------------------------------------------------
(* reporting_thread.                                                       *)

Sleep ==
    /\ Runs(Reporter) /\ pc[Reporter] = "sleep"
    /\ tm_thread_sleep(Reporter)
    /\ Goto(Reporter, "report")
    /\ UNCHANGED <<pmu, calls, global_pmu_index, counter, report>>

Wake ==
    /\ TickWakes(Reporter)
    /\ UNCHANGED <<pmu, calls, pc, global_pmu_index, counter, report>>

Report ==
    /\ Runs(Reporter) /\ pc[Reporter] = "report"
    /\ last_count' = Plus(counter[High], counter[Low])
    /\ pmu_done' = TRUE
    /\ Goto(Reporter, "sleep")
    /\ UNCHANGED <<kernel, pmu, calls, global_pmu_index, counter>>

-----------------------------------------------------------------------------

SwitchStep ==
    \/ \E t \in Thread : Count(t) \/ Relinquish(t)
    \/ StartMeasurement \/ EndMeasurement

Next == Initialize \/ SwitchStep \/ Sleep \/ Wake \/ Report

\* As in the other benchmarks the reporter sleeps TM_TEST_DURATION seconds.
Fairness ==
    /\ WF_vars(Initialize \/ Sleep \/ Report)
    /\ WF_vars(Wake)
    /\ SF_vars(SwitchStep)

Spec == Init /\ [][Next]_vars /\ Fairness

-----------------------------------------------------------------------------

TypeOK ==
    /\ KernelTypeOK
    /\ PmuTypeOK
    /\ calls \in 0 .. 7
    /\ pc \in [Task -> Label]
    /\ global_pmu_index \in 0 .. IterationCount
    /\ counter \in [{High, Low} -> Word]
    /\ last_count \in Word
    /\ pmu_done \in BOOLEAN

(***************************************************************************)
(* Every measurement but the running one is complete and would be printed  *)
(* under its own name: it was started by the high and ended by the low     *)
(* task for the same switch, although the report may come between the two  *)
(* (lines 39-44, 56-59, 87-90).                                            *)
(***************************************************************************)
SwitchesLogged ==
    \A n \in 1 .. CurrentName - 1 :
        Found(n) # {} /\ point[Printed(n)].ended = n
=============================================================================
