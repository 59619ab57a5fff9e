------------------------------ MODULE TaskSync ------------------------------
(***************************************************************************)
(* The task synchronisation benchmark, task_synchronization.c, on the      *)
(* Zephyr port: two writer tasks pass the processor to and fro with two    *)
(* semaphores, measure the first IterationCount hand-overs in the profile  *)
(* log, and a more urgent reporter reads the counters and the log.         *)
(*                                                                         *)
(* The UART mutex the benchmark creates is never used.                     *)
(***************************************************************************)
EXTENDS TmSemaphores, PmuLog, UnsignedLong, FiniteSets

CONSTANT IterationCount  \* ITERATION_COUNT

ASSUME IterationCountAssumption == IterationCount \in 1 .. MaxWord
ASSUME ThreeThreads == Thread = 1 .. 3
ASSUME TwoSemaphores == Semaphore = 1 .. 2

SEM_A == 1
SEM_B == 2
Reporter == 3

VARIABLES
    calls,         \* calls of the initialisation made so far
    pc,            \* pc[t]: the statement task t executes next
    task1_counter,
    task2_counter,
    last_total,    \* the reporter's own variables
    once

counters == <<task1_counter, task2_counter>>
report == <<last_total, once>>
vars == <<kernel, semaphores, pmu, calls, pc, counters, report>>

Label == {"initialize", "wait", "measure", "count", "put", "sleep", "report"}

Goto(t, label) == pc' = [pc EXCEPT ![t] = label]

Init ==
    /\ KernelInit
    /\ SemaphoreInit
    /\ Clear
    /\ calls = 0
    /\ pc = [t \in Task |-> CASE t = Main -> "initialize"
                              [] t = Reporter -> "sleep"
                              [] OTHER -> "wait"]
    /\ task1_counter = 0 /\ task2_counter = 0
    /\ last_total = 0 /\ once = FALSE

-----------------------------------------------------------------------------
(* task_synchronisation_initialize; the main task ends after it.           *)

Initialize ==
    /\ Runs(Main)
    /\ calls' = calls + 1
    /\ \/ /\ calls \in 0 .. 1
          /\ tm_semaphore_create(calls + 1)
          /\ UNCHANGED kernel
       \/ /\ calls = 2
          /\ \E ok \in BOOLEAN : tm_semaphore_get(SEM_A, ok)
          /\ UNCHANGED kernel
       \/ /\ calls \in 3 .. 5
          /\ tm_thread_create(calls - 2, <<4, 5, 1>>[calls - 2])
          /\ UNCHANGED semaphores
       \/ /\ calls \in 6 .. 8
          /\ tm_thread_resume(calls - 5)
          /\ UNCHANGED semaphores
       \/ /\ calls = 9
          /\ Return(Main)
          /\ UNCHANGED semaphores
    /\ UNCHANGED <<pmu, pc, counters, report>>

-----------------------------------------------------------------------------
(* writer_task1 (id 1) and writer_task2 (id 2).                            *)

\* The semaphore the task waits on, and the one it puts.
WaitsOn(t) == IF t = 1 THEN SEM_A ELSE SEM_B
Puts(t) == IF t = 1 THEN SEM_B ELSE SEM_A

Wait(t) ==
    /\ Runs(t) /\ pc[t] = "wait"
    /\ tm_semaphore_wait(t, WaitsOn(t))
    /\ Goto(t, IF t = 1 THEN "measure" ELSE "count")
    /\ UNCHANGED <<pmu, calls, counters, report>>

EndMeasurement ==
    /\ Runs(1) /\ pc[1] = "measure"
    /\ IF task1_counter < IterationCount
       THEN tm_pmu_profile_end(task1_counter + 1)
       ELSE UNCHANGED pmu
    /\ Goto(1, "count")
    /\ UNCHANGED <<kernel, semaphores, calls, counters, report>>

Count1 ==
    /\ Runs(1) /\ pc[1] = "count"
    /\ task1_counter' = Inc(task1_counter)
    /\ Goto(1, "put")
    /\ UNCHANGED <<kernel, semaphores, pmu, calls, task2_counter, report>>

Count2 ==
    /\ Runs(2) /\ pc[2] = "count"
    /\ task2_counter' = Inc(task2_counter)
    /\ Goto(2, "measure")
    /\ UNCHANGED <<kernel, semaphores, pmu, calls, task1_counter, report>>

\* Mutant: the measurement starts under the name of the hand-over before.
StartUnderOldName ==
    /\ Runs(2) /\ pc[2] = "measure"
    /\ IF task2_counter < IterationCount
       THEN tm_pmu_profile_start(task2_counter - 1)
       ELSE UNCHANGED pmu
    /\ Goto(2, "put")
    /\ UNCHANGED <<kernel, semaphores, calls, counters, report>>

StartMeasurement ==
    /\ Runs(2) /\ pc[2] = "measure"
    /\ IF task2_counter < IterationCount
       THEN tm_pmu_profile_start(task2_counter)
       ELSE UNCHANGED pmu
    /\ Goto(2, "put")
    /\ UNCHANGED <<kernel, semaphores, calls, counters, report>>

Put(t) ==
    /\ Runs(t) /\ pc[t] = "put"
    /\ \E ok \in BOOLEAN : tm_semaphore_put(Puts(t), ok)
    /\ Goto(t, "wait")
    /\ UNCHANGED <<pmu, calls, counters, report>>

-----------------------------------------------------------------------------
(* reporting_thread.                                                       *)

Sleep ==
    /\ Runs(Reporter) /\ pc[Reporter] = "sleep"
    /\ tm_thread_sleep(Reporter)
    /\ Goto(Reporter, "report")
    /\ UNCHANGED <<semaphores, pmu, calls, counters, report>>

Wake ==
    /\ TickWakes(Reporter)
    /\ UNCHANGED <<semaphores, pmu, calls, pc, counters, report>>

Report ==
    /\ Runs(Reporter) /\ pc[Reporter] = "report"
    /\ last_total' = Plus(task1_counter, task2_counter)
    /\ once' = TRUE
    /\ Goto(Reporter, "sleep")
    /\ UNCHANGED <<kernel, semaphores, pmu, calls, counters>>

-----------------------------------------------------------------------------

WriterStep ==
    \/ \E t \in 1 .. 2 : Wait(t) \/ Put(t)
    \/ EndMeasurement \/ Count1 \/ Count2 \/ StartMeasurement

Next == Initialize \/ WriterStep \/ Sleep \/ Wake \/ Report

(***************************************************************************)
(* The running task executes and the tick goes on; the writers have the    *)
(* processor for TM_TEST_DURATION seconds between two reports.             *)
(***************************************************************************)
Fairness ==
    /\ WF_vars(Initialize \/ Sleep \/ Report)
    /\ WF_vars(Wake)
    /\ SF_vars(WriterStep)

Spec == Init /\ [][Next]_vars /\ Fairness

-----------------------------------------------------------------------------

TypeOK ==
    /\ KernelTypeOK
    /\ SemaphoreTypeOK
    /\ PmuTypeOK
    /\ calls \in 0 .. 10
    /\ pc \in [Task -> Label]
    /\ {task1_counter, task2_counter, last_total} \subseteq Word
    /\ once \in BOOLEAN

(***************************************************************************)
(* The two semaphores carry one token: exactly one of them is available,   *)
(* or one writer, or a writer just woken, holds it.  A token lost by a     *)
(* full semaphore or doubled by a put would stop the benchmark or let the  *)
(* tasks overtake each other (lines 163-169).                              *)
(***************************************************************************)
Holds(t) == t \in {1, 2} /\ wants[t] = None /\ pc[t] \in {"measure", "count", "put"}

OneToken ==
    calls >= 3 =>
        count[SEM_A] + count[SEM_B] + Cardinality({t \in Thread : Holds(t)}) = 1

(***************************************************************************)
(* What the report prints under a name was started and ended under that    *)
(* name (lines 131-138), whenever the report preempts the writers.         *)
(***************************************************************************)
PrintsMatch ==
    \A n \in 0 .. IterationCount - 1 :
        Found(n) # {} => point[Printed(n)].ended = n

(***************************************************************************)
(* The porting layer has room for the semaphores of the suite              *)
(* (tm_porting_layer_freertos.c:41, 46): no call uses an id beyond the     *)
(* array of semaphores.                                                    *)
(***************************************************************************)
SemaphoreIdsInRange ==
    [][\A s \in Semaphore : count'[s] # count[s] => s < MaxSemaphores]_vars
=============================================================================
