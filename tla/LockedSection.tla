--------------------------- MODULE LockedSection ----------------------------
(***************************************************************************)
(* The thread locking and the critical section benchmarks,                 *)
(* lock_thread_test.c and criticial_section_test.c.  They differ in the    *)
(* service they measure and in the priority of the reporter: thread 0      *)
(* enters a section, counts and leaves it, with a measurement around each  *)
(* section; thread 1 sleeps and reports.                                   *)
(*                                                                         *)
(* The profile log of FreeRTOS and ThreadX is TI's driver, so the log is   *)
(* modelled for Zephyr only.                                               *)
(***************************************************************************)
EXTENDS TmThreads, PmuLog, UnsignedLong

CONSTANTS
    Section,           \* the service under test
    ReporterPriority,  \* 2 in the locking test, 1 in the section test
    IterationCount     \* ITERATION_COUNT

ASSUME SectionAssumption == Section \in {"critical section", "scheduler lock"}
ASSUME PriorityAssumption == ReporterPriority \in {1, 2}
ASSUME IterationCountAssumption ==
    IterationCount \in 1 .. MaxWord - 1 /\ IterationCount <= MaxLogEntries
ASSUME TwoThreads == Thread = 0 .. 1

VARIABLES
    calls,        \* calls of the initialisation made so far
    pc,           \* pc[t]: the statement task t executes next
    inside,       \* the interrupts are masked or the scheduler is locked
    saved_priority,
    faulted,      \* a write through a NULL pointer has stopped the program
    counter,      \* thread_locking_counter, critical_section_counter
    last_counter  \* the reporter's own variable

lock == <<inside, saved_priority, faulted>>
vars == <<kernel, pmu, calls, pc, lock, counter, last_counter>>

Benchmark == 0
Reporter == 1

Label == {"initialize", "start", "enter", "count", "exit", "end", "sleep", "report"}

Goto(t, label) == pc' = [pc EXCEPT ![t] = label]

Init ==
    /\ KernelInit
    /\ Clear
    /\ calls = 0
    /\ pc = [t \in Task |-> CASE t = Main -> "initialize"
                              [] t = Benchmark -> "start"
                              [] t = Reporter -> "sleep"]
    /\ inside = FALSE /\ saved_priority = 0 /\ faulted = FALSE
    /\ counter = 0 /\ last_counter = 0

(***************************************************************************)
(* FreeRTOS and ThreadX mask the interrupts in a critical section, the     *)
(* tick among them; Zephyr's section and every scheduler lock only keep    *)
(* the processor from being given to another thread.                       *)
(***************************************************************************)
InterruptsMasked == inside /\ Section = "critical section" /\ Port # "Zephyr"

\* Task t executes: inside the section no other task gets the processor.
Executes(t) == ~faulted /\ IF inside THEN t = Benchmark ELSE Runs(t)

\* The initialisation; the main task ends after it.
Initialize ==
    /\ Executes(Main)
    /\ calls' = calls + 1
    /\ \/ calls = 0 /\ tm_thread_create(Benchmark, 5)
       \/ calls = 1 /\ tm_thread_resume(Benchmark)
       \/ calls = 2 /\ tm_thread_create(Reporter, ReporterPriority)
       \/ calls = 3 /\ tm_thread_resume(Reporter)
       \/ calls = 4 /\ Return(Main)
    /\ UNCHANGED <<pmu, pc, lock, counter, last_counter>>

-----------------------------------------------------------------------------
(* The benchmark thread.                                                   *)

StartMeasurement ==
    /\ Executes(Benchmark) /\ pc[Benchmark] = "start"
    /\ IF Port = "Zephyr" /\ counter < IterationCount
       THEN tm_pmu_profile_start(counter)
       ELSE UNCHANGED pmu
    /\ Goto(Benchmark, "enter")
    /\ UNCHANGED <<kernel, calls, lock, counter, last_counter>>

\* Mutant: the section does not lock anything.
EnterIgnored ==
    /\ Executes(Benchmark) /\ pc[Benchmark] = "enter"
    /\ Goto(Benchmark, "count")
    /\ UNCHANGED <<kernel, pmu, calls, lock, counter, last_counter>>

TakesPriority == Port = "ThreadX" /\ Section = "scheduler lock"

\* The preemption threshold always follows the priority.
threadx_suspend_scheduler ==
    /\ saved_priority' = level[Benchmark]
    /\ ChangeLevel(Benchmark, 0)
    /\ UNCHANGED <<inside, faulted>>

\* Mutant: the second call, which restores the priority, is missing.
ThresholdOnly == UNCHANGED <<kernel, lock>>

(***************************************************************************)
(* The saved threshold is refused, it is above the priority 0; the call    *)
(* that restores the priority restores the threshold, too.  It writes the  *)
(* old priority through a NULL pointer: into the memory at address 0, or,  *)
(* if that is protected, the program stops.                                *)
(***************************************************************************)
threadx_resume_scheduler ==
    /\ \/ ChangeLevel(Benchmark, saved_priority) /\ UNCHANGED faulted
       \/ faulted' = TRUE /\ UNCHANGED kernel
    /\ UNCHANGED <<inside, saved_priority>>

\* tm_suspend_scheduler or tm_enter_critical_section.
Enter ==
    /\ Executes(Benchmark) /\ pc[Benchmark] = "enter"
    /\ IF TakesPriority THEN threadx_suspend_scheduler
       ELSE inside' = TRUE /\ UNCHANGED <<kernel, saved_priority, faulted>>
    /\ Goto(Benchmark, "count")
    /\ UNCHANGED <<pmu, calls, counter, last_counter>>

Count ==
    /\ Executes(Benchmark) /\ pc[Benchmark] = "count"
    /\ counter' = Inc(counter)
    /\ Goto(Benchmark, "exit")
    /\ UNCHANGED <<kernel, pmu, calls, lock, last_counter>>

\* tm_resume_scheduler or tm_exit_critical_section.
Exit ==
    /\ Executes(Benchmark) /\ pc[Benchmark] = "exit"
    /\ IF TakesPriority THEN threadx_resume_scheduler
       ELSE inside' = FALSE /\ UNCHANGED <<kernel, saved_priority, faulted>>
    /\ Goto(Benchmark, "end")
    /\ UNCHANGED <<pmu, calls, counter, last_counter>>

\* Mutant: the end has the bound of the start although the counter moved on.
EndOneEarly ==
    /\ Executes(Benchmark) /\ pc[Benchmark] = "end"
    /\ IF Port = "Zephyr" /\ counter < IterationCount
       THEN tm_pmu_profile_end(Minus(counter, 1))
       ELSE UNCHANGED pmu
    /\ Goto(Benchmark, "start")
    /\ UNCHANGED <<kernel, calls, lock, counter, last_counter>>

\* Mutant: the measurement is ended under the counter's present value.
EndUnderNextName ==
    /\ Executes(Benchmark) /\ pc[Benchmark] = "end"
    /\ IF Port = "Zephyr" /\ counter < IterationCount + 1
       THEN tm_pmu_profile_end(counter)
       ELSE UNCHANGED pmu
    /\ Goto(Benchmark, "start")
    /\ UNCHANGED <<kernel, calls, lock, counter, last_counter>>

EndMeasurement ==
    /\ Executes(Benchmark) /\ pc[Benchmark] = "end"
    /\ IF Port = "Zephyr" /\ counter < IterationCount + 1
       THEN tm_pmu_profile_end(Minus(counter, 1))
       ELSE UNCHANGED pmu
    /\ Goto(Benchmark, "start")
    /\ UNCHANGED <<kernel, calls, lock, counter, last_counter>>

-----------------------------------------------------------------------------
(* The reporting thread.                                                   *)

Sleep ==
    /\ Executes(Reporter) /\ pc[Reporter] = "sleep"
    /\ tm_thread_sleep(Reporter)
    /\ Goto(Reporter, "report")
    /\ UNCHANGED <<pmu, calls, lock, counter, last_counter>>

Wake ==
    /\ ~InterruptsMasked /\ ~faulted
    /\ TickWakes(Reporter)
    /\ UNCHANGED <<pmu, calls, pc, lock, counter, last_counter>>

Report ==
    /\ Executes(Reporter) /\ pc[Reporter] = "report"
    /\ last_counter' = counter
    /\ Goto(Reporter, "sleep")
    /\ UNCHANGED <<kernel, pmu, calls, lock, counter>>

-----------------------------------------------------------------------------

BenchmarkStep == StartMeasurement \/ Enter \/ Count \/ Exit \/ EndMeasurement

Next == Initialize \/ BenchmarkStep \/ Sleep \/ Wake \/ Report

\* The reporter sleeps TM_TEST_DURATION seconds: strong fairness as elsewhere.
\* A tick that falls into a masked section stays pending and is taken after it.
Fairness ==
    /\ WF_vars(Initialize \/ Sleep \/ Report)
    /\ SF_vars(Wake)
    /\ SF_vars(BenchmarkStep)

Spec == Init /\ [][Next]_vars /\ Fairness

-----------------------------------------------------------------------------

TypeOK ==
    /\ KernelTypeOK
    /\ PmuTypeOK
    /\ calls \in 0 .. 5
    /\ pc \in [Task -> Label]
    /\ {inside, faulted} \subseteq BOOLEAN /\ saved_priority \in Level
    /\ {counter, last_counter} \subseteq Word

(***************************************************************************)
(* "This prevents other threads from preempting the current thread"        *)
(* (threadx.c:603): a report never sees the benchmark between its enter    *)
(* and its exit, although the tick may have made the reporter ready there  *)
(* and the reporter is the more urgent thread.                             *)
(***************************************************************************)
ReportsOutside ==
    [][last_counter' # last_counter => pc[Benchmark] \notin {"count", "exit"}]_vars

(***************************************************************************)
(* The first IterationCount entries of the log were started and ended      *)
(* under the name of their section, although the counter moves on between  *)
(* start and end and the reporter may run there (lock_thread_test.c:71-96).*)
(* Later entries come only from a wrapped counter, whose first end has no  *)
(* start.  Every variable has its type.                                    *)
(***************************************************************************)
SectionsLogged ==
    /\ TypeOK
    /\ \A i \in 0 .. IterationCount - 1 :
        i < logIndex => point[i] = [name |-> i, ended |-> i]

(***************************************************************************)
(* A section that the benchmark thread enters again and again does not     *)
(* shut out the reporter (lock_thread_test.c:109-133): whether its tick    *)
(* falls inside or outside of a section, the next report comes, unless the *)
(* program has been stopped.                                               *)
(***************************************************************************)
ReportsForever ==
    <>faulted \/ []<><<pc[Reporter] = "report" /\ pc'[Reporter] = "sleep">>_vars

(***************************************************************************)
(* "Valid priorities range from 1 through 31" (freertos.c:69): creating    *)
(* the reporter does not stop the initialisation, it runs to its end.      *)
(***************************************************************************)
InitializationEnds == <>(calls = 5)
=============================================================================
