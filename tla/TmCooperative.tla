---------------------------- MODULE TmCooperative ---------------------------
(***************************************************************************)
(* The cooperative scheduling benchmark, tm_cooperative_scheduling_test.c, *)
(* on the thread services of a porting layer.                              *)
(*                                                                         *)
(* Threads 0 .. 4 share one priority and do nothing but relinquish and     *)
(* count.  With FreeRTOS the main task has that priority too: tm_api's 3   *)
(* becomes level 30, MAIN_TASK_PRI.                                        *)
(***************************************************************************)
EXTENDS TmThreads, TmReport

ASSUME FiveThreads == Thread = 0 .. 4

VARIABLES
    calls,       \* calls of the initialisation made so far, 0 .. 10
    pc,          \* pc[t]: the statement task t executes next
    counter,     \* tm_cooperative_thread_<t>_counter
    last_total,  \* the report's own variable
    period,      \* history: increments since the last report, as a word
    alarm        \* the last report printed its ERROR line

vars == <<kernel, calls, pc, counter, last_total, period, alarm>>

Label == {"initialize", "sleep", "report", "relinquish", "count"}

Goto(t, label) == pc' = [pc EXCEPT ![t] = label]

Init ==
    /\ KernelInit
    /\ calls = 0
    /\ pc = [t \in Task |-> IF t = Main THEN "initialize" ELSE "relinquish"]
    /\ counter = [t \in Thread |-> 0]
    /\ last_total = 0
    /\ period = 0
    /\ alarm = FALSE

-----------------------------------------------------------------------------
(* tm_cooperative_scheduling_initialize: five creates, five resumes.       *)

Initialize ==
    /\ Runs(Main) /\ pc[Main] = "initialize"
    /\ calls' = calls + 1
    /\ \/ calls < 5 /\ tm_thread_create(calls, 3)
       \/ calls >= 5 /\ tm_thread_resume(calls - 5)
    /\ Goto(Main, IF calls' = 10 THEN "sleep" ELSE "initialize")
    /\ UNCHANGED <<counter, last_total, period, alarm>>

-----------------------------------------------------------------------------
(* tm_cooperative_thread_report, in the main task.                         *)

Sleep ==
    /\ Runs(Main) /\ pc[Main] = "sleep"
    /\ tm_thread_sleep(Main)
    /\ Goto(Main, "report")
    /\ UNCHANGED <<calls, counter, last_total, period, alarm>>

Wake ==
    /\ TickWakes(Main)
    /\ UNCHANGED <<calls, pc, counter, last_total, period, alarm>>

\* Mutant: the total is not saved for the next period.
ReportWithoutSaving ==
    /\ Runs(Main) /\ pc[Main] = "report"
    /\ alarm' = Alarm(counter)
    /\ period' = 0
    /\ Goto(Main, "sleep")
    /\ UNCHANGED <<kernel, calls, counter, last_total>>

Report ==
    /\ Runs(Main) /\ pc[Main] = "report"
    /\ alarm' = Alarm(counter)
    /\ last_total' = Total(counter)
    /\ period' = 0
    /\ Goto(Main, "sleep")
    /\ UNCHANGED <<kernel, calls, counter>>

-----------------------------------------------------------------------------
(* tm_cooperative_thread_<t>_entry.                                        *)

Relinquish(t) ==
    /\ Runs(t) /\ pc[t] = "relinquish"
    /\ tm_thread_relinquish(t)
    /\ Goto(t, "count")
    /\ UNCHANGED <<calls, counter, last_total, period, alarm>>

Count(t) ==
    /\ Runs(t) /\ pc[t] = "count"
    /\ counter' = [counter EXCEPT ![t] = Inc(@)]
    /\ period' = Inc(period)
    /\ Goto(t, "relinquish")
    /\ UNCHANGED <<kernel, calls, last_total, alarm>>

-----------------------------------------------------------------------------

MainStep == Initialize \/ Sleep \/ Report

ThreadStep == \E t \in Thread : Relinquish(t) \/ Count(t)

Next == MainStep \/ Wake \/ ThreadStep

(***************************************************************************)
(* The running task executes and the tick goes on.  With ThreadX and       *)
(* Zephyr the main task is more urgent than the threads, which run while   *)
(* it sleeps for TM_TEST_DURATION seconds: strong fairness.                *)
(***************************************************************************)
Fairness == WF_vars(MainStep) /\ WF_vars(Wake) /\ SF_vars(ThreadStep)

Spec == Init /\ [][Next]_vars /\ Fairness

-----------------------------------------------------------------------------

TypeOK ==
    /\ KernelTypeOK
    /\ calls \in 0 .. 10
    /\ pc \in [Task -> Label]
    /\ counter \in [Thread -> Word]
    /\ last_total \in Word
    /\ period \in Word
    /\ alarm \in BOOLEAN

(***************************************************************************)
(* "Cooperative counters should not be more that 1 different than the      *)
(* average" (line 240): while the total fits the word and every thread has *)
(* counted, no report prints the ERROR line, wherever in a round the main  *)
(* task gets the processor.                                                *)
(***************************************************************************)
NoFalseAlarm ==
    (\A t \in Thread : counter[t] >= 1 /\ 5 * counter[t] <= MaxWord)
        => ~Alarm(counter)

(***************************************************************************)
(* "Time Period Total", the benchmark's result (line 245): total minus     *)
(* last_total is the number of increments since the last report although   *)
(* the counters, the total and the difference all wrap.                    *)
(***************************************************************************)
PeriodTotalExact == Minus(Total(counter), last_total) = period

(***************************************************************************)
(* "Relinquish to all other threads at same priority" (lines 111, 129,     *)
(* 147, 165, 183): between two increments of one thread each of the other  *)
(* four increments exactly once, in the order of creation.                 *)
(***************************************************************************)
RoundsSpec == INSTANCE Rounds WITH Slot <- [t \in Thread |-> t]

CountsInRounds == RoundsSpec!Spec

(***************************************************************************)
(* The report is printed again and again (the loop of lines 206-249).  On  *)
(* FreeRTOS the main task has no priority over the threads and returns     *)
(* from its sleep only because each of them relinquishes.                  *)
(***************************************************************************)
ReportsForever == []<><<Report>>_vars
=============================================================================
