---------------------------- MODULE SpecificSync ----------------------------
(***************************************************************************)
(* The specific synchronisation benchmark, specific_synchronization_test.c:*)
(* a signaling task signals a more urgent waiting task as fast as it can,  *)
(* and the main task sleeps and reports.  The suite is built with          *)
(* USE_REFERENCE, semaphores; without it the ports' native mechanism is    *)
(* measured.  Both builds are modelled.                                    *)
(***************************************************************************)
EXTENDS TmSemaphores, RtosSync, UnsignedLong

CONSTANT UseReference  \* USE_REFERENCE is defined

\* What the benchmark is built with.
Configuration ==
    /\ UseReference \in BOOLEAN
    /\ Thread = 0 .. 1
    /\ Semaphore = 0 .. 1
    /\ NoTask \notin Task

Waiting == 0
Signaling == 1

VARIABLES
    calls,                   \* calls of the initialisation made so far
    pc,                      \* pc[t]: the statement task t executes next
    synchronozation_counter,
    last_counter,            \* the report's own variable
    signaled                 \* history: calls that signal, as a word

vars == <<kernel, semaphores, sync, calls, pc, synchronozation_counter,
          last_counter, signaled>>

Label == {"initialize", "wait", "wait end", "count", "signal", "sleep", "report"}

Goto(t, label) == pc' = [pc EXCEPT ![t] = label]

Init ==
    /\ KernelInit
    /\ SemaphoreInit
    /\ SyncInit
    /\ calls = IF UseReference THEN 0 ELSE 3
    /\ pc = [t \in Task |-> CASE t = Main -> "initialize"
                              [] t = Waiting -> "wait"
                              [] t = Signaling -> "signal"]
    /\ synchronozation_counter = 0
    /\ last_counter = 0
    /\ signaled = 0

-----------------------------------------------------------------------------
(* specific_synchronization_initialize; without USE_REFERENCE it begins    *)
(* with its fourth call.                                                   *)

CreateSemaphores ==
    /\ \/ calls = 0 /\ tm_semaphore_create(0)
       \/ calls = 1 /\ tm_semaphore_create(1)
       \/ calls = 2 /\ \E ok \in BOOLEAN : tm_semaphore_get(1, ok)
       \/ calls = 3 /\ tm_semaphore_create(0)
    /\ UNCHANGED <<kernel, sync>>

StartThreads ==
    /\ \/ calls = 5 /\ tm_thread_create(Waiting, 5)
       \/ calls = 6 /\ tm_thread_create(Signaling, 10)
       \/ calls = 7 /\ tm_thread_resume(Waiting)
       \/ calls = 8 /\ tm_thread_resume(Signaling)
    /\ UNCHANGED <<semaphores, sync>>

Initialize ==
    /\ Runs(Main) /\ pc[Main] = "initialize"
    /\ calls' = calls + 1
    /\ \/ CreateSemaphores
       \/ calls = 4 /\ init_rtos_sync /\ UNCHANGED <<kernel, semaphores>>
       \/ StartThreads
    /\ Goto(Main, IF calls' = 9 THEN "sleep" ELSE "initialize")
    /\ UNCHANGED <<synchronozation_counter, last_counter, signaled>>

-----------------------------------------------------------------------------
(* sync_waiting_task and sync_signaling_task.                              *)

Wait ==
    /\ Runs(Waiting) /\ pc[Waiting] = "wait"
    /\ IF UseReference
       THEN tm_semaphore_wait(Waiting, 0) /\ UNCHANGED sync
       ELSE rtos_sync_wait(Waiting) /\ UNCHANGED semaphores
    /\ Goto(Waiting, IF UseReference THEN "count" ELSE "wait end")
    /\ UNCHANGED <<calls, synchronozation_counter, last_counter, signaled>>

WaitEnd ==
    /\ Runs(Waiting) /\ pc[Waiting] = "wait end"
    /\ rtos_sync_wait_end
    /\ Goto(Waiting, "count")
    /\ UNCHANGED <<kernel, semaphores, calls, synchronozation_counter,
                   last_counter, signaled>>

Count ==
    /\ Runs(Waiting) /\ pc[Waiting] = "count"
    /\ synchronozation_counter' = Inc(synchronozation_counter)
    /\ Goto(Waiting, "wait")
    /\ UNCHANGED <<kernel, semaphores, sync, calls, last_counter, signaled>>

Signal ==
    /\ Runs(Signaling)
    /\ IF UseReference
       THEN (\E ok \in BOOLEAN : tm_semaphore_put(0, ok)) /\ UNCHANGED sync
       ELSE rtos_sync_signal /\ UNCHANGED semaphores
    /\ signaled' = Inc(signaled)
    /\ UNCHANGED <<calls, pc, synchronozation_counter, last_counter>>

-----------------------------------------------------------------------------
(* preempting_report_thread, in the main task.                             *)

Sleep ==
    /\ Runs(Main) /\ pc[Main] = "sleep"
    /\ tm_thread_sleep(Main)
    /\ Goto(Main, "report")
    /\ UNCHANGED <<semaphores, sync, calls, synchronozation_counter,
                   last_counter, signaled>>

Wake ==
    /\ TickWakes(Main)
    /\ UNCHANGED <<semaphores, sync, calls, pc, synchronozation_counter,
                   last_counter, signaled>>

Report ==
    /\ Runs(Main) /\ pc[Main] = "report"
    /\ last_counter' = synchronozation_counter
    /\ Goto(Main, "sleep")
    /\ UNCHANGED <<kernel, semaphores, sync, calls, synchronozation_counter, signaled>>

-----------------------------------------------------------------------------

MainStep == Initialize \/ Sleep \/ Report
ThreadStep == Wait \/ WaitEnd \/ Count \/ Signal

Next == MainStep \/ Wake \/ ThreadStep

\* The running task executes; the threads have TM_TEST_DURATION seconds.
Fairness == WF_vars(MainStep) /\ WF_vars(Wake) /\ SF_vars(ThreadStep)

Spec == Init /\ [][Next]_vars /\ Fairness

-----------------------------------------------------------------------------

TypeOK ==
    /\ KernelTypeOK
    /\ SemaphoreTypeOK
    /\ SyncTypeOK
    /\ calls \in 0 .. 9
    /\ pc \in [Task -> Label]
    /\ {synchronozation_counter, last_counter, signaled} \subseteq Word

(***************************************************************************)
(* "Time Period Total" (line 108) counts the signals: none is lost in a    *)
(* mechanism that was still full, or reset away by a waiter that had not   *)
(* finished (tm_porting_layer_zephyr.c:412-415), and none is taken twice.  *)
(* At most the last signal is still to be counted, and none whenever the   *)
(* signaling task has the processor; a semaphore and ThreadX's event flag  *)
(* start with one.                                                         *)
(***************************************************************************)
HeadStart == IF UseReference \/ Port = "ThreadX" THEN 1 ELSE 0

Uncounted == Minus(Plus(signaled, HeadStart), synchronozation_counter)

EverySignalCounted ==
    /\ Uncounted \in {0, 1}
    /\ Runs(Signaling) => Uncounted = 0

(***************************************************************************)
(* "Error getting/putting semaphore" (line 104) is printed when the        *)
(* counter stands still: the waiting task counts again and again.          *)
(***************************************************************************)
NeverStandsStill ==
    []<><<synchronozation_counter' # synchronozation_counter>>_vars
=============================================================================
