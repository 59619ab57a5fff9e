------------------------ MODULE InterruptProcessing -------------------------
(***************************************************************************)
(* The interrupt processing benchmark, tm_interrupt_processing_test.c:     *)
(* thread 0 raises the software interrupt and gets, without waiting, the   *)
(* semaphore that its handler puts.  The main task sleeps and reports.     *)
(*                                                                         *)
(* FreeRTOS is left out: its tm_semaphore_put calls xSemaphoreGive, which  *)
(* must not be called from an interrupt handler.                           *)
(***************************************************************************)
EXTENDS TmSemaphores, TmInterrupts, UnsignedLong

\* What the benchmark is built with.
Configuration ==
    /\ Port \in {"ThreadX", "Zephyr"}
    /\ 0 \in Thread /\ Semaphore = {0}

VARIABLES
    calls,            \* calls of the initialisation made so far
    pc,               \* pc[t]: the statement task t executes next
    counter,          \* tm_interrupt_thread_0_counter
    handler_counter,  \* tm_interrupt_handler_counter
    last_total,       \* the report's own variable
    alarm             \* the last report printed its ERROR line

report == <<last_total, alarm>>
vars == <<kernel, interrupts, semaphores, calls, pc, counter, handler_counter, report>>

Label == {"initialize", "sleep", "report", "pickup", "raise", "get", "count"}

Goto(t, label) == pc' = [pc EXCEPT ![t] = label]

Init ==
    /\ KernelInit /\ InterruptInit /\ SemaphoreInit
    /\ calls = 0
    /\ pc = [t \in Task |-> IF t = Main THEN "initialize" ELSE "pickup"]
    /\ counter = 0 /\ handler_counter = 0
    /\ last_total = 0 /\ alarm = FALSE

Initialize ==
    /\ Runs(Main) /\ pc[Main] = "initialize"
    /\ calls' = calls + 1
    /\ \/ calls = 0 /\ tm_thread_create(0, 10) /\ UNCHANGED semaphores
       \/ calls = 1 /\ tm_semaphore_create(0) /\ UNCHANGED kernel
       \/ calls = 2 /\ tm_thread_resume(0) /\ UNCHANGED semaphores
    /\ Goto(Main, IF calls' = 3 THEN "sleep" ELSE "initialize")
    /\ UNCHANGED <<interrupts, counter, handler_counter, report>>

-----------------------------------------------------------------------------
(* tm_interrupt_thread_0_entry.                                            *)

\* The first get, before the loop, and the one after each interrupt; when it
\* fails the thread returns.
Get ==
    /\ Runs(0) /\ pc[0] \in {"pickup", "get"}
    /\ \E ok \in BOOLEAN :
         /\ tm_semaphore_get(0, ok)
         /\ IF ok THEN UNCHANGED kernel ELSE Return(0)
    /\ Goto(0, IF pc[0] = "get" THEN "count" ELSE "raise")
    /\ UNCHANGED <<interrupts, calls, counter, handler_counter, report>>

Raise ==
    /\ Runs(0) /\ pc[0] = "raise"
    /\ tm_interrupt_raise
    /\ Goto(0, "get")
    /\ UNCHANGED <<kernel, semaphores, calls, counter, handler_counter, report>>

Count ==
    /\ Runs(0) /\ pc[0] = "count"
    /\ counter' = Inc(counter)
    /\ Goto(0, "raise")
    /\ UNCHANGED <<kernel, interrupts, semaphores, calls, handler_counter, report>>

tm_interrupt_processing_handler ==
    /\ tm_interrupt_handler
    /\ handler_counter' = Inc(handler_counter)
    /\ \E ok \in BOOLEAN : tm_semaphore_put(0, ok)
    /\ UNCHANGED <<calls, pc, counter, report>>

-----------------------------------------------------------------------------
(* tm_interrupt_thread_report, in the main task.                           *)

Average == Plus(counter, handler_counter) \div 2

Alarm == \E c \in {counter, handler_counter} :
             c < Minus(Average, 1) \/ c > Plus(Average, 1)

Sleep ==
    /\ Runs(Main) /\ pc[Main] = "sleep"
    /\ tm_thread_sleep(Main)
    /\ Goto(Main, "report")
    /\ UNCHANGED <<interrupts, semaphores, calls, counter, handler_counter, report>>

Wake ==
    /\ TickWakes(Main)
    /\ UNCHANGED <<interrupts, semaphores, calls, pc, counter, handler_counter, report>>

Report ==
    /\ Runs(Main) /\ pc[Main] = "report"
    /\ alarm' = Alarm
    /\ last_total' = handler_counter
    /\ Goto(Main, "sleep")
    /\ UNCHANGED <<kernel, interrupts, semaphores, calls, counter, handler_counter>>

-----------------------------------------------------------------------------

MainStep == Initialize \/ Sleep \/ Report
ThreadStep == Get \/ Raise \/ Count

Next == MainStep \/ Wake \/ ThreadStep \/ tm_interrupt_processing_handler

\* As in InterruptPreemption.
Fairness ==
    /\ WF_vars(MainStep) /\ WF_vars(Wake) /\ WF_vars(tm_interrupt_processing_handler)
    /\ SF_vars(ThreadStep)

Spec == Init /\ [][Next]_vars /\ Fairness

-----------------------------------------------------------------------------

TypeOK ==
    /\ KernelTypeOK /\ InterruptTypeOK /\ SemaphoreTypeOK
    /\ calls \in 0 .. 3
    /\ pc \in [Task -> Label]
    /\ {counter, handler_counter, last_total} \subseteq Word
    /\ alarm \in BOOLEAN

(***************************************************************************)
(* The thread and the handler count the same interrupts (lines 120-138,    *)
(* 147-154): every run of the handler that the thread has not counted is   *)
(* in the semaphore, or in the thread's hands between its get and its      *)
(* increment, whenever the interrupt is taken.                             *)
(***************************************************************************)
InterruptsCounted ==
    pc[0] # "pickup" =>
        Minus(handler_counter, counter) = count[0] + (IF pc[0] = "count" /\ state[0] # "done"
                                                      THEN 1 ELSE 0)

(***************************************************************************)
(* "Interrupt processing test has failed" (line 191) is not printed about  *)
(* a kernel that works, before the total wraps - nor about a thread that   *)
(* has ended because its interrupt came late, which the report overlooks.  *)
(***************************************************************************)
NoFalseAlarm ==
    (\A c \in {counter, handler_counter} : c >= 1 /\ 2 * c <= MaxWord) => ~Alarm
=============================================================================
