------------------------ MODULE InterruptPreemption -------------------------
(***************************************************************************)
(* The interrupt preemption benchmark, tm_interrupt_preemption_test.c:     *)
(* thread 1 raises the software interrupt, whose handler resumes the more  *)
(* urgent thread 0, which counts and suspends itself.  The main task       *)
(* sleeps and reports.                                                     *)
(*                                                                         *)
(* FreeRTOS is left out: its tm_thread_resume calls vTaskResume, which     *)
(* must not be called from an interrupt handler.                           *)
(***************************************************************************)
EXTENDS TmInterrupts, UnsignedLong

\* What the benchmark is built with.
Configuration == Port \in {"ThreadX", "Zephyr"} /\ Thread = 0 .. 1

VARIABLES
    calls,            \* calls of the initialisation made so far
    pc,               \* pc[t]: the statement task t executes next
    counter,          \* tm_interrupt_preemption_thread_<t>_counter
    handler_counter,  \* tm_interrupt_preemption_handler_counter
    last_total,       \* the report's own variable
    alarm             \* the last report printed its ERROR line

report == <<last_total, alarm>>
vars == <<kernel, interrupts, calls, pc, counter, handler_counter, report>>

Label == {"initialize", "sleep", "report", "raise", "count", "suspend"}

Goto(t, label) == pc' = [pc EXCEPT ![t] = label]

Init ==
    /\ KernelInit
    /\ calls = 0
    /\ pc = [t \in Task |-> IF t = Main THEN "initialize"
                            ELSE IF t = 1 THEN "raise" ELSE "count"]
    /\ InterruptInit
    /\ counter = [t \in Thread |-> 0]
    /\ handler_counter = 0
    /\ last_total = 0 /\ alarm = FALSE

\* Mutant: the raising thread is the more urgent one.
InitializeSwapped ==
    /\ Runs(Main) /\ pc[Main] = "initialize"
    /\ calls' = calls + 1
    /\ \/ calls = 0 /\ tm_thread_create(0, 10)
       \/ calls = 1 /\ tm_thread_create(1, 3)
       \/ calls = 2 /\ tm_thread_resume(1)
    /\ Goto(Main, IF calls' = 3 THEN "sleep" ELSE "initialize")
    /\ UNCHANGED <<interrupts, counter, handler_counter, report>>

Initialize ==
    /\ Runs(Main) /\ pc[Main] = "initialize"
    /\ calls' = calls + 1
    /\ \/ calls = 0 /\ tm_thread_create(0, 3)
       \/ calls = 1 /\ tm_thread_create(1, 10)
       \/ calls = 2 /\ tm_thread_resume(1)
    /\ Goto(Main, IF calls' = 3 THEN "sleep" ELSE "initialize")
    /\ UNCHANGED <<interrupts, counter, handler_counter, report>>

-----------------------------------------------------------------------------
(* Thread 1 raises the interrupt and counts; thread 0 counts and suspends. *)

\* HwiP_post and the loop around it take longer than the interrupt's way to
\* the processor: it is taken before it is posted again.
Raise ==
    /\ Runs(1) /\ pc[1] = "raise"
    /\ ~pending
    /\ tm_interrupt_raise
    /\ Goto(1, "count")
    /\ UNCHANGED <<kernel, calls, counter, handler_counter, report>>

Count(t) ==
    /\ Runs(t) /\ pc[t] = "count"
    /\ counter' = [counter EXCEPT ![t] = Inc(@)]
    /\ Goto(t, IF t = 1 THEN "raise" ELSE "suspend")
    /\ UNCHANGED <<kernel, interrupts, calls, handler_counter, report>>

Suspend ==
    /\ Runs(0) /\ pc[0] = "suspend"
    /\ tm_thread_suspend(0)
    /\ Goto(0, "count")
    /\ UNCHANGED <<interrupts, calls, counter, handler_counter, report>>

\* Mutant: the handler counts and does not resume thread 0.
HandlerResumesNobody ==
    /\ tm_interrupt_handler
    /\ handler_counter' = Inc(handler_counter)
    /\ UNCHANGED <<kernel, calls, pc, counter, report>>

tm_interrupt_preemption_handler ==
    /\ tm_interrupt_handler
    /\ handler_counter' = Inc(handler_counter)
    /\ tm_thread_resume(0)
    /\ UNCHANGED <<calls, pc, counter, report>>

-----------------------------------------------------------------------------
(* tm_interrupt_preemption_thread_report, in the main task.                *)

\* Mutant: the handler's counter is left out of the total.
TotalOfThreads == Plus(counter[0], counter[1])

CounterTotal == Plus(Plus(counter[0], counter[1]), handler_counter)

CounterAverage == CounterTotal \div 3

ErrorLine == \E c \in {counter[0], counter[1], handler_counter} :
                 c < Minus(CounterAverage, 1) \/ c > Plus(CounterAverage, 1)

Sleep ==
    /\ Runs(Main) /\ pc[Main] = "sleep"
    /\ tm_thread_sleep(Main)
    /\ Goto(Main, "report")
    /\ UNCHANGED <<interrupts, calls, counter, handler_counter, report>>

Wake ==
    /\ TickWakes(Main)
    /\ UNCHANGED <<interrupts, calls, pc, counter, handler_counter, report>>

Report ==
    /\ Runs(Main) /\ pc[Main] = "report"
    /\ alarm' = ErrorLine
    /\ last_total' = handler_counter
    /\ Goto(Main, "sleep")
    /\ UNCHANGED <<kernel, interrupts, calls, counter, handler_counter>>

-----------------------------------------------------------------------------

MainStep == Initialize \/ Sleep \/ Report
ThreadStep == Raise \/ (\E t \in Thread : Count(t)) \/ Suspend

Next == MainStep \/ Wake \/ ThreadStep \/ tm_interrupt_preemption_handler

\* The running task executes, a posted interrupt is taken, the tick goes on
\* and the threads have TM_TEST_DURATION seconds between two reports.
Fairness ==
    /\ WF_vars(MainStep)
    /\ WF_vars(Wake)
    /\ WF_vars(tm_interrupt_preemption_handler)
    /\ SF_vars(ThreadStep)

Spec == Init /\ [][Next]_vars /\ Fairness

-----------------------------------------------------------------------------

TypeOK ==
    /\ KernelTypeOK
    /\ calls \in 0 .. 3
    /\ pc \in [Task -> Label]
    /\ counter \in [Thread -> Word]
    /\ {handler_counter, last_total} \subseteq Word
    /\ InterruptTypeOK /\ alarm \in BOOLEAN

(***************************************************************************)
(* "We won't get back here until the interrupt processing is complete,     *)
(* including the execution of the higher priority thread" (lines 139-143), *)
(* given that the processor takes the interrupt at once: when thread 1     *)
(* counts, the handler has run once more than thread 1 has counted, and    *)
(* thread 0 once for every run of the handler, and it is suspended again.  *)
(***************************************************************************)
InterruptComplete ==
    /\ handler_counter = Inc(counter[1])
    /\ counter[0] = handler_counter
    /\ state[0] = "suspended"

(***************************************************************************)
(* "Interrupt processing test has failed" (line 210) is a statement about  *)
(* the kernel: once everyone has counted and until the total wraps, the    *)
(* report does not print it, wherever the tick lets the main task in.      *)
(***************************************************************************)
NoFalseAlarm ==
    (\A c \in {counter[0], counter[1], handler_counter} : c >= 1 /\ 3 * c <= MaxWord)
        => ~ErrorLine

(***************************************************************************)
(* A resume of a thread that is not suspended is lost (line 162): the      *)
(* handler always finds thread 0 suspended, so that every interrupt makes  *)
(* it run, also an interrupt taken late, while thread 1 has moved on.      *)
(***************************************************************************)
ResumeTakesEffect == handler_counter' # handler_counter => state[0] = "suspended"
=============================================================================
