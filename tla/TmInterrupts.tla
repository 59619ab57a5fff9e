---------------------------- MODULE TmInterrupts ----------------------------
(***************************************************************************)
(* The software interrupt of the suite (main_*.c): it is registered and    *)
(* enabled before a benchmark's first call, a thread posts it, and the     *)
(* processor takes it any time later, when tm_interrupt_handler calls the  *)
(* handler of the benchmark, which runs to its end before any thread.      *)
(***************************************************************************)
EXTENDS TmThreads

VARIABLES
    pending,  \* the software interrupt is posted, not taken
    enabled   \* it is registered and enabled

interrupts == <<pending, enabled>>

InterruptTypeOK == {pending, enabled} \subseteq BOOLEAN

\* The first call of main_task.
freertos_setup_interrupt == enabled = TRUE
\* Before the kernel is entered.
threadx_setup_interrupt == enabled = TRUE
\* The second call of main_task, edge triggered.
zephyr_setup_interrupt == enabled = TRUE

InterruptInit ==
    /\ pending = FALSE
    /\ CASE Port = "FreeRTOS" -> freertos_setup_interrupt
         [] Port = "ThreadX" -> threadx_setup_interrupt
         [] Port = "Zephyr" -> zephyr_setup_interrupt

\* Mutant: the post gets lost.
RaiseIgnored == UNCHANGED interrupts

tm_interrupt_raise == pending' = TRUE /\ UNCHANGED enabled

tm_interrupt_handler ==
    /\ pending /\ enabled
    /\ pending' = FALSE
    /\ UNCHANGED enabled
=============================================================================
