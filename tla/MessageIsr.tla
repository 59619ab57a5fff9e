----------------------------- MODULE MessageIsr -----------------------------
(***************************************************************************)
(* The interrupt to task message benchmark, message_isr_test.c: a thread   *)
(* raises the software interrupt, receives the message its handler sends   *)
(* and ends the measurement the handler started, IterationCount times.     *)
(*                                                                         *)
(* The interrupt is taken some time after it was posted: the thread may    *)
(* already be in its receive.  The profile log is modelled for Zephyr; a   *)
(* message is its counter, from which its pattern and checksum follow.     *)
(***************************************************************************)
EXTENDS TmQueues, TmInterrupts, PmuLog, UnsignedLong

CONSTANT IterationCount  \* ITERATION_COUNT

\* What the benchmark is built with.
Configuration ==
    /\ IterationCount \in 1 .. MaxWord
    /\ IterationCount <= MaxLogEntries
    /\ 0 \in Thread

VARIABLES
    calls,                   \* calls of the initialisation made so far
    pc,                      \* the statement thread 0 executes next
    i,                       \* its loop variable
    tm_isr_counter,
    isr_message_counter,
    tm_isr_to_task_counter,
    refused                  \* tm_queue_send_from_isr returned TM_ERROR

counters == <<tm_isr_counter, isr_message_counter, tm_isr_to_task_counter>>
vars == <<kernel, interrupts, queues, pmu, calls, pc, i, counters, refused>>

Label == {"raise", "receive", "end", "check", "report", "stopped"}

Init ==
    /\ KernelInit
    /\ QueueInit
    /\ Clear
    /\ calls = 0
    /\ pc = "raise"
    /\ i = 0
    /\ InterruptInit
    /\ tm_isr_counter = 0 /\ isr_message_counter = 0 /\ tm_isr_to_task_counter = 0
    /\ refused = FALSE

\* tm_message_isr_to_task_initialize; the main task ends after it.
Initialize ==
    /\ Runs(Main)
    /\ calls' = calls + 1
    /\ \/ calls = 0 /\ tm_queue_create /\ UNCHANGED kernel
       \/ calls = 1 /\ tm_thread_create(0, 5)
       \/ calls = 2 /\ tm_thread_resume(0)
       \/ calls = 3 /\ Return(Main)
    /\ calls # 0 => UNCHANGED queues
    /\ UNCHANGED <<interrupts, pmu, pc, i, counters, refused>>

-----------------------------------------------------------------------------
(* tm_receiver_thread_entry.                                               *)

Raise ==
    /\ Runs(0) /\ pc = "raise"
    /\ tm_interrupt_raise
    /\ pc' = "receive"
    /\ UNCHANGED <<kernel, queues, pmu, calls, i, counters, refused>>

Receive ==
    /\ Runs(0) /\ pc = "receive"
    /\ \E done \in BOOLEAN : /\ tm_queue_receive(0, done)
                             /\ pc' = IF done THEN "end" ELSE "receive"
    /\ UNCHANGED <<interrupts, pmu, calls, i, counters, refused>>

\* Mutant: the measurement is ended under the next name.
EndUnderNextName ==
    /\ Runs(0) /\ pc = "end"
    /\ IF Port = "Zephyr" THEN tm_pmu_profile_end(i + 1) ELSE UNCHANGED pmu
    /\ pc' = "check"
    /\ UNCHANGED <<kernel, interrupts, queues, calls, i, counters, refused>>

EndMeasurement ==
    /\ Runs(0) /\ pc = "end"
    /\ IF Port = "Zephyr" THEN tm_pmu_profile_end(i) ELSE UNCHANGED pmu
    /\ pc' = "check"
    /\ UNCHANGED <<kernel, interrupts, queues, calls, i, counters, refused>>

\* Mutant: the loop runs once more than there are names.
CheckOneMore ==
    /\ Runs(0) /\ pc = "check"
    /\ tm_isr_to_task_counter' = Inc(tm_isr_to_task_counter)
    /\ i' = i + 1
    /\ pc' = IF i' <= IterationCount THEN "raise" ELSE "report"
    /\ UNCHANGED <<kernel, interrupts, queues, pmu, calls, tm_isr_counter,
                   isr_message_counter, refused>>

\* Counts and validates the message, then goes round the loop or leaves it.
Check ==
    /\ Runs(0) /\ pc = "check"
    /\ tm_isr_to_task_counter' = Inc(tm_isr_to_task_counter)
    /\ i' = i + 1
    /\ pc' = IF i' < IterationCount THEN "raise" ELSE "report"
    /\ UNCHANGED <<kernel, interrupts, queues, pmu, calls, tm_isr_counter,
                   isr_message_counter, refused>>

\* The summary; then the thread suspends itself for good.
Report ==
    /\ Runs(0) /\ pc = "report"
    /\ tm_thread_suspend(0)
    /\ pc' = "stopped"
    /\ UNCHANGED <<interrupts, queues, pmu, calls, i, counters, refused>>

-----------------------------------------------------------------------------
(* tm_isr_message_handler, called by tm_interrupt_handler.                 *)

\* Mutant: the counter moves on before the message is built.
HandlerCountsFirst ==
    /\ tm_interrupt_handler
    /\ tm_isr_counter' = Inc(tm_isr_counter)
    /\ isr_message_counter' = Inc(isr_message_counter)
    /\ IF Port = "Zephyr"
       THEN tm_pmu_profile_start(isr_message_counter')
       ELSE UNCHANGED pmu
    /\ \E ok \in BOOLEAN : /\ tm_queue_send_from_isr(isr_message_counter', ok)
                           /\ refused' = (refused \/ ~ok)
    /\ UNCHANGED <<calls, pc, i, tm_isr_to_task_counter>>

tm_isr_message_handler ==
    /\ tm_interrupt_handler
    /\ tm_isr_counter' = Inc(tm_isr_counter)
    /\ IF Port = "Zephyr"
       THEN tm_pmu_profile_start(isr_message_counter)
       ELSE UNCHANGED pmu
    /\ \E ok \in BOOLEAN : /\ tm_queue_send_from_isr(isr_message_counter, ok)
                           /\ refused' = (refused \/ ~ok)
    /\ isr_message_counter' = Inc(isr_message_counter)
    /\ UNCHANGED <<calls, pc, i, tm_isr_to_task_counter>>

-----------------------------------------------------------------------------

ThreadStep == Raise \/ Receive \/ EndMeasurement \/ Check \/ Report

Next == Initialize \/ ThreadStep \/ tm_isr_message_handler

\* The running task executes and a posted interrupt is taken.
Fairness ==
    /\ WF_vars(Initialize)
    /\ WF_vars(ThreadStep)
    /\ WF_vars(tm_isr_message_handler)

Spec == Init /\ [][Next]_vars /\ Fairness

-----------------------------------------------------------------------------

TypeOK ==
    /\ KernelTypeOK
    /\ QueueTypeOK(Word)
    /\ PmuTypeOK
    /\ calls \in 0 .. 4
    /\ pc \in Label
    /\ i \in 0 .. IterationCount
    /\ InterruptTypeOK /\ refused \in BOOLEAN
    /\ {tm_isr_counter, isr_message_counter, tm_isr_to_task_counter} \subseteq Word

(***************************************************************************)
(* "[1] : iteration number (i)" (line 147): the thread validates the       *)
(* message of its own iteration, whether the handler ran before or during  *)
(* the receive, and no message is refused in the handler, where nobody     *)
(* looks at the status (line 114).                                         *)
(***************************************************************************)
MessageOfIteration ==
    /\ pc \in {"end", "check"} /\ Runs(0) => buffer[0] = i
    /\ ~refused

(***************************************************************************)
(* The handler starts a measurement under its own counter and the thread   *)
(* ends it under its loop variable (lines 113, 138): entry n of the log    *)
(* was started and ended under name n.                                     *)
(***************************************************************************)
MeasurementsMatch ==
    \A n \in Entry : n < logIndex => point[n] = [name |-> n, ended |-> n]

\* The thread prints its summary, and both totals are complete.
Complete ==
    /\ pc = "report"
    /\ tm_isr_to_task_counter = IterationCount
    /\ tm_isr_counter = IterationCount
=============================================================================
