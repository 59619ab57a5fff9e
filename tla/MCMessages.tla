----------------------------- MODULE MCMessages -----------------------------
(***************************************************************************)
(* The message benchmarks, thread to thread on Zephyr and ThreadX and      *)
(* interrupt to task on the three ports.  The test and the port are chosen *)
(* at the start; what only the other test uses keeps a fixed value.  The   *)
(* interrupt to task test has one thread; the threads 1 to 6 of the other  *)
(* test are never created in it.                                           *)
(***************************************************************************)
EXTENDS MessageTask

CONSTANTS NoName, MaxLogEntries, IterationCount

VARIABLES
    test,  \* the benchmark: "task" or "isr"
    port,  \* the port it is built with
    logIndex, point, i, pending, enabled, tm_isr_counter, isr_message_counter,
    tm_isr_to_task_counter, refused

ThreadX == INSTANCE MessageTask WITH Port <- "ThreadX"
IsrFreeRTOS == INSTANCE MessageIsr WITH Port <- "FreeRTOS"
IsrThreadX == INSTANCE MessageIsr WITH Port <- "ThreadX"
IsrZephyr == INSTANCE MessageIsr WITH Port <- "Zephyr"

ASSUME MessagesConfiguration ==
    /\ Port = "Zephyr" /\ Configuration /\ IsrZephyr!Configuration
    /\ MaxLogEntries \in Nat /\ NoName \notin Nat

isrvars == <<logIndex, point, i, pending, enabled, tm_isr_counter, isr_message_counter,
             tm_isr_to_task_counter, refused>>
taskvars == <<local_counter, totals, last_total, open>>
mcvars == <<vars, isrvars, test, port>>

MCInit ==
    \/ /\ test = "task"
       /\ \/ port = "ThreadX" /\ ThreadX!Init
          \/ port = "Zephyr" /\ Init
       /\ logIndex = 0 /\ point = 0 /\ i = 0 /\ pending = FALSE /\ enabled = FALSE
       /\ tm_isr_counter = 0 /\ isr_message_counter = 0 /\ tm_isr_to_task_counter = 0
       /\ refused = FALSE
    \/ /\ test = "isr"
       /\ \/ port = "FreeRTOS" /\ IsrFreeRTOS!Init
          \/ port = "ThreadX" /\ IsrThreadX!Init
          \/ port = "Zephyr" /\ IsrZephyr!Init
       /\ local_counter = 0 /\ last_total = 0 /\ open = {}
       /\ total_sent_counter = 0 /\ total_received_counter = 0

\* What a step of the benchmark leaves alone.
OfTask == test = "task" /\ UNCHANGED <<test, port, isrvars>>
OfIsr == test = "isr" /\ UNCHANGED <<test, port, taskvars>>

MCMainStep ==
    \/ /\ OfTask
       /\ \/ port = "ThreadX" /\ ThreadX!MainStep
          \/ port = "Zephyr" /\ MainStep
    \/ /\ OfIsr
       /\ \/ port = "FreeRTOS" /\ IsrFreeRTOS!Initialize
          \/ port = "ThreadX" /\ IsrThreadX!Initialize
          \/ port = "Zephyr" /\ IsrZephyr!Initialize

MCThreadStep ==
    \/ /\ OfTask
       /\ \/ port = "ThreadX" /\ ThreadX!ThreadStep
          \/ port = "Zephyr" /\ ThreadStep
    \/ /\ OfIsr
       /\ \/ port = "FreeRTOS" /\ IsrFreeRTOS!ThreadStep
          \/ port = "ThreadX" /\ IsrThreadX!ThreadStep
          \/ port = "Zephyr" /\ IsrZephyr!ThreadStep

\* The tick is the same on both ports.
MCWake == OfTask /\ Wake

MCHandler ==
    /\ OfIsr
    /\ \/ port = "FreeRTOS" /\ IsrFreeRTOS!tm_isr_message_handler
       \/ port = "ThreadX" /\ IsrThreadX!tm_isr_message_handler
       \/ port = "Zephyr" /\ IsrZephyr!tm_isr_message_handler

MCNext == MCMainStep \/ MCThreadStep \/ MCWake \/ MCHandler

(***************************************************************************)
(* As in MessageTask and MessageIsr; the weak fairness that MessageIsr     *)
(* states for its thread follows from the strong one.                      *)
(***************************************************************************)
MCSpec ==
    /\ MCInit /\ [][MCNext]_mcvars
    /\ WF_mcvars(MCMainStep) /\ WF_mcvars(MCWake) /\ WF_mcvars(MCHandler)
    /\ SF_mcvars(MCThreadStep)

-----------------------------------------------------------------------------

MCTypeOK ==
    /\ test = "task" => TypeOK
    /\ test = "isr" => IsrZephyr!TypeOK

(***************************************************************************)
(* Every message of the producers (message_task_test.c:150-163) is at one  *)
(* place until one consumer has checked it; see MessageTask.               *)
(***************************************************************************)
MessagesOnce == test = "task" => EachMessageOnce

(***************************************************************************)
(* The two totals of the report (message_task_test.c:238-241) differ by    *)
(* the messages under way, see MessageTask, and every variable of either   *)
(* benchmark has its type.                                                 *)
(***************************************************************************)
TotalsAgree == MCTypeOK /\ (test = "task" => TotalsBalance)

(***************************************************************************)
(* The thread validates the message of its own iteration on every port     *)
(* (message_isr_test.c:147), whether the kernel hands the message to the   *)
(* waiting thread or has the thread repeat its receive; see MessageIsr.    *)
(***************************************************************************)
MessageOfIteration == test = "isr" => IsrZephyr!MessageOfIteration

(***************************************************************************)
(* With Zephyr's profile log every measurement the handler starts is ended *)
(* by the thread under the same name (message_isr_test.c:113, 138).        *)
(***************************************************************************)
MeasurementsMatch == test = "isr" => IsrZephyr!MeasurementsMatch

(***************************************************************************)
(* All producers and all consumers of message_task_test.c take part for    *)
(* ever: none starves while the others hand messages to each other.        *)
(***************************************************************************)
EveryThreadTakesPart ==
    test = "task" =>
        /\ \A p \in Producer : []<><<OfTask /\ Sent(p)>>_mcvars
        /\ \A c \in Consumer : []<><<OfTask /\ Check(c)>>_mcvars

(***************************************************************************)
(* "After all iterations, report the results" (message_isr_test.c:183):    *)
(* the thread gets to its summary on every port, never waiting for a       *)
(* message that does not come, and both totals it prints are complete.     *)
(***************************************************************************)
CompleteReport == test = "isr" => <>(test = "isr" /\ IsrZephyr!Complete)
=============================================================================
