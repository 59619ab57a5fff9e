---------------------------- MODULE MCInterrupts ----------------------------
(***************************************************************************)
(* The interrupt preemption and the interrupt processing benchmark, one of *)
(* which is chosen at the start, each with the software interrupt taken    *)
(* any number of statements late or at once.  The processing test has one  *)
(* thread; thread 1 of the other test is never created in it.              *)
(***************************************************************************)
EXTENDS InterruptPreemption

CONSTANTS Semaphore, None

VARIABLES
    test,  \* the benchmark: "preemption" or "processing"
    late,  \* the processor may execute on before it takes the interrupt
    count, wants

Processing == INSTANCE InterruptProcessing

ASSUME InterruptsConfiguration ==
    Configuration /\ Processing!Configuration /\ None \notin Semaphore

semaphores == <<count, wants>>
mcvars == <<vars, test, late, semaphores>>

MCInit ==
    /\ late \in BOOLEAN
    /\ \/ test = "preemption" /\ Init /\ count = 0 /\ wants = 0
       \/ test = "processing" /\ Processing!Init

\* What a step of the benchmark leaves alone.
OfPreemption == test = "preemption" /\ UNCHANGED <<test, late, semaphores>>
OfProcessing == test = "processing" /\ UNCHANGED <<test, late>>

\* No task executes while an interrupt is posted that is taken at once.
Executes == late \/ ~pending

MCMainStep ==
    /\ Executes
    /\ \/ OfPreemption /\ MainStep
       \/ OfProcessing /\ Processing!MainStep

MCThreadStep ==
    /\ Executes
    /\ \/ OfPreemption /\ ThreadStep
       \/ OfProcessing /\ Processing!ThreadStep

MCWake ==
    \/ OfPreemption /\ Wake
    \/ OfProcessing /\ Processing!Wake

MCHandler ==
    \/ OfPreemption /\ tm_interrupt_preemption_handler
    \/ OfProcessing /\ Processing!tm_interrupt_processing_handler

MCNext == MCMainStep \/ MCWake \/ MCThreadStep \/ MCHandler

\* As in the two benchmarks.
MCSpec ==
    /\ MCInit /\ [][MCNext]_mcvars
    /\ WF_mcvars(MCMainStep) /\ WF_mcvars(MCWake) /\ WF_mcvars(MCHandler)
    /\ SF_mcvars(MCThreadStep)

-----------------------------------------------------------------------------

MCTypeOK ==
    /\ test = "preemption" => TypeOK
    /\ test = "processing" => Processing!TypeOK

(***************************************************************************)
(* No report of a working kernel prints its ERROR line                     *)
(* (tm_interrupt_preemption_test.c:210, tm_interrupt_processing_test.c:    *)
(* 191); see the benchmarks.                                               *)
(***************************************************************************)
NoFalseAlarms ==
    /\ test = "preemption" => NoFalseAlarm
    /\ test = "processing" => Processing!NoFalseAlarm

(***************************************************************************)
(* The thread and the handler count the same interrupts                    *)
(* (tm_interrupt_processing_test.c:120-154), see InterruptProcessing, and  *)
(* every variable of either benchmark has its type.                        *)
(***************************************************************************)
InterruptsCounted ==
    MCTypeOK /\ (test = "processing" => Processing!InterruptsCounted)

(***************************************************************************)
(* "We won't get back here until the interrupt processing is complete"     *)
(* (tm_interrupt_preemption_test.c:139, tm_interrupt_processing_test.c:    *)
(* 122), where the processor takes the interrupt at once; a late interrupt *)
(* finds thread 1 counting already.                                        *)
(***************************************************************************)
BackIfAtOnce ==
    [][/\ test = "preemption" /\ ~late /\ counter'[1] # counter[1] => InterruptComplete
       /\ test = "processing" /\ ~late => state'[0] # "done"]_mcvars

(***************************************************************************)
(* A resume of a thread that is not suspended is lost                      *)
(* (tm_interrupt_preemption_test.c:162); see InterruptPreemption.          *)
(***************************************************************************)
NoResumeLost == [][test = "preemption" => ResumeTakesEffect]_mcvars

(***************************************************************************)
(* The interrupts go on for ever and every thread gets its part of the     *)
(* processor.  Only the processing benchmark may end, when its interrupt   *)
(* comes too late for the get that does not wait                           *)
(* (tm_interrupt_processing_test.c:129-135).                               *)
(***************************************************************************)
AllCount ==
    /\ test = "preemption" =>
           \A t \in Thread : []<><<test = "preemption" /\ counter'[t] # counter[t]>>_mcvars
    /\ test = "processing" =>
           \/ []<><<counter' # counter>>_mcvars
           \/ <>(late /\ state[0] = "done")
=============================================================================
