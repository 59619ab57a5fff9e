---------------------------- MODULE MCProcessing ----------------------------
(***************************************************************************)
(* The four one-thread benchmarks on the three ports; port and benchmark   *)
(* are chosen at the start.  The variables and definitions have names of   *)
(* their own, so that a module may extend this one and MCMessages.         *)
(***************************************************************************)
EXTENDS TmSemaphores, TmQueues, UnsignedLong

CONSTANTS HeapBlocks, NoBlock  \* of TmMemory

VARIABLES
    process_port, process_test,
    process_calls, process_pc,  \* test, calls and pc of Processing
    free, memory_ptr,           \* of TmMemory
    sent, counter, last_counter

ProcessPort == {"FreeRTOS", "ThreadX", "Zephyr"}

On(p) == INSTANCE Processing WITH
    Port <- p,
    Thread <- {0}, Semaphore <- {0}, MaxPriorities <- 32,
    test <- process_test, calls <- process_calls, pc <- process_pc

ASSUME ProcessAssumptions ==
    /\ \A p \in ProcessPort : On(p)!Configuration
    /\ Main # 0 /\ None # 0

processvars == <<kernel, semaphores, queues, free, memory_ptr, process_port, process_test,
                 process_calls, process_pc, sent, counter, last_counter>>

ProcessInit == \E p \in ProcessPort : process_port = p /\ On(p)!Init

ProcessMainStep ==
    (\E p \in ProcessPort : process_port = p /\ On(p)!MainStep) /\ UNCHANGED process_port

ProcessThreadStep ==
    (\E p \in ProcessPort : process_port = p /\ On(p)!ThreadStep) /\ UNCHANGED process_port

ProcessWake ==
    (\E p \in ProcessPort : process_port = p /\ On(p)!Wake) /\ UNCHANGED process_port

ProcessNext == ProcessMainStep \/ ProcessWake \/ ProcessThreadStep

\* As in Processing.
ProcessSpec ==
    /\ ProcessInit /\ [][ProcessNext]_processvars
    /\ WF_processvars(ProcessMainStep) /\ WF_processvars(ProcessWake)
    /\ SF_processvars(ProcessThreadStep)

-----------------------------------------------------------------------------

ProcessTypeOK == \A p \in ProcessPort : process_port = p => On(p)!TypeOK

(***************************************************************************)
(* The thread does not run before the objects it uses exist; see           *)
(* Processing.                                                             *)
(***************************************************************************)
CreatedInTime == \A p \in ProcessPort : process_port = p => On(p)!CreatedInTime

(***************************************************************************)
(* Every turn of a thread gives back what it took                          *)
(* (tm_memory_allocation_test.c:98-104), see Processing, and every         *)
(* variable has its type.                                                  *)
(***************************************************************************)
TurnsBalance ==
    /\ ProcessTypeOK
    /\ \A p \in ProcessPort : process_port = p => On(p)!TurnsBalance

(***************************************************************************)
(* "Basic processing thread died!" and its like                            *)
(* (tm_basic_processing_test.c:161) is printed when the counter stands     *)
(* still between two reports: it moves again and again.                    *)
(***************************************************************************)
NeverStandsStill == []<><<counter' # counter>>_processvars
=============================================================================
