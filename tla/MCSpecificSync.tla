--------------------------- MODULE MCSpecificSync ---------------------------
(***************************************************************************)
(* The builds of the specific synchronisation benchmark, one of which is   *)
(* chosen at the start: as shipped, with semaphores on FreeRTOS, and with  *)
(* the native mechanism of each port.  The variables and definitions have  *)
(* names of their own, so that a module may extend this one and            *)
(* MCSwitching, the other benchmarks with two threads.                     *)
(***************************************************************************)
EXTENDS TmSemaphores, RtosSync, UnsignedLong

VARIABLES
    sync_build,
    sync_calls, sync_pc,  \* calls and pc of SpecificSync
    synchronozation_counter, last_counter, signaled

Build == {"shipped", "FreeRTOS", "ThreadX", "Zephyr"}

Sync(b) == INSTANCE SpecificSync WITH
    Port <- IF b = "shipped" THEN "FreeRTOS" ELSE b,
    UseReference <- (b = "shipped"),
    Thread <- 0 .. 1, Semaphore <- 0 .. 1, MaxPriorities <- 32,
    calls <- sync_calls, pc <- sync_pc

ASSUME SpecificAssumptions ==
    /\ \A b \in Build : Sync(b)!Configuration
    /\ Main \notin 0 .. 1 /\ None \notin 0 .. 1

specificvars == <<kernel, semaphores, sync, sync_build, sync_calls, sync_pc,
                  synchronozation_counter, last_counter, signaled>>

SpecificInit == \E b \in Build : sync_build = b /\ Sync(b)!Init

SpecificMainStep ==
    (\E b \in Build : sync_build = b /\ Sync(b)!MainStep) /\ UNCHANGED sync_build

SpecificThreadStep ==
    (\E b \in Build : sync_build = b /\ Sync(b)!ThreadStep) /\ UNCHANGED sync_build

SpecificWake ==
    (\E b \in Build : sync_build = b /\ Sync(b)!Wake) /\ UNCHANGED sync_build

SpecificNext == SpecificMainStep \/ SpecificWake \/ SpecificThreadStep

\* As in SpecificSync.
SpecificSpec ==
    /\ SpecificInit /\ [][SpecificNext]_specificvars
    /\ WF_specificvars(SpecificMainStep) /\ WF_specificvars(SpecificWake)
    /\ SF_specificvars(SpecificThreadStep)

-----------------------------------------------------------------------------

SpecificTypeOK == \A b \in Build : sync_build = b => Sync(b)!TypeOK

(***************************************************************************)
(* Every signal is counted once (the "Time Period Total" of                *)
(* specific_synchronization_test.c:108) with the mechanism of each build,  *)
(* see SpecificSync, and every variable has its type.                      *)
(***************************************************************************)
EverySignalCounted ==
    /\ SpecificTypeOK
    /\ \A b \in Build : sync_build = b => Sync(b)!EverySignalCounted

(***************************************************************************)
(* The report never has to print "Error getting/putting semaphore"         *)
(* (line 104) because the counter stands still; see SpecificSync.          *)
(***************************************************************************)
NeverStandsStill ==
    []<><<synchronozation_counter' # synchronozation_counter>>_specificvars
=============================================================================
