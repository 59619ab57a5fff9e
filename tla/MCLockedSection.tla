--------------------------- MODULE MCLockedSection --------------------------
(***************************************************************************)
(* The thread locking benchmark on Zephyr (the cfg's Port and Section) and *)
(* ThreadX, and the critical section benchmark on ThreadX, one of which is *)
(* chosen at the start.                                                    *)
(***************************************************************************)
EXTENDS LockedSection

VARIABLE build

Masked == INSTANCE LockedSection
              WITH Port <- "ThreadX", Section <- "critical section", ReporterPriority <- 1
Raised == INSTANCE LockedSection WITH Port <- "ThreadX"

mcvars == <<vars, build>>

MCInit ==
    \/ build = "lock" /\ Init
    \/ build = "masked" /\ Masked!Init
    \/ build = "raised" /\ Raised!Init

MCMainStep ==
    /\ \/ build = "lock" /\ (Initialize \/ Sleep \/ Report)
       \/ build = "masked" /\ (Masked!Initialize \/ Masked!Sleep \/ Masked!Report)
       \/ build = "raised" /\ (Raised!Initialize \/ Raised!Sleep \/ Raised!Report)
    /\ UNCHANGED build

MCBenchmarkStep ==
    /\ \/ build = "lock" /\ BenchmarkStep
       \/ build = "masked" /\ Masked!BenchmarkStep
       \/ build = "raised" /\ Raised!BenchmarkStep
    /\ UNCHANGED build

MCWake ==
    /\ \/ build = "lock" /\ Wake
       \/ build = "masked" /\ Masked!Wake
       \/ build = "raised" /\ Raised!Wake
    /\ UNCHANGED build

MCNext == MCMainStep \/ MCBenchmarkStep \/ MCWake

\* As in LockedSection.
MCSpec ==
    /\ MCInit /\ [][MCNext]_mcvars
    /\ WF_mcvars(MCMainStep) /\ SF_mcvars(MCWake) /\ SF_mcvars(MCBenchmarkStep)

-----------------------------------------------------------------------------

(***************************************************************************)
(* "Number of iterations" to measure (lock_thread_test.c:26, 71-96): in    *)
(* the end each of the ITERATION_COUNT names has an entry in Zephyr's log  *)
(* that was started and ended under it.                                    *)
(***************************************************************************)
AllLocksMeasured ==
    build = "lock" =>
        <>(\A n \in 0 .. IterationCount - 1 : \E i \in Found(n) : point[i].ended = n)
=============================================================================
