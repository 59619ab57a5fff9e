---------------------------- MODULE MCSwitching -----------------------------
(***************************************************************************)
(* The two benchmarks in which a pair of tasks passes the processor to and *)
(* fro, with semaphores or by relinquishing, one of which is chosen at the *)
(* start: build is "semaphores" or "relinquish".                           *)
(***************************************************************************)
EXTENDS TaskSync

CONSTANT SwitchIterations  \* ITERATION_COUNT of the context switching test

VARIABLES build, global_pmu_index, counter, last_count, pmu_done

Switch == INSTANCE ContextSwitch WITH IterationCount <- SwitchIterations

ASSUME SwitchConfiguration == Switch!Configuration

switchvars == <<global_pmu_index, counter, last_count, pmu_done>>
syncvars == <<semaphores, counters, report>>
mcvars == <<vars, switchvars, build>>

MCInit ==
    \/ /\ build = "semaphores" /\ Init
       /\ global_pmu_index = 0 /\ counter = 0 /\ last_count = 0 /\ pmu_done = FALSE
    \/ /\ build = "relinquish" /\ Switch!Init
       /\ SemaphoreInit
       /\ task1_counter = 0 /\ task2_counter = 0
       /\ last_total = 0 /\ once = FALSE

MCMainStep ==
    /\ \/ build = "semaphores" /\ (Initialize \/ Sleep \/ Report) /\ UNCHANGED switchvars
       \/ build = "relinquish" /\ (Switch!Initialize \/ Switch!Sleep \/ Switch!Report)
          /\ UNCHANGED syncvars
    /\ UNCHANGED build

MCPairStep ==
    /\ \/ build = "semaphores" /\ WriterStep /\ UNCHANGED switchvars
       \/ build = "relinquish" /\ Switch!SwitchStep /\ UNCHANGED syncvars
    /\ UNCHANGED build

\* The tick is the same in both.
MCWake == Wake /\ UNCHANGED <<switchvars, build>>

MCNext == MCMainStep \/ MCPairStep \/ MCWake

\* As in TaskSync and ContextSwitch.
MCSpec ==
    /\ MCInit /\ [][MCNext]_mcvars
    /\ WF_mcvars(MCMainStep) /\ WF_mcvars(MCWake) /\ SF_mcvars(MCPairStep)

-----------------------------------------------------------------------------

MCTypeOK ==
    /\ build = "semaphores" => TypeOK
    /\ build = "relinquish" => Switch!TypeOK

(***************************************************************************)
(* Every yield of the context switching test is measured under its own     *)
(* name (context_switching_test.c:39-44, 56-59); see ContextSwitch.        *)
(***************************************************************************)
SwitchesLogged == build = "relinquish" => Switch!SwitchesLogged

(***************************************************************************)
(* One token between the two semaphores (task_synchronization.c:163-169),  *)
(* see TaskSync, and the types of the variables.                           *)
(***************************************************************************)
TokenKept == MCTypeOK /\ (build = "semaphores" => OneToken)

(***************************************************************************)
(* The pair counts in turns for ever: task 2 before task 1, although task  *)
(* 1 has the higher priority (task_synchronization.c:168-173), and the     *)
(* high before the low task, every relinquish being a context switch       *)
(* (context_switching_test.c:44, 61).                                      *)
(***************************************************************************)
Turns == INSTANCE Rounds WITH
    Thread <- 1 .. 2,
    Slot <- [t \in 1 .. 2 |-> t],
    counter <- IF build = "semaphores" THEN <<task2_counter, task1_counter>> ELSE counter

PairTakesTurns == Turns!Spec
=============================================================================
