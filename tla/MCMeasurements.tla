--------------------------- MODULE MCMeasurements ---------------------------
(***************************************************************************)
(* The benchmarks whose only result is the profile log, one of which is    *)
(* chosen at the start: build is the port of the priority inheritance      *)
(* benchmark or "throughput", the memory throughput benchmark.  Thread 2   *)
(* is never created in the latter.                                         *)
(***************************************************************************)
EXTENDS MemoryThroughput

CONSTANTS
    Mutex, Nobody, MaxLate,
    Cycles  \* ITERATION_COUNT of the priority inheritance benchmark

VARIABLES build, owner, waiter, base, cycle, inversion_count, due, late

\* The priority inheritance benchmark on one port.
Inheritance(port) == INSTANCE PriorityInheritance WITH
    Port <- port, IterationCount <- Cycles

InheritancePort == {"FreeRTOS", "ThreadX", "Zephyr"}

ASSUME MeasurementsConfiguration ==
    Configuration /\ \A port \in InheritancePort : Inheritance(port)!Configuration

inheritance == <<owner, waiter, base, cycle, inversion_count, due, late>>
measurement == <<register, reading, since, took, i>>
mcvars == <<vars, inheritance, build>>

\* The variables of the benchmark that is not run.
Without(v) == v = <<>>

MCInit ==
    \/ /\ \E port \in InheritancePort : build = port /\ Inheritance(port)!Init
       /\ Without(register) /\ Without(reading) /\ Without(since) /\ Without(took)
       /\ Without(i)
    \/ /\ build = "throughput" /\ Init
       /\ Without(owner) /\ Without(waiter) /\ Without(base) /\ Without(cycle)
       /\ Without(inversion_count) /\ Without(due) /\ Without(late)

MCTaskStep ==
    /\ \/ /\ \E port \in InheritancePort : build = port /\ Inheritance(port)!TaskStep
          /\ UNCHANGED measurement
       \/ /\ build = "throughput" /\ TaskStep
          /\ UNCHANGED inheritance
    /\ UNCHANGED build

MCTick ==
    /\ \/ /\ \E port \in InheritancePort : build = port /\ Inheritance(port)!Tick
          /\ UNCHANGED measurement
       \/ /\ build = "throughput" /\ Wake
          /\ UNCHANGED inheritance
    /\ UNCHANGED build

MCNext == MCTaskStep \/ MCTick

\* As in PriorityInheritance.
MCSpec ==
    /\ MCInit /\ [][MCNext]_mcvars
    /\ WF_mcvars(MCTaskStep) /\ WF_mcvars(MCTick)

-----------------------------------------------------------------------------

MCTypeOK ==
    /\ build = "throughput" => TypeOK
    /\ \A port \in InheritancePort : build = port => Inheritance(port)!TypeOK

\* No thread keeps the level it inherited, see PriorityInheritance, and every
\* variable of either benchmark has its type.
LevelReturned ==
    /\ MCTypeOK
    /\ \A port \in InheritancePort : build = port => Inheritance(port)!LevelReturned

\* Every measurement is of an inversion; see PriorityInheritance.
MeasuresInversions ==
    \A port \in InheritancePort : build = port => Inheritance(port)!MeasuresInversions

\* The report finds everything finished; see PriorityInheritance.
CompleteReport ==
    \A port \in InheritancePort : build = port => Inheritance(port)!CompleteReport

\* What the driver logs is what the counters counted; see PmuDriver.
LoggedExactly == build = "throughput" => ValuesExact

\* The report prints the first run, under its own names; see MemoryThroughput.
FirstRunPrinted == build = "throughput" => FirstRunReported

\* The medium thread does not run while the high one waits for the mutex
\* (priority_inheritance_test.c:143-146).
NoInterference ==
    [][build # "throughput" /\ state[0] = "blocked" => pc'[1] = pc[1]]_mcvars

\* The medium thread comes to the end of the test
\* (priority_inheritance_test.c:176-188).
TestCompletes == <>(build = "throughput" \/ pc[1] = "done")
=============================================================================
