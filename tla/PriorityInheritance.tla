------------------------ MODULE PriorityInheritance -------------------------
(***************************************************************************)
(* The priority inheritance benchmark, priority_inheritance_test.c.  The   *)
(* low thread takes the mutex and spins until it has inherited; the high   *)
(* thread measures how long it waits for the mutex; the medium thread      *)
(* interferes and reports.  The sleeps are what keeps them in step.        *)
(*                                                                         *)
(* Time is the tick interrupt.  The code relies on the processor being     *)
(* fast: at most MaxLate ticks come while there is still work from an      *)
(* earlier one.                                                            *)
(***************************************************************************)
EXTENDS TmMutexes, PmuLog

CONSTANTS
    IterationCount,  \* ITERATION_COUNT
    MaxLate

High == 0
Med == 1
Low == 2

\* HIGH_TASK_PRIO, MED_TASK_PRIO and LOW_TASK_PRIO.
Priority == [t \in Thread |-> CASE t = High -> 5 [] t = Med -> 10 [] t = Low -> 20]

SharedMutex == 1

\* What the benchmark is built with.
Configuration ==
    /\ Thread = {High, Med, Low} /\ Mutex = {SharedMutex} /\ Nobody \notin Task
    /\ IterationCount \in 1 .. MaxLogEntries /\ MaxLate \in Nat

VARIABLES
    calls,           \* calls of the initialisation made so far
    pc,              \* pc[t]: the statement task t executes next
    cycle,           \* cycle[t]: i of the loops of the high and the low thread
    inversion_count,
    due,             \* due[t]: the ticks until t has slept enough
    late             \* the ticks that came while there was work to do

locals == <<pc, cycle, inversion_count>>
time == <<due, late>>
vars == <<kernel, mutexes, pmu, calls, locals, time>>

Label == {"initialize", "done", "sleep", "get", "end", "put", "rest", "spin",
          "count", "work", "check", "report", "suspend"}

Goto(t, label) == pc' = [pc EXCEPT ![t] = label]

Init ==
    /\ KernelInit /\ MutexInit /\ Clear
    /\ calls = 0
    /\ pc = [t \in Task |-> CASE t = Main -> "initialize" [] t = High -> "sleep"
                              [] t = Med -> "work" [] t = Low -> "get"]
    /\ cycle = [t \in {High, Low} |-> 0]
    /\ inversion_count = 0
    /\ due = [t \in Thread |-> 0] /\ late = 0

\* tm_setup_pmu and the names come first; FreeRTOS starts a thread on creation.
Initialize ==
    /\ Runs(Main) /\ pc[Main] = "initialize"
    /\ calls' = calls + 1
    /\ \/ calls = 0 /\ tm_mutex_create(SharedMutex) /\ UNCHANGED kernel
       \/ \E n \in 1 .. 3 :
            LET t == <<Low, Med, High>>[n]
            IN  \/ /\ calls = n /\ tm_thread_create(t, Priority[t])
                   /\ base' = level' /\ UNCHANGED <<owner, waiter>>
                \/ calls = n + 3 /\ tm_thread_resume(t) /\ UNCHANGED mutexes
       \/ calls = 7 /\ Return(Main) /\ UNCHANGED mutexes
    /\ Goto(Main, IF calls = 7 THEN "done" ELSE "initialize")
    /\ UNCHANGED <<pmu, cycle, inversion_count, time>>

-----------------------------------------------------------------------------
(* The threads.                                                            *)

At(t, label) == Runs(t) /\ pc[t] = label

\* A timeout of Zephyr begins with the next tick.
tm_thread_sleep_ticks(self, ticks) ==
    /\ tm_thread_sleep(self)
    /\ due' = [due EXCEPT ![self] = IF Port = "Zephyr" THEN ticks + 1 ELSE ticks]
    /\ UNCHANGED late

\* Mutant: the high thread does not give the low one time to take the mutex.
HighHurries ==
    /\ At(High, "sleep") /\ Goto(High, "get")
    /\ tm_pmu_profile_start(cycle[High])
    /\ UNCHANGED <<kernel, mutexes, time, calls, cycle, inversion_count>>

HighSleep ==
    /\ At(High, "sleep") /\ Goto(High, "get")
    /\ tm_thread_sleep_ticks(High, 15)
    /\ UNCHANGED <<mutexes, pmu, calls, cycle, inversion_count>>

\* The first time this is the start of the measurement, too.
HighGet ==
    /\ At(High, "get")
    /\ IF waiter[SharedMutex] = Nobody /\ owner[SharedMutex] # High
       THEN tm_pmu_profile_start(cycle[High]) ELSE UNCHANGED pmu
    /\ \E done \in BOOLEAN : /\ tm_mutex_get(High, SharedMutex, done)
                             /\ Goto(High, IF done THEN "end" ELSE "get")
    /\ UNCHANGED <<calls, cycle, inversion_count, time>>

HighEnd ==
    /\ At(High, "end") /\ Goto(High, "put")
    /\ tm_pmu_profile_end(cycle[High])
    /\ UNCHANGED <<kernel, mutexes, calls, cycle, inversion_count, time>>

HighPut ==
    /\ At(High, "put") /\ Goto(High, "rest")
    /\ tm_mutex_put(High, SharedMutex)
    /\ UNCHANGED <<pmu, calls, cycle, inversion_count, time>>

HighRest ==
    /\ At(High, "rest")
    /\ tm_thread_sleep_ticks(High, 5)
    /\ cycle' = [cycle EXCEPT ![High] = @ + 1]
    /\ Goto(High, IF cycle'[High] = IterationCount THEN "suspend" ELSE "sleep")
    /\ UNCHANGED <<mutexes, pmu, calls, inversion_count>>

LowGet ==
    /\ At(Low, "get")
    /\ \E done \in BOOLEAN : /\ tm_mutex_get(Low, SharedMutex, done)
                             /\ Goto(Low, IF done THEN "spin" ELSE "get")
    /\ UNCHANGED <<pmu, calls, cycle, inversion_count, time>>

\* While it has its own priority it goes on spinning.
Nominal == tm_task_priority_get(Low) = Priority[Low]

LowSpin ==
    /\ At(Low, "spin") /\ ~Nominal
    /\ Goto(Low, "put")
    /\ UNCHANGED <<kernel, mutexes, pmu, calls, cycle, inversion_count, time>>

LowPut ==
    /\ At(Low, "put") /\ Goto(Low, "count")
    /\ tm_mutex_put(Low, SharedMutex)
    /\ UNCHANGED <<pmu, calls, cycle, inversion_count, time>>

LowCount ==
    /\ At(Low, "count")
    /\ inversion_count' = inversion_count + 1
    /\ tm_thread_sleep_ticks(Low, 1)
    /\ cycle' = [cycle EXCEPT ![Low] = @ + 1]
    /\ Goto(Low, IF cycle'[Low] = IterationCount THEN "suspend" ELSE "get")
    /\ UNCHANGED <<mutexes, pmu, calls>>

Suspend(t) ==
    /\ At(t, "suspend") /\ Goto(t, "done")
    /\ tm_thread_suspend(t)
    /\ UNCHANGED <<mutexes, pmu, calls, cycle, inversion_count, time>>

\* The interference, then two ticks without.
MedWork ==
    /\ At(Med, "work") /\ Goto(Med, "check")
    /\ tm_thread_sleep_ticks(Med, 2)
    /\ UNCHANGED <<mutexes, pmu, calls, cycle, inversion_count>>

MedCheck ==
    /\ At(Med, "check")
    /\ IF inversion_count >= IterationCount
       THEN tm_thread_sleep_ticks(Med, 10) /\ Goto(Med, "report")
       ELSE UNCHANGED <<kernel, time>> /\ Goto(Med, "work")
    /\ UNCHANGED <<mutexes, pmu, calls, cycle, inversion_count>>

MedReport ==
    /\ At(Med, "report") /\ Goto(Med, "done")
    /\ tm_thread_exit(Med)
    /\ UNCHANGED <<mutexes, pmu, calls, cycle, inversion_count, time>>

-----------------------------------------------------------------------------

\* Nothing to do, or nothing but the low thread's spinning.
Idle == \A t \in Task : state[t] = "ready" => t = Low /\ pc[Low] = "spin" /\ Nominal

\* No two of the threads have the same level.
Tick ==
    /\ Idle \/ late < MaxLate
    /\ late' = IF Idle THEN 0 ELSE late + 1
    /\ due' = [t \in Thread |-> IF state[t] = "asleep" THEN due[t] - 1 ELSE due[t]]
    /\ LET woken == {t \in Thread : state[t] = "asleep" /\ due[t] = 1}
           on(l) == {t \in woken : level[t] = l}
       IN  /\ state' = [t \in Task |-> IF t \in woken THEN "ready" ELSE state[t]]
           /\ ready' = [l \in Level |-> IF on(l) = {} THEN ready[l]
                                       ELSE Append(ready[l], CHOOSE t \in on(l) : TRUE)]
    /\ UNCHANGED <<level, mutexes, pmu, calls, locals>>

TaskStep ==
    \/ Initialize
    \/ HighSleep \/ HighGet \/ HighEnd \/ HighPut \/ HighRest
    \/ LowGet \/ LowSpin \/ LowPut \/ LowCount
    \/ MedWork \/ MedCheck \/ MedReport
    \/ Suspend(High) \/ Suspend(Low)

Next == TaskStep \/ Tick

\* The running task executes, and the ticks come.
Fairness == WF_vars(TaskStep) /\ WF_vars(Tick)

Spec == Init /\ [][Next]_vars /\ Fairness

-----------------------------------------------------------------------------

TypeOK ==
    /\ KernelTypeOK /\ MutexTypeOK /\ PmuTypeOK
    /\ calls \in 0 .. 8
    /\ pc \in [Task -> Label]
    /\ cycle \in [{High, Low} -> 0 .. IterationCount]
    /\ inversion_count \in 0 .. IterationCount
    /\ due \in [Thread -> 0 .. 16] /\ late \in 0 .. MaxLate

(***************************************************************************)
(* Nobody but the owner of a mutex that is waited for runs above its own   *)
(* level: the put ends the inheritance (tm_porting_layer_*, tm_mutex_put). *)
(***************************************************************************)
LevelReturned ==
    \A t \in Task : level[t] # base[t] =>
        owner[SharedMutex] = t /\ waiter[SharedMutex] # Nobody

(***************************************************************************)
(* What is measured is an inversion: whenever the high thread has got the  *)
(* mutex, the low one has just put it, in its own cycle of the same        *)
(* number.  Only the lengths of the sleeps see to that                     *)
(* (priority_inheritance_test.c:136-138).                                  *)
(***************************************************************************)
MeasuresInversions ==
    pc[High] \in {"end", "put"} => pc[Low] = "count" /\ cycle[Low] = cycle[High]

(***************************************************************************)
(* When the medium thread reports, every cycle has its measurement and the *)
(* "short delay for the other tasks to finish"                             *)
(* (priority_inheritance_test.c:179) was long enough for both.             *)
(***************************************************************************)
CompleteReport ==
    Runs(Med) /\ pc[Med] = "report" =>
        /\ \A i \in 0 .. IterationCount - 1 :
              Found(i) # {} /\ point[Printed(i)].ended = i
        /\ state[High] = "suspended" /\ state[Low] = "suspended"

(***************************************************************************)
(* The inheritance bounds the inversion: while the high thread waits for   *)
(* the mutex, the medium one does not run.                                 *)
(***************************************************************************)
NoInterference == [][state[High] = "blocked" => pc'[Med] = pc[Med]]_vars

(***************************************************************************)
(* The test comes to its end: no thread spins or waits for the other for   *)
(* ever.                                                                   *)
(***************************************************************************)
TestCompletes == <>(pc[Med] = "done")
=============================================================================
