# Verification of the RTOS benchmark suite

TLA+ models, TLC runs and TLAPS proofs for the benchmark suite in `src/`: a set
of scheduling, interrupt, synchronisation, messaging and memory benchmarks
(Thread-Metric, `tm_*`, and the suite's own tests) written against one API,
`tm_api.h`, and three porting layers that implement the API with FreeRTOS,
ThreadX and Zephyr on a single Cortex-R5 core.

A benchmark's numbers mean something only if the program really does what its
comments say: the threads run in the promised order, every measured interval
starts and ends where it should, nothing is lost or counted twice, and the
built-in checks neither stay silent nor raise false alarms.  These are properties of
interleavings - of threads, tick interrupts, a reporter that preempts anywhere -
that no test in the repository exercises.  They are what is specified here.

Contents: 1 the inventory of the system, 2 the modules and how they correspond
to the code, 3 the runs, 4 the proofs, 5 what the checks found, 6 what is left
out, 7 the plan.

## 1. Inventory

### 1.1 Components

| component | files | state | operations |
|---|---|---|---|
| thread services of the ports | `tm_porting_layer_*.c` | thread handles, kernel ready lists, priorities | `tm_thread_create`, `_create_param`, `_resume`, `_suspend`, `_relinquish`, `_exit`, `_sleep`, `_sleep_ticks` |
| semaphore services | same | semaphore array | `tm_semaphore_create`, `_get`, `_wait`, `_put`, `_put_from_isr` |
| queue services | same | queue array, capacity 10, 1 or 8 | `tm_queue_create`, `_send`, `_send_from_isr`, `_receive` |
| mutex services | same | mutexes with priority inheritance | `tm_mutex_create`, `_get`, `_put`, `tm_task_priority_get` |
| memory pools | same | heap, block pool or slab | `tm_memory_pool_create`, `_allocate`, `_deallocate` |
| native synchronisation | same | task notification, event flags or poll signal | `init_rtos_sync`, `rtos_sync_wait`, `rtos_sync_signal` |
| sections and scheduler lock | same | interrupt mask, scheduler lock, preemption threshold | `tm_enter/exit_critical_section`, `tm_suspend/resume_scheduler` |
| profile log (PMU) | `tm_porting_layer_zephyr.c:462-743` | `gProfileObject` | `tm_setup_pmu`, `tm_pmu_profile_start`, `_end`, `_print`, `_print_all`, `_reset` |
| start-up | `main.c`, `main_*.c`, `rtos_config.h` | main task, software interrupt | kernel start, `tm_interrupt_raise`, handler dispatch |
| preemptive scheduling | `tm_preemptive_scheduling_test.c` | five counters, `last_total` | five threads, report in the main task |
| cooperative scheduling | `tm_cooperative_scheduling_test.c` | same | same |
| interrupt preemption | `tm_interrupt_preemption_test.c` | two thread counters, handler counter | two threads, handler, report |
| interrupt processing | `tm_interrupt_processing_test.c` | thread and handler counter, semaphore 0 | thread, handler, report |
| synchronisation / message processing | `tm_synchronization_processing_test.c`, `tm_message_processing_test.c` | one counter, semaphore or queue 0 | one thread, report |
| memory allocation, throughput | `tm_memory_allocation_test.c`, `memory_throughput_test.c` | one counter, pool 0, two buffers | one thread, report |
| basic processing, PMU calibration | `tm_basic_processing_test.c`, `pmu_test.c` | one counter, an array | one thread, report |
| task synchronisation | `task_synchronization.c` | two counters, two semaphores, log | two writers, reporter |
| specific synchronisation | `specific_synchronization_test.c` | one counter, semaphores or native mechanism | waiting and signaling task, report |
| context switching | `context_switching_test.c` | two counters, `global_pmu_index`, log | two tasks, reporter |
| thread locking, critical section | `lock_thread_test.c`, `criticial_section_test.c` | one counter, log | benchmark thread, reporter |
| thread to thread message | `message_task_test.c` | totals, producer counters, queue 0 | three producers, three consumers, reporter |
| interrupt to task message | `message_isr_test.c` | three counters, queue 0, log | receiver, handler |
| priority inheritance | `priority_inheritance_test.c` | cycle counter, mutex, log | low, medium and high task |

### 1.2 How they interact

A benchmark is linked with one port, and only one benchmark is started: the
kernel starts a main task, which runs the benchmark's `..._initialize`.  That
function creates the objects and threads and resumes the threads.  In the
Thread-Metric benchmarks it then becomes the reporter; in the suite's own it
ends (the main task returns to its kernel) and a thread reports.

* Threads share the benchmark's global counters without locks.  Every counter
  has one writer, or writers that cannot preempt each other.
* Threads meet in the kernel objects of the port: a call may block the caller or
  make a more urgent task ready, which takes the processor inside the call.
* The tick interrupt ends sleeps.  It makes the reporter ready at any
  point of any thread.
* `tm_interrupt_raise` posts a software interrupt, whose handler calls port
  services (`tm_thread_resume`, `tm_semaphore_put`, `tm_queue_send_from_isr`).
* Two actors, two threads or a handler and a thread, share one measurement: one
  calls `tm_pmu_profile_start`, the other `tm_pmu_profile_end`, and each
  computes the name of the entry from a variable of its own.

### 1.3 What is hard

* **Preemption anywhere.**  The reporter compares counters, and prints entries
  of the log, between any two statements of the threads.
* **Different kernels under one API.**  FreeRTOS starts a thread when it is
  created, ThreadX and Zephyr do not; FreeRTOS's priorities run the other way; a
  put into a full semaphore is lost or counted; a queue serves its waiters or only
  wakes them.  The benchmarks are written for one of the alternatives.
* **Lost wake-ups.**  A resume of a thread that is not suspended, a put into a
  full binary semaphore and a flag set twice have no effect, without notice.
* **Late interrupts.**  The statement after the raise may run before the handler.
* **Wrapping counters**, a total that wraps five times as early, and a report
  that subtracts and averages what has wrapped.
* **Fixed tables**: ten threads, two or four semaphores, one queue message on
  ThreadX, 64 log entries, 32 names.

Nothing is persistent, and there is no communication beyond the board, so there
are no crashes, restarts, or lost or reordered messages.

### 1.4 What makes each component correct

| component | properties |
|---|---|
| preemptive scheduling | a parent counts only after all its children; counters in complete rounds; no false alarm |
| cooperative scheduling | strict rounds; the period total is exact through every wrap; the report keeps coming on a level it shares |
| interrupt preemption | handler and resumed thread complete before the raising thread goes on; no resume lost; no false alarm |
| interrupt processing | every interrupt counted once by handler and thread; the thread goes on if the interrupt is taken at once |
| task synchronisation | one token between two semaphores; strict turns, task 2 first; measurements match; ids in range |
| specific synchronisation | every signal counted exactly once with each mechanism; the counter never stands still |
| context switching | every relinquish is a switch; every switch logged under its own name |
| locking, critical section | no report from inside a section; reporter not shut out; every section logged |
| thread to thread message | each message at exactly one place; the two totals account for every message; nobody starves |
| interrupt to task message | the message of this very iteration; start and end of a measurement agree; the test completes |
| priority inheritance | only inversions are measured; inherited levels are given back; no interference while the high task waits; the test completes |
| memory throughput | the report shows the first copies under their own names; values exact although counters wrap |
| memory allocation, message / synchronisation / basic processing | objects exist before the thread runs; a turn gives back what it took; the counter never stands still |

## 2. The modules

```
UnsignedLong <- TmReport
UnsignedLong <- Rounds                        abstract: counting in rounds
Kernel <- TmThreads <- TmSemaphores, TmQueues, TmMutexes, RtosSync, TmInterrupts
Kernel <- TmMemory
PmuLog <- PmuDriver                           names only; names and registers

TmPreemptive   = TmThreads + TmReport                     implements Rounds
TmCooperative  = TmThreads + TmReport                     implements Rounds
TaskSync       = TmSemaphores + PmuLog        <- MCSwitching, implements Rounds
ContextSwitch  = TmThreads + PmuLog           <- MCSwitching, implements Rounds
LockedSection  = TmThreads + PmuLog                       <- MCLockedSection
SpecificSync   = TmSemaphores + RtosSync                  <- MCSpecificSync
MessageTask    = TmQueues                                 <- MCMessages (extends it)
MessageIsr     = TmQueues + TmInterrupts + PmuLog         <- MCMessages
InterruptPreemption = TmInterrupts                        <- MCInterrupts (extends it)
InterruptProcessing = TmInterrupts + TmSemaphores         <- MCInterrupts
PriorityInheritance = TmMutexes + PmuLog                  <- MCMeasurements
MemoryThroughput    = TmThreads + PmuDriver               <- MCMeasurements (extends it)
Processing     = TmSemaphores + TmQueues + TmMemory       <- MCProcessing

TmLemmas             = TmThreads + TmReport + TLAPS     shared lemmas
TmPreemptiveProofs   = TmPreemptive + TmLemmas
TmCooperativeProofs  = TmCooperative + TmLemmas
MCSwitchingProofs    = MCSwitching + MCSpecificSync + TmLemmas
LockedSectionProofs  = LockedSection + TmLemmas
MCInterruptsProofs   = MCInterrupts + TmLemmas
MCMeasurementsProofs = MCMeasurements + TmLemmas
MCMessagesProofs     = MCMessages + MCProcessing + TmLemmas
```

`SpecificSync`, `Processing` and `PriorityInheritance` run on several ports at a
time.  Their `MC` modules take one parametrised instance each, `Sync(b)`, `On(p)` and
`Inheritance(port)`, whose parameter stands for `Port` (and for which build, in
`SpecificSync`).  Their proofs are about that instance, with the port as a
variable of every lemma.  `MCSpecificSync` and `MCProcessing` have names of their own for what
the other benchmarks have too (`sync_pc` is the `pc` of `SpecificSync`, `process_calls` the `calls`
of `Processing`), so that one module of proofs extends two `MC` modules and the
theorems are about the very specifications that TLC checks.

### 2.1 The kernel and the services

The kernels are not in the repository; `Kernel` models what the ports rely
on.  `ready[l]` is the FIFO list of the ready tasks of level `l`, `Runs(t)`
says that `t` is the head of the most urgent list that is not empty.  Every
action of a thread has `Runs(t)` as a guard, so scheduling follows from
the lists: a call that makes a more urgent task ready disables the caller's next
action until that task has left the processor.

`TmThreads` is the thread services of the three ports and the start-up.  A
service that differs between the ports has one definition per port
(`freertos_thread_create`, `threadx_thread_create`, `zephyr_thread_create`) and
one, with the name of `tm_api.h`, that chooses by the constant `Port`; the same
holds in every service module.  `tm_thread_sleep` puts the caller to sleep and
`TickWakes` ends a sleep at any later moment: in most benchmarks time is not
modelled, the durations matter only for fairness (3.3).

`TmSemaphores` holds the count of each semaphore and who waits for which.
`TmQueues` has the queue, its blocked senders with their messages, its blocked
receivers, and each task's receive buffer; a call that blocks on FreeRTOS is
repeated by the task (`done = FALSE`).  `RtosSync` splits `rtos_sync_wait` in two
steps, because Zephyr clears the signal with plain stores after it was woken.
`TmMutexes` keeps the owner and the waiter of a mutex and the level each task was
created with; a get that waits lifts the owner to the caller's level, the put
lets it fall back.  `TmMemory` is the list of free blocks, of which FreeRTOS's
heap has `HeapBlocks` left.  `TmInterrupts` has the software interrupt, posted by
a thread and taken any time later.  `MCInterrupts` chooses in the initial state
whether it may be `late`; if not, no task executes while it is posted (`Executes`).

`PmuLog` keeps the names each log entry was started and ended with and abstracts the
counter values, so that "measures what its name says" is a statement about two
names.  `PmuDriver` adds what `PmuLog` leaves out: the registers, which wrap, the
start and the value of each counter in each entry, and two histories (`since`,
`took`) that count the same events without wrapping, as the reference the
values are compared with.

### 2.2 The benchmarks

In each module `pc[t]` is the statement of task `t` that comes next, one action
is the code from one visible effect to the next: a port call, an increment of a
counter, a profile call.  The calls of an initialisation are one action with a
counter `calls`, since the threads it starts may run between any two of them.  A
report is one action: the reporter is the most urgent task while it prints - or,
in the cooperative benchmark on FreeRTOS, a task on the threads' level that does
not give the processor up before it sleeps.  The counters, names
of functions and variables are those of the source; `map` in
`PROJECT.json` gives the lines of every definition.

`MC` modules put several builds, or several benchmarks of a kind, in one run: a
variable `build`, `port` or `test` is chosen in the initial state and never
changes.  The builds are INSTANCEs that share variables, or one build extends
the component and the others are instances of it.  What the chosen
benchmark does not use keeps a fixed value, and properties are guarded by the choice.

**Time in `PriorityInheritance`.**  This benchmark is kept in step by nothing but
the lengths of its sleeps, so its sleeps count ticks (`due`) and the tick is an
action.  The code relies on the processor being fast compared with the tick; the
model says how fast: at most `MaxLate` ticks in a row come while there is still
work from an earlier one.  With `MaxLate = 0` all work is done between two ticks.

`Rounds` is the abstract specification of the scheduling benchmarks: threads
count in rounds, in the order of `Slot`, for ever.  `TmPreemptive`
(most urgent first), `TmCooperative` (order of creation), `TaskSync` (task 2
first) and `ContextSwitch` (high task first) implement it with
the refinement mapping that keeps the counters only.

## 3. The runs

### 3.1 What each run checks

| run | instance | properties | states |
|---|---|---|---|
| `preemptive` | ThreadX, word 0..31 | `TypeOK`, `NoFalseAlarm`, `BackAfterChildren`, `CountsInRounds` | 50 thousand |
| `preemptive_active` | FreeRTOS, word 0..31 | `NoFalseAlarm`, violated | |
| `cooperative` | FreeRTOS, word 0..31 | `TypeOK`, `NoFalseAlarm`, `PeriodTotalExact`, `CountsInRounds`, `ReportsForever` | 125 thousand |
| `switching` | Zephyr, word 0..7: semaphores with 3 names, relinquish with 5 | `TokenKept`, `PrintsMatch`, `SwitchesLogged`, `PairTakesTurns` | 5.0 thousand |
| `task_sync_ids` | FreeRTOS | `SemaphoreIdsInRange`, violated | |
| `sections` | scheduler lock of Zephyr and of ThreadX, critical section of ThreadX | `SectionsLogged`, `ReportsOutside`, `AllLocksMeasured`, `ReportsForever` | 2.6 thousand |
| `section_priority` | FreeRTOS, reporter with priority 1 | `InitializationEnds`, violated | |
| `specific_sync` | semaphores on FreeRTOS; native mechanism on each port; word 0..15 | `EverySignalCounted`, `NeverStandsStill` | 8.0 thousand |
| `messages` | thread to thread on ThreadX and Zephyr; interrupt to task on all ports, 10 iterations; word 0..11 | `MessagesOnce`, `TotalsAgree`, `MessageOfIteration`, `MeasurementsMatch`, `EveryThreadTakesPart`, `CompleteReport` | 218 thousand |
| `interrupts` | both benchmarks on Zephyr, each with the interrupt at once and late; word 0..31 | `NoFalseAlarms`, `InterruptsCounted`, `BackIfAtOnce`, `NoResumeLost`, `AllCount` | 52 thousand |
| `measurements` | priority inheritance on all ports, 3 cycles; memory throughput on Zephyr, 4 copies a run, 2 names; log of 3 entries | `LevelReturned`, `MeasuresInversions`, `CompleteReport`, `LoggedExactly`, `FirstRunPrinted`, `NoInterference`, `TestCompletes` | 53 thousand |
| `processing` | four benchmarks on all ports, word 0..15 | `CreatedInTime`, `TurnsBalance`, `NeverStandsStill` | 17 thousand |

The type invariants of the `MC` runs are a conjunct of one of the invariants
(`TokenKept`, `SectionsLogged`, `EverySignalCounted`, `TotalsAgree`,
`InterruptsCounted`, `LevelReturned`, `TurnsBalance`): each covers all builds of its run.

What they show:

* **Order.**  `BackAfterChildren` is the comment "We won't get back here until
  threads 1, 2, 3, and 4 all execute and self-suspend", for every parent and
  with a report at any point.  `CountsInRounds` and `PairTakesTurns` are
  refinements of `Rounds`, liveness included.
  `BackIfAtOnce` is the corresponding comment of the interrupt benchmark; it
  needs an interrupt that is taken before the next statement, and the
  build with a late interrupt shows what remains true without it.
  `CreatedInTime` says that an initialisation may resume its thread before it
  creates what the thread uses, because the main task is the more urgent one.
* **The built-in checks.**  `NoFalseAlarm` (`NoFalseAlarms` of both interrupt
  benchmarks) says that a report sampled anywhere in
  a round does not print its ERROR line, once every thread has counted and as
  long as the total has not wrapped.  Both conditions are needed (5).
* **Measurements.**  `PrintsMatch`, `SwitchesLogged`, `SectionsLogged`,
  `MeasurementsMatch` and `AllLocksMeasured` compare the name a measurement was
  started with to the one it was ended with; the two are computed by
  different actors, at different times, from variables that move in between.
  `MeasuresInversions` says that what the priority inheritance benchmark measures
  is the wait for a lower thread and nothing else.  `LoggedExactly` and
  `FirstRunPrinted` are about what is printed: the value is what was counted,
  and it is the one of the first run.  As the log is full before a run of the
  throughput benchmark ends, later runs are never recorded and every report
  repeats the first.
* **Conservation.**  `TokenKept`, `EverySignalCounted`, `InterruptsCounted`,
  `MessagesOnce`, `TotalsAgree`, `MessageOfIteration`, `TurnsBalance`,
  `LevelReturned` and `PeriodTotalExact` account for what
  is passed between the actors.  `TotalsAgree` also explains why the report
  may show more messages received than sent.
* **Progress.**  `ReportsForever`, `NeverStandsStill`, `EveryThreadTakesPart`,
  `AllCount`, `CompleteReport` (of the interrupt to task message benchmark),
  `TestCompletes`: nobody is starved or forgotten, and the tests that end do end.
* **Inheritance.**  `NoInterference`: the medium thread takes no step while the
  high one waits for the mutex, whenever its own tick comes.

### 3.2 Bounds

| bound | value | why it is enough |
|---|---|---|
| `MaxWord`, the width of `unsigned long` | 7, 11, 15 or 31 | The counters are the only unbounded data.  They are not cut off: they wrap, as in C, at a small word, so every run goes through many wraps.  The properties compare counters that differ by a few; with 31 a total of five wraps after six rounds, which leaves complete rounds before and after the wrap.  With 11 twelve messages of one producer are told apart, which is what can be under way; with 10 the run finds `MessagesOnce` violated.  In the same run the ten iterations of the interrupt to task test end before a counter wraps, as the 32 of the source do. |
| `Thread` | the ids of the benchmark | The real number of threads. |
| `MaxPriorities` | 32 | `configMAX_PRIORITIES`. |
| `IterationCount`, `SwitchIterations` | 2, 3, 5 or 10 | 32 in the source.  The loops treat all names alike but for the first and the last; the word is larger than `IterationCount`, so that the runs go past the last name (in `messages` the test ends with it). |
| `ThroughputIterations` | 4 | 10000 in the source.  Twice the names, and more than the log has entries. |
| `MaxLogEntries` | 3, 4, 6, 8 or 12 | 64 in the source.  More entries than names, or enough for the extra entries after a wrap, so that the log also fills up. |
| `CopyTime` | 3, 7 | What a copy may count: less than the register holds, or all of it, so that the register wraps within a measurement and between two. |
| `HeapBlocks` | 3 | Whatever FreeRTOS's heap has left; the benchmark holds one block at a time. |
| `MaxLate` | 9 | See below. |
| queue | 10, 1 and 8 messages | The ports' own capacities. |
| pool | 15 and 8 blocks | 2048 bytes of blocks of 128 with a pointer, and Zephyr's slab. |

`MaxLate = 9` is the limit of the code: with 10 the run finds `MeasuresInversions`
and `CompleteReport` violated, because then the low thread is still busy with its last
cycle when the 15 ticks of the high one are over, and the medium thread reports before
it has ended.  The margin of the benchmark is therefore nine ticks of delay.
`LevelReturned` and `NoInterference` hold beyond it (checked with 10 and 14).

There is no state constraint, and no symmetry: the ids have an order.

### 3.3 Fairness

* *The running task executes*: weak fairness of the main task's actions.  A
  processor that has a task executes it.
* *The tick goes on*: weak fairness of `Wake` and of `Tick`.  In `LockedSection` it is strong,
  because a masked section holds the tick off, again and again; the interrupt
  stays pending in the controller and is taken as soon as it is unmasked.
* *The threads have their time*: strong fairness of the threads' actions.  The
  reporter sleeps `TM_TEST_DURATION`, 30 seconds, between two reports, and a
  report takes milliseconds.  A behaviour in which the tick wakes the reporter
  before a thread executes one statement, every time, does not exist; weak
  fairness would allow it.  The disjunction of all threads' actions is fair, not each
  thread: which thread runs is decided by the ready lists, so starvation of one thread by
  another would be found.
* *A posted interrupt is taken*: weak fairness of the handler.

In `PriorityInheritance` weak fairness of the tasks is enough, since `MaxLate`
already says that the tick does not keep the processor busy for ever.

Deadlock is checked in all runs but `messages`, one of whose threads suspends itself
for good when it has printed its summary (`message_isr_test.c:183-197`),
`section_priority`, where the assertion stops the program, and `sections`, where
the write through a NULL pointer may.

### 3.4 Mutants

Every property of a passing run comes with a mutant: a plausible mistake in the
code it is about (a forgotten resume, a put that wakes nobody, an index off by
one), written next to the definition it replaces and marked `Mutant:`.  With the
mutant in place the run violates the property.

## 4. The proofs

TLC runs the model on one small instance; the theorems hold for every value of
the constants that the modules' own assumptions admit.  Each property that a
theorem names is one a run checks, and each inductive invariant was checked by TLC on
that run before it was proved.

They share `TmLemmas`, which knows no benchmark: any set of threads,
any number of levels, any port.  `KernelInv` says that the ready lists and the
states of the tasks agree: a listed task is ready, has the level of its list and
is listed once; a ready task is listed.  There is one lemma for each kernel operation the
services are built from (`RelinquishKernel`, `ChangeLevelKernel`, `MakeReadyKernel`,
`CreateKernel`, `ResumeKernel`, ...): it keeps `KernelInv`, and the lists change in this
and no other way.  `MovesKernel` is behind them: a task leaves the head of one
list and joins the end of another.  `OneProcessor` says that at most one task
runs, `RunningIsMostUrgent` that no ready task is more urgent.  The second half
is the arithmetic of the reports: `TotalInc`, `MinusInc`, `InStepNoAlarm`.  The proofs
about the preemptive and the cooperative benchmark take only that half: their
invariants describe the whole ready list, which is where their order is.
`AloneIn` is the kernel of a benchmark without two ready tasks on one level: a list is empty or
has its one ready task.  `FixedLevels` adds that nobody's level changes.  Both take the
sets of tasks and levels as parameters, so that their lemmas can be used for an instance whose `Task`
is not that of the module they are cited in.

Every invariant and every action property of the passing runs is stated by a theorem,
and so is the safety part of the refinements of `Rounds`.

### 4.1 The preemptive benchmark

`TmPreemptiveProofs` proves about `TmPreemptive`, for every `MaxWord` and every
`MaxPriorities` above 31, with the assumptions of the modules and
`Port # "FreeRTOS"`:

| theorem | statement |
|---|---|
| `Invariance` | `Spec => []IInv` |
| `TypeCorrect` | `Spec => []TypeOK` |
| `NeverFalseAlarm` | `Spec => []NoFalseAlarm` |
| `ChildrenFirst` | `Spec => BackAfterChildren` |
| `ImplementsRounds` | `Spec => RoundsSpec!Init /\ [][RoundsSpec!Next]_counter` |

The restriction to ThreadX and Zephyr is not for convenience: on FreeRTOS the
properties are false (5.1).

None of the properties is inductive.  That thread 0 finds
all counters one ahead when it counts follows from what threads 1 to 4 did while it was
waiting, so the invariant has to say what the *shape* of the ready lists means.
`IInv` is the conjunction of

* `Lists`: every list has at most one task, and exactly the ready tasks are
  listed.  It turns `Runs`, which is about lists, into a statement about states.
* `Levels`: created thread `t` is on level `10 - t`, the main task on 1.  Hence
  the running thread is the ready thread with the highest number.
* `Labels`: where each task can be; a thread that is not ready is at the start
  of its loop.
* `Start`: nothing has happened before thread 0 is resumed; later it is always ready.
* `Nesting`: the ready threads are `0 .. k`, and all but `k` wait in
  "count".  This is the resume chain as a stack.
* `InRound`: the label of the topmost thread tells who has counted in this
  round: from "resume" on nobody above; in "count", when the child is back,
  everyone above; in "suspend" also the thread itself.
* `WithinOne`: each counter is thread 0's or one more, which bounds what a report can see.

There is one lemma per action (`CreateInv` to `SuspendInv`), each with one step
per conjunct the action disturbs; `MakeReadyLists` and `BlockLists` are the
two facts about the kernel they share, `RunsThread` says what owning the
processor implies.  `NeverFalseAlarm` needs `InStepNoAlarm`: if
all counters are `c` or `c + 1` and five times the largest fits the word, no sum
wraps and the average is between them.  `CountingStep` extracts from
`IInv` and a step that changes the counters what `ChildrenFirst` and `ImplementsRounds` both use.

TLC checks the same properties in `preemptive`; it is also the run that keeps
`TypeOK` and the assumptions honest.

### 4.2 The cooperative benchmark

`TmCooperativeProofs` proves about `TmCooperative`, for every port and every
`MaxWord`:

| theorem | statement |
|---|---|
| `PeriodIsExact` | `Spec => []PeriodTotalExact` |
| `Invariance` | `Spec => []IInv` |
| `TypeCorrect` | `Spec => []TypeOK` |
| `NeverFalseAlarm` | `Spec => []NoFalseAlarm` |
| `ImplementsRounds` | `Spec => RoundsSpec!Init /\ [][RoundsSpec!Next]_counter` |

`PeriodIsExact` needs no more than the types of the counters (`Period`): an
increment of a counter is one of the total (`TotalInc`) and of its distance from
`last_total` (`MinusInc`), whatever wraps on the way.  It holds for any schedule.

The other four assume `SharedLevel`: on FreeRTOS `configMAX_PRIORITIES` is 32,
with which priority 3 is the level 30 of the main task.  With more the threads are
more urgent than the main task that creates them; the first of them keeps the
processor and there are no rounds.  ThreadX and Zephyr may have any number above 31.

That thread 2 counts after thread 1 and before thread 3 is a property of the ready list, so
the invariant describes the list.  `IInv` is the conjunction of `TypeOK` and

* `Levels`: created threads are on `ThreadLevel`, the main task on `MainLevel`;
* `Starting`, during the initialisation: who is listed after so many `calls`.  The main task heads
  its list, so no thread runs;
* `Started`, from its end on: the list is a `Ring(q, h, m)`, the five
  threads in order from `h` on, with the main task of FreeRTOS at position `m`
  if it is awake, and `Phase(h)` holds of the head: nobody has counted yet and the threads
  below `h` have relinquished (`First`), the threads below `h` are one ahead
  (`Before`), or `h` itself is ahead, too (`After`).

`RingTurns`, `RingLeave` and `RingJoin` say what a relinquish, the main task's
sleep and its waking do to a ring; `CreatedAppend` and `CreatedAll` how the
initialisation builds it.  `RunsThread` says that a thread that owns the
processor is the head of the ring; then one lemma per action
follows, two for the initialisation, in which the ports differ.  What `Count` finds is
`Before`, which is word for word the guard of the abstract `Rounds!Count`.

### 4.3 The PMU driver and one of its callers

`MCMeasurementsProofs` proves first about `PmuDriver`, for every `MaxWord`,
`MaxLogEntries` and set of events, and for a caller that does whatever it likes
(starts and ends of any name, in any order, with any counts in between, and new
set-ups):

| theorem | statement |
|---|---|
| `DriverValuesExact` | `DriverSpec => []ValuesExact` |

The invariant `DriverInv` adds to `ValuesExact`

* `DriverTypeOK`: registers and readings are words, histories are `Long`;
* `Untouched`: nobody has started an entry behind the one at `logIndex`;
* `Running`: for an entry that has been started, register = start + count
  since then, in wrapping addition.  This is the step a difference alone does not
  give: `since` goes on while the register wraps, and the two stay tied as long as the count
  fits the register.

The arithmetic is in the lemmas `CountsOn` (adding to the register what is added
to the count keeps them tied) and `DifferenceIsCount` (the wrapping difference
recovers the count).

The second half is about the memory throughput benchmark as `measurements` runs it:

| theorem | statement |
|---|---|
| `ThroughputLoggedExactly` | `MCSpec => []LoggedExactly` |
| `ThroughputFirstRun` | `MCSpec => []FirstRunPrinted` |

A step of the benchmark is a step of `DriverNext` or leaves the driver alone
(`StepIsDriverStep`), so `DriverInv` is one of its invariants.  That gives the first
theorem, not the second: what the report prints under a name is the *first*
entry with that name, and the log also receives names that do not exist.
`ThroughputInv` adds how far the log is (`Logged`: entry `n` is name `n`, complete) and
`FirstRun`: until all names are logged the worker is in its first run, at
the copy whose number is the log's, and `WorkerFirst`: it heads the list of the
level it shares with the reporter.  So the reporter cannot print, nor set the
driver up again, before the first `IterationCount` entries are what they should be, and afterwards the
log only grows.  The hypothesis is the module's own: a log with room for the names and at
least as many copies as names.

### 4.4 Priority inheritance

The third part of `MCMeasurementsProofs`, for every port, every number of cycles that the log
holds and every `MaxLate <= 9`:

| theorem | statement |
|---|---|
| `InheritanceLevelReturned` | `MCSpec => []LevelReturned` |
| `InheritanceMeasured` | `MCSpec => []MeasuresInversions` |
| `InheritanceComplete` | `MCSpec => []CompleteReport` |
| `InheritanceExcludes` | `MCSpec => NoInterference` |

Nothing but the lengths of its sleeps keeps the three threads in step, so the invariant has to
compare durations.  `InheritanceInv` is the conjunction of the types, `Alone` (no two
ready tasks share a level), `Inherits` (the low thread has the level of the high one
exactly while that is blocked, everybody else its own), `HighLogged` (how far the log is) and either
`NotStarted`, during the initialisation, or

* `Places`, `Owned`: where each thread can be, how long it may still sleep there, and whose the mutex is;
* `InStep`: the high thread is one cycle ahead of the low one from its rest to the
  low one's count, and in no other state;
* `InTime`: `HighLeft > LowLeft`.  `HighLeft` is the number of ticks until the high thread asks for the
  mutex, `LowLeft` how many may come at most until the low one has it: its own
  sleep, the ticks that may still be late, and once more `MaxLate` after a sleep.  A tick takes one from
  each side; a step of the low thread sets `late` back, which is why it is weighed in;
* `LastDelay`: the medium thread finds the last inversion when the low one is about to wake, and its ten
  ticks outlast what `LowLeft` allows.

In a new cycle the high thread has 20 ticks to go (22 on Zephyr, where a sleep starts with the next tick),
and the low one needs up to `9 + 1 + 9` (or `9 + 2 + 9`): that is the whole margin, and
the hypothesis cannot be weakened for `MeasuresInversions` and `CompleteReport` (3.2).
The second hypothesis, `MaxPriorities < 34`, matters on FreeRTOS only: with more levels, the high
thread is at least as urgent as the main task that is still creating the others.  The suite has 32.

### 4.5 Threads that take turns

`MCSwitchingProofs` proves about the two builds of `switching`, for every word, log
length and number of names:

| theorem | statement | hypotheses |
|---|---|---|
| `SyncTokenKept` | `Spec => [](TypeOK /\ OneToken)` | none: every port |
| `SyncPrints` | `Spec => []PrintsMatch` | `IterationCount > 1` |
| `BuildTokenKept` | `MCSpec => []TokenKept` | `Port # "FreeRTOS"` |
| `BuildPrintsMatch` | `MCSpec => []PrintsMatch` | both |
| `BuildSwitchesLogged` | `MCSpec => []SwitchesLogged` | `Port # "FreeRTOS"` |
| `BuildTakesTurns` | `MCSpec => Turns!Init /\ [][Turns!Next]_PairCounter` | `Port # "FreeRTOS"` |

The *task synchronisation* build needs nothing of the scheduler.  `SyncInv` says where
the token is (`OneHolder`: in one semaphore or with one writer), what that
means for the counters (`Ahead`, `InTurn`) and for the log
(`Measuring`, `Current`, `Matched`).  Its two threads have different priorities and
the reporter preempts both; any order in which they run is allowed by the proof.

The *relinquish* build is the opposite: the turns are nothing but the order of the ready list.
`SwitchInv` therefore spells the list out: `HighsTurn`, with the high thread first, or `LowsTurn`, each with
the statement of that thread and with what it makes of counters and log (`Opened`, `Closed`).

Neither hypothesis is for convenience.  With one name, `PrintsMatch` is false:
after the counters have wrapped, name 0 is started, nobody ends it, and with one
name nobody starts another before the next end.  TLC finds this with `IterationCount = 1`.
On FreeRTOS the profile calls have no effect, so the log shows no switch, and for
large `MaxPriorities` the threads are more urgent than the main task that is still creating them.

The last part of the module is about the *specific synchronisation* benchmark, for the semaphores and the
native mechanism of each port, every word, and the 32 levels that `MCSpecificSync` fixes:

| theorem | statement |
|---|---|
| `SpecificSignalsCounted` | `SpecificSpec => []EverySignalCounted` |

It needs only the assumption `SpecificAssumptions` of `MCSpecificSync`, which TLC evaluates: the tasks are
distinct from each other and from the null values.  The waiting and the signaling thread have different
levels, so the kernel is `FixedLevels`.  `SpecificInv` is `Preparing`, while the main task makes its nine
calls, or `Working`: `WaitsForSemaphore` or `WaitsForSignal` say what a blocked and a woken waiter find
in the mechanism - FreeRTOS's handle is the waiter's, ThreadX's flag is cleared in the wake-up,
Zephyr's and FreeRTOS's signal by the waiter afterwards.  `Tally` says that the signals of which the waiter
has not counted one are at most one, the one that is `Pending`.  That a second signal never
comes before the first is counted is the scheduler's doing (`SpecificTurn`): the signaling thread runs only
while the waiting one is blocked, so it never meets the two plain stores of Zephyr's reset half done.

### 4.6 The locked sections

`LockedSectionProofs` proves about `LockedSection`, for every port, section, reporter
priority, number of names and length of the log:

| theorem | statement |
|---|---|
| `LockSectionsLogged` | `Spec => []SectionsLogged` |
| `LockReportsOutside` | `Spec => ReportsOutside` |

`LockInv` ties the program counter of the benchmark thread to what protects it:
the mask or the scheduler lock (`InsideOf`), or on ThreadX the priority 0
(`Raised`), which is given back only if the write through NULL has not stopped the program.
`Measured` says how far the log is: either all sections are measured, or the next name
is what the counter says.

### 4.7 The interrupt benchmarks

`MCInterruptsProofs` proves about the benchmarks of `interrupts`, for every word
and number of priorities, for ThreadX and Zephyr (the module's assumption, section 6) and for an interrupt
that comes at once or any number of statements late:

| theorem | statement |
|---|---|
| `InterruptsNoFalseAlarms` | `MCSpec => []NoFalseAlarms` |
| `InterruptsAllCounted` | `MCSpec => []InterruptsCounted` |
| `InterruptsBackIfAtOnce` | `MCSpec => BackIfAtOnce` |
| `InterruptsResume` | `MCSpec => NoResumeLost` |

The invariants follow one interrupt through its actors.  In the preemption
benchmark (`PreemptionInv`) `Raised` relates thread 1 to the handler: what it has raised is
pending or counted by the handler, before or after it counts itself; `Woken` relates
the handler to thread 0: suspended while an interrupt is pending, one behind the
handler once resumed.  Together they bound the three counters to within one
of each other, which is what keeps the report silent.  In the processing benchmark
(`ProcessingInv`) `OneInterrupt` says that an interrupt is pending or in the
semaphore, never both, and that the thread holds no other; `Survives`, that the
thread ends only if the interrupt may be late.

### 4.8 The message benchmarks

`MCMessagesProofs` proves about `messages`:

| theorem | statement | hypothesis |
|---|---|---|
| `MessagesTotals` | `MCSpec => []TotalsAgree` | `MaxWord >= 11` |
| `MessagesCheckedOnce` | `MCSpec => []MessagesOnce` | `MaxWord >= 11` |
| `MessagesIteration` | `MCSpec => []MessageOfIteration` | none |
| `MessagesMeasured` | `MCSpec => []MeasurementsMatch` | none |

All of them but `MessagesCheckedOnce` do without the order in which the kernel runs the
threads.  What they use of the scheduler is that a task which runs is ready, and heads its list.

In the *thread to thread* benchmark (`TaskInv`) that gives for the totals: a producer in the list of
waiting senders, or a consumer in the list of waiting receivers, is blocked, is there
once, and its program counter is already behind its call (`SendersWait`,
`ReceiversWait`); it cannot count before it has been served.  So two sets say what
the totals lack, `Takers` (the producers whose call ended uncounted) and `Holders` (the
consumers with a message), and each of the six outcomes of a send or
receive changes the sets, the queue and the totals in one of four ways: a
message moves from the queue to a consumer or nothing moves (`BalanceSame`), one
more on both sides (`BalanceBoth`), a producer or a consumer counts (`BalanceSent`,
`BalanceReceived`).  The lists themselves are handled by `ElementsAppend`,
`ElementsTail`, `FirstsAppend` and `FirstsTail`.  `MaxWord >= 11` is what
the statement needs: eight messages in Zephyr's queue and three with the consumers,
added to a word that wraps.  An `unsigned long` has 32 bits.  ThreadX is an
instance; `TaskCalls` and `SameThreadStep` say that after the initialisation it takes
the steps of Zephyr, with room for one message instead of eight.

`MessagesCheckedOnce` is about the numbers of the messages, which wrap, so a message can only be
told from the others while it is young.  `OnceInv` adds to `TaskInv`

* `Places` and `Counts`: with `Line`, the queue followed by the messages of the waiting producers, and
  `Age[m]`, the messages its producer has sent since `m`: in the line, the messages of one
  producer get strictly older towards the front and no message is older than its place allows; a
  message a consumer holds is older than those in the line and has an age of at most 11.
  Different ages are different numbers, hence the hypothesis on the word;
* `Room`: consumers wait only for an empty queue, producers for a full one;
* `OnLevels` and `InTurn`: what bounds the age of a message that is held.  Its consumer is ready, on the list of the
  six threads, and before the producer (`Before`): that one gets another turn only after the
  consumer has checked.  If the producer already runs, it can send no more than there are waiting
  consumers and room in the queue before it blocks: `Age + Len(receivers) <= 2 + Len(queue)`.

Age 11 is reached on Zephyr's queue of eight, so a word with eleven values does not do:
with `MaxWord = 10` TLC finds `MessagesOnce` violated.

In the *interrupt to task* benchmark (`IsrInv`) `MessageIs` follows the message of
iteration `i`: not raised yet, raised with the thread before its receive or blocked in it,
in the queue, or received.  The port decides whether a blocked thread is behind
its receive or repeats it; `OnPort` keeps the three builds together, so there is one lemma for
each action.  `IsrLog` ties the log to the iteration.

### 4.9 The benchmarks with one thread

The last part of `MCMessagesProofs`, for every port, word and size of FreeRTOS's heap:

| theorem | statement |
|---|---|
| `ProcessingCreatedInTime` | `ProcessSpec => []CreatedInTime` |
| `ProcessingTurnsBalance` | `ProcessSpec => []TurnsBalance` |

They need only `ProcessAssumptions` of `MCProcessing`: distinct tasks and null values, and a heap of at
least one block.  `ProcessInv` is `Starting`, the calls of the initialisation, or `Turning`, the turns of the thread.
`ProcessTurn` gives the first theorem: the main task is ready until its last call, and is the more urgent
one, also where FreeRTOS has started the thread in the call that creates it.  For the second one `Complete` and
`WithThread` say what the pool, the queue or the semaphore holds between the turns and in the middle of
one: the block in the thread's hands and the free ones are the pool in its first order, the queue has
the one message whose checksum the thread is going to compare.

### 4.10 What is only model-checked

* All liveness, including that of `CountsInRounds` and `PairTakesTurns` (the prover
  handles neither `ENABLED` nor fairness here; `ImplementsRounds` and `BuildTakesTurns`
  are their safety parts).
* `ReportsForever`, `NeverStandsStill`, `EveryThreadTakesPart`, `AllCount`, `AllLocksMeasured`, `TestCompletes`
  and `CompleteReport` of the interrupt to task message benchmark: they are liveness, too.
* Priority inheritance with ten and more late ticks (`LevelReturned`, `NoInterference`; 3.2).
* The preemptive benchmark on FreeRTOS, where the properties do not hold (5.1).

## 5. What the checks found

### 5.1 Violations with a run

1. `preemptive_active`: on FreeRTOS `xTaskCreate` starts each thread at once.
   While the threads are created the main task keeps the processor (level 30
   against 23 to 27), and when it sleeps all five are ready, the most urgent first.  Each thread
   therefore runs once before its parent resumes it; thread 4 ends four rounds
   ahead of thread 0 for good, and the report prints "ERROR: Invalid counter
   value(s)" about a scheduler that did everything right.
2. `task_sync_ids`: the task synchronisation test uses semaphores 1 and 2; the
   FreeRTOS port has an array of two, so index 2 is behind its end.
3. `section_priority`: the comment of `tm_thread_create` says that "Valid
   priorities range from 1 through 31"; 1 becomes
   `configMAX_PRIORITIES`, which the assertion below it rejects.  The critical
   section, task synchronisation and message tests create their reporter with 1.

### 5.2 Met while modelling, without a run

* When the *total* of the scheduling benchmarks wraps (at a fifth of the
  counters' range) the average is no longer near the counters and the report
  raises a false alarm; the same before every thread has counted once, when
  `average - 1` wraps.  `NoFalseAlarm` excludes both.
* `task_synchronization.c:65` ends a measurement `task1_counter + 1` with the
  bound of `task1_counter`: the last one has index `ITERATION_COUNT`, behind the
  names, and was never started.
* `context_switching_test.c:41-42` decrements the index before its first use, so
  names 1 to 32 of an array of 32 are used and name 0 is not.
* `lock_thread_test.c:93-95`: after the counter has wrapped to 0 the guard
  passes and the end uses index -1, without a start.
* `tm_api.h:218` says that a critical section disables the tick.  On Zephyr
  it locks the scheduler only.
* `tm_porting_layer_threadx.c:631-649` hands NULL to two calls that write the
  old value through the pointer.
* The handlers of `tm_interrupt_preemption_test.c` and
  `tm_interrupt_processing_test.c` use `tm_thread_resume` and
  `tm_semaphore_put`, which on FreeRTOS are calls for tasks, not for handlers.
* `memory_throughput_test.c:81-87` counts to `THROUGHPUT_ITERATIONS` with an
  index of an array of `ITERATION_COUNT` names.  The names behind the array reach
  the log until it is full; `FirstRunPrinted` shows that the report is not
  misled, since it prints the first entry of a name.  Measurements of later runs
  are never recorded.
* The comment at the top of `priority_inheritance_test.c` (and at
  `HighPrioTask`) says that the low task measures; the code measures in the
  high one, and the calls in the low one are commented out.
* `tm_interrupt_processing_test.c:122-126` ("We won't get back here until the
  interrupt processing is complete") holds only if the interrupt is taken at once; otherwise
  the get fails and the thread ends for good.  `InterruptsCounted` covers both.
* `tm_memory_allocation_test.c:98` ignores the status of the allocation, so
  an exhausted pool would be counted as a success.
* `main_threadx.c:86` registers an interrupt object that is local to the
  function.
* The comment at the top of `message_task_test.c` speaks of five producers and five
  consumers; the macros, and the model, have three of each.

## 6. What is left out

* **Time slices.**  FreeRTOS may rotate tasks of one level at each tick,
  depending on a configuration that is not in the repository.  The ready lists
  change only by calls and sleeps.
* **Atomicity of `counter++`.**  A counter's writers cannot preempt each
  other, so the increment is one step; readers see the value before or after.
* **Reading the counters one after the other.**  `PmuDriver` reads all of them at
  once; the few instructions between two reads are part of the measurement in the code.
* **TI's driver.**  The profile log is the Zephyr port's
  own; on FreeRTOS and ThreadX the driver is not in the repository, and the
  profile calls have no effect in the models.  `PriorityInheritance` alone uses
  the log with all three ports, as its only result.
* **Printing**, `relative_time`, the UART mutex that nobody takes, the basic
  benchmark's array, the copied bytes, and the
  contents of messages beyond producer and number (their checksum follows).
* **FreeRTOS in the interrupt benchmarks** (`vTaskResume` and `xSemaphoreGive`
  in a handler, which the kernel leaves undefined).
* **`xHigherPriorityTaskWoken`** of `tm_queue_send_from_isr` is read without
  being set when no task was woken; at most a spurious yield follows, which does
  not change the order of a level with one thread.
* **Services without a caller**: `tm_semaphore_put_from_isr`,
  `tm_pmu_profile_reset`, `tm_pmu_profile_print_all`, `tm_time_get`.
* **Mutexes with several waiters**, nested mutexes: the suite has none.
* **A second raise before the interrupt is taken.**  `Raise` of `InterruptPreemption` waits
  until no interrupt is `pending`; the code (`tm_interrupt_preemption_test.c:137`) does not.
  It is an assumption about time: the call of the driver and the loop around it take longer than the
  interrupt's way to the processor.  A late interrupt may therefore come after the statements that
  follow its raise, but not after the next raise.  For late interrupts `NoFalseAlarms` and its
  theorem rest on this; an interrupt taken at once is never pending at a raise.
* **Board set-up** in `main_*.c`: register and driver calls without a state the
  benchmarks see.
* **The write through NULL** in ThreadX's `tm_resume_scheduler` is two outcomes:
  the memory at address 0 takes it, or the program stops.

## 7. Plan

Every benchmark but the PMU calibration of `pmu_test.c` is modelled, and so is every service these benchmarks
call; every invariant and action property of the passing runs is proved.  What would add most from here:

1. `Rounds` has its liveness from TLC alone.  A ranking of the labels within a round would show how many
   steps are left to the next increment; the final step from it to `CountsInRounds` is out of the
   prover's reach.
2. `LevelReturned` and `NoInterference` for any delay of the tick: `InheritanceInv` without `InTime`.
3. `SpecificSync` and `Processing` with `MaxPriorities` as a constant instead of 32, to find how many levels they allow.
4. The memory and interrupt services that no benchmark calls (6), once one does.

A run whose builds are on several ports is easiest to prove about when its module extends the
component, with `Port` a constant, and takes the other ports as instances of it, as
`MCSwitching`, `MCInterrupts` and `MCMessages` do: the lemmas of `TmLemmas`
then apply as they are.  Where the port is the parameter of the only instance, the lemmas need
the sets of tasks and levels as parameters (`AloneIn`, `FixedLevels`).
