------------------------ MODULE MCMeasurementsProofs ------------------------
(***************************************************************************)
(* The profile log and its callers.                                        *)
(*                                                                         *)
(* The logged values are right whoever calls the driver, in whatever       *)
(* order, for every width of the registers and every length of the log.    *)
(* ValuesExact says nothing of a measurement that is still running, nor of *)
(* the entries it may use next, so it is strengthened by Running and       *)
(* Untouched.                                                              *)
(*                                                                         *)
(* The memory throughput benchmark is such a caller.  ThroughputInv adds   *)
(* how far its first run is and that until the end of that run its         *)
(* reporter does not get the processor.                                    *)
(*                                                                         *)
(* The priority inheritance benchmark is the other one.  Nothing but its   *)
(* sleeps keeps its threads in step, so InheritanceInv weighs the ticks    *)
(* one thread may lose against those another one sleeps: InTime for the    *)
(* low and the high thread, LastDelay for the medium one and the others.   *)
(***************************************************************************)
EXTENDS MCMeasurements, TmLemmas

\* The current entry, once started, accounts for what was counted since.
Running ==
    logIndex \in Entry /\ point[logIndex].name # NoName =>
        \A c \in Counter : since[c] <= MaxWord =>
            register[c] = Plus(reading[logIndex][c].start, since[c])

\* Nobody has started an entry behind the current one.
Untouched == \A e \in Entry : e > logIndex => point[e].name = NoName

DriverInv == DriverTypeOK /\ Untouched /\ Running /\ ValuesExact

LEMMA LongerType == ASSUME NEW n \in Long, NEW d \in Word PROVE Longer(n, d) \in Long
  BY MaxWordAssumption DEF Longer, Long, Word

\* A counter that has counted on still stands where the longer count says.
LEMMA CountsOn ==
    ASSUME NEW s \in Word, NEW n \in Long, NEW d \in Word, Longer(n, d) <= MaxWord
    PROVE  n <= MaxWord /\ Plus(Plus(s, n), d) = Plus(s, Longer(n, d))
  BY MaxWordAssumption DEF Longer, Long, Plus, Word

\* The difference of the registers is the count between them.
LEMMA DifferenceIsCount ==
    ASSUME NEW s \in Word, NEW n \in Long, n <= MaxWord
    PROVE  Minus(Plus(s, n), s) = n
  BY MaxWordAssumption DEF Long, Minus, Plus, Word

LEMMA PlusZero == ASSUME NEW s \in Word PROVE Plus(s, 0) = s
  BY MaxWordAssumption DEF Plus, Word

LEMMA ZeroInWord == 0 \in Word /\ 0 \in Long
  BY MaxWordAssumption DEF Word, Long

-----------------------------------------------------------------------------

LEMMA DriverInitInv == DriverInit => DriverInv
<1> SUFFICES ASSUME DriverInit PROVE DriverInv
  OBVIOUS
<1>1. DriverTypeOK
  BY ZeroInWord, MaxLogEntriesAssumption
  DEF DriverInit, Clear, ClearEntry, DriverTypeOK, PmuTypeOK, Name, Nothing, NoReading
<1>2. \A e \in Entry : point[e].name = NoName
  BY DEF DriverInit, Clear, ClearEntry
<1>3. QED
  BY <1>1, <1>2 DEF DriverInv, Untouched, Running, ValuesExact

\* tm_setup_pmu clears everything.
LEMMA SetupDriverInv == tm_setup_pmu => DriverInv'
<1> SUFFICES ASSUME tm_setup_pmu PROVE DriverInv'
  OBVIOUS
<1>1. DriverTypeOK'
  BY ZeroInWord, MaxLogEntriesAssumption
  DEF tm_setup_pmu, pmu_init_profile, ClearEntry, DriverTypeOK, PmuTypeOK, Name,
      Nothing, NoReading
<1>2. \A e \in Entry : point'[e].name = NoName
  BY DEF tm_setup_pmu, pmu_init_profile, ClearEntry
<1>3. QED
  BY <1>1, <1>2 DEF DriverInv, Untouched, Running, ValuesExact

LEMMA ElapseDriverInv ==
    ASSUME DriverInv, NEW d \in [Counter -> Word], Elapse(d)
    PROVE  DriverInv'
<1>1. DriverTypeOK'
  BY PlusType, LongerType DEF DriverInv, DriverTypeOK, PmuTypeOK, Elapse, pmu
<1>2. Running'
  <2> SUFFICES ASSUME logIndex \in Entry, point[logIndex].name # NoName,
                      NEW c \in Counter, Longer(since[c], d[c]) <= MaxWord
               PROVE  Plus(register[c], d[c])
                        = Plus(reading[logIndex][c].start, Longer(since[c], d[c]))
    BY DEF Running, Elapse, pmu
  <2>1. /\ reading[logIndex][c].start \in Word
        /\ since[c] \in Long /\ d[c] \in Word
    BY DEF DriverInv, DriverTypeOK
  <2>2. since[c] <= MaxWord
    BY <2>1, CountsOn
  <2>3. register[c] = Plus(reading[logIndex][c].start, since[c])
    BY <2>2 DEF DriverInv, Running
  <2>4. QED
    BY <2>1, <2>3, CountsOn
<1>3. Untouched' /\ ValuesExact'
  BY DEF DriverInv, Untouched, ValuesExact, Elapse, pmu
<1>4. QED
  BY <1>1, <1>2, <1>3 DEF DriverInv

LEMMA StartDriverInv ==
    ASSUME DriverInv, NEW name \in Nat, Start(name)
    PROVE  DriverInv'
<1>1. CASE logIndex \notin Entry
  BY <1>1
  DEF DriverInv, DriverTypeOK, PmuTypeOK, Untouched, Running, ValuesExact, Start,
      tm_pmu_profile_start
<1>2. CASE logIndex \in Entry
  <2>1. /\ logIndex' = logIndex /\ took' = took
        /\ point' = [point EXCEPT ![logIndex].name = name]
        /\ register' = [c \in Counter |-> IF c \in Event THEN 0 ELSE register[c]]
        /\ reading' = [reading EXCEPT ![logIndex] =
             [c \in Counter |-> [start |-> register'[c], value |-> @[c].value]]]
        /\ since' = [c \in Counter |-> 0]
    BY <1>2 DEF Start, tm_pmu_profile_start
  <2>2. register' \in [Counter -> Word]
    BY <2>1, ZeroInWord DEF DriverInv, DriverTypeOK
  <2>3. DriverTypeOK'
    <3>1. PmuTypeOK'
      BY <1>2, <2>1 DEF DriverInv, DriverTypeOK, PmuTypeOK, Name
    <3>2. reading' \in [Entry -> [Counter -> [start : Word, value : Word]]]
      BY <1>2, <2>1, <2>2 DEF DriverInv, DriverTypeOK
    <3>3. QED
      BY <2>1, <2>2, <3>1, <3>2, ZeroInWord DEF DriverInv, DriverTypeOK
  <2>4. Untouched'
    BY <1>2, <2>1 DEF DriverInv, DriverTypeOK, PmuTypeOK, Untouched, Entry
  <2>5. Running'
    <3> SUFFICES ASSUME NEW c \in Counter
                 PROVE  register'[c] = Plus(reading'[logIndex][c].start, since'[c])
      BY <2>1 DEF Running
    <3>1. reading'[logIndex][c].start = register'[c] /\ since'[c] = 0
      BY <1>2, <2>1 DEF DriverInv, DriverTypeOK
    <3>2. QED
      BY <2>2, <3>1, PlusZero
  <2>6. ValuesExact'
    <3> SUFFICES ASSUME NEW e \in Entry, e < logIndex, point'[e].name # NoName,
                        NEW c \in Counter, took[e][c] <= MaxWord
                 PROVE  reading'[e][c].value = took[e][c]
      BY <2>1 DEF ValuesExact
    <3>1. e # logIndex
      BY DEF DriverInv, DriverTypeOK, PmuTypeOK, Entry
    <3>2. point'[e] = point[e] /\ reading'[e] = reading[e]
      BY <2>1, <3>1 DEF DriverInv, DriverTypeOK, PmuTypeOK
    <3>3. QED
      BY <3>2 DEF DriverInv, ValuesExact
  <2>7. QED
    BY <2>3, <2>4, <2>5, <2>6 DEF DriverInv
<1>3. QED
  BY <1>1, <1>2

LEMMA EndDriverInv ==
    ASSUME DriverInv, NEW name \in Nat, End(name)
    PROVE  DriverInv'
<1>1. CASE logIndex \notin Entry
  BY <1>1 DEF DriverInv, DriverTypeOK, PmuTypeOK, Untouched, Running, ValuesExact, End,
      EndWith, tm_pmu_profile_end, pmu
<1>2. CASE logIndex \in Entry
  <2> DEFINE delta(c) == Minus(register[c], reading[logIndex][c].start)
  <2>1. /\ logIndex' = logIndex + 1
        /\ point' = [point EXCEPT ![logIndex].ended = name]
        /\ reading' = [reading EXCEPT ![logIndex] =
             [c \in Counter |-> [start |-> @[c].start, value |-> delta(c)]]]
        /\ took' = [took EXCEPT ![logIndex] = since]
        /\ UNCHANGED <<register, since>>
    BY <1>2 DEF End, EndWith, tm_pmu_profile_end
  <2>2. \A c \in Counter : delta(c) \in Word
    BY <1>2, MinusType DEF DriverInv, DriverTypeOK
  <2>3. DriverTypeOK'
    <3>1. PmuTypeOK'
      <4>1. logIndex' \in 0 .. MaxLogEntries
        BY <1>2, <2>1, MaxLogEntriesAssumption DEF Entry
      <4>2. point' \in [Entry -> [name : Name, ended : Name]]
        BY <1>2, <2>1 DEF DriverInv, DriverTypeOK, PmuTypeOK, Name
      <4>3. QED
        BY <4>1, <4>2 DEF PmuTypeOK
    <3>2. reading' \in [Entry -> [Counter -> [start : Word, value : Word]]]
      BY <1>2, <2>1, <2>2 DEF DriverInv, DriverTypeOK
    <3>3. QED
      BY <1>2, <2>1, <3>1, <3>2 DEF DriverInv, DriverTypeOK
  <2>4. \A e \in Entry : point'[e].name = point[e].name
    BY <1>2, <2>1 DEF DriverInv, DriverTypeOK, PmuTypeOK
  <2>5. Untouched' /\ (logIndex' \in Entry => point'[logIndex'].name = NoName)
    BY <1>2, <2>1, <2>4 DEF DriverInv, Untouched, Entry
  <2>6. Running'
    BY <2>5 DEF Running
  <2>7. ValuesExact'
    <3> SUFFICES ASSUME NEW e \in Entry, e < logIndex + 1, point[e].name # NoName,
                        NEW c \in Counter, took'[e][c] <= MaxWord
                 PROVE  reading'[e][c].value = took'[e][c]
      BY <2>1, <2>4 DEF ValuesExact
    <3>1. CASE e = logIndex
      <4>1. took'[e][c] = since[c] /\ reading'[e][c].value = delta(c)
        BY <1>2, <2>1, <3>1 DEF DriverInv, DriverTypeOK
      <4>2. register[c] = Plus(reading[logIndex][c].start, since[c])
        BY <3>1, <4>1 DEF DriverInv, Running
      <4>3. since[c] \in Long /\ reading[logIndex][c].start \in Word
        BY <1>2 DEF DriverInv, DriverTypeOK
      <4>4. QED
        BY <4>1, <4>2, <4>3, DifferenceIsCount
    <3>2. CASE e # logIndex
      <4>1. took'[e] = took[e] /\ reading'[e] = reading[e]
        BY <2>1, <3>2 DEF DriverInv, DriverTypeOK
      <4>2. e < logIndex
        BY <3>2 DEF DriverInv, DriverTypeOK, PmuTypeOK, Entry
      <4>3. QED
        BY <4>1, <4>2 DEF DriverInv, ValuesExact
    <3>3. QED
      BY <3>1, <3>2
  <2>8. QED
    BY <2>3, <2>5, <2>6, <2>7 DEF DriverInv
<1>3. QED
  BY <1>1, <1>2

LEMMA NextDriverInv == DriverInv /\ [DriverNext]_driver => DriverInv'
<1> SUFFICES ASSUME DriverInv, [DriverNext]_driver PROVE DriverInv'
  OBVIOUS
<1>1. CASE \E d \in [Counter -> Word] : Elapse(d)
  BY <1>1, ElapseDriverInv
<1>2. CASE \E name \in Nat : Start(name)
  BY <1>2, StartDriverInv
<1>3. CASE \E name \in Nat : End(name)
  BY <1>3, EndDriverInv
<1>4. CASE tm_setup_pmu
  BY <1>4, SetupDriverInv
<1>5. CASE UNCHANGED driver
  BY <1>5
  DEF driver, pmu, history, DriverInv, DriverTypeOK, PmuTypeOK, Untouched, Running,
      ValuesExact
<1>6. QED
  BY <1>1, <1>2, <1>3, <1>4, <1>5 DEF DriverNext

(***************************************************************************)
(* For every caller, log length and register width: what a logged          *)
(* measurement says is what was counted between its start and its end      *)
(* (tm_porting_layer_zephyr.c:616-684).                                    *)
(***************************************************************************)
THEOREM DriverValuesExact == DriverSpec => []ValuesExact
<1>1. DriverInv => ValuesExact
  BY DEF DriverInv
<1>2. QED
  BY <1>1, DriverInitInv, NextDriverInv, PTL DEF DriverSpec

-----------------------------------------------------------------------------
(* The memory throughput benchmark.                                        *)

\* The main task on level 1 creates the threads on level 10.
Levels ==
    /\ level[Main] = 1
    /\ \A t \in {0, 1} : state[t] # "absent" => level[t] = 10

\* The worker is created and resumed by the first three calls.
Beginning ==
    calls <= 2 => /\ state[0] = IF calls <= 1 THEN "absent" ELSE "suspended"
                  /\ i = 0 /\ logIndex = 0 /\ pc[0] = "start"

\* The first entries are those of the names, in their order.
Logged ==
    \A n \in 0 .. IterationCount - 1 :
        n < logIndex => point[n].name = n /\ point[n].ended = n

\* Nobody is before the worker in the list of its level.
WorkerFirst ==
    IF calls <= 2 THEN ready[10] = << >>
    ELSE Len(ready[10]) > 0 /\ ready[10][1] = 0

\* Until all names are logged the worker is in its first run and nothing keeps
\* it from going on, least of all the reporter.
FirstRun ==
    logIndex < IterationCount =>
        /\ i = logIndex
        /\ pc[0] \in {"start", "copy", "end"}
        /\ pc[0] # "start" => point[logIndex].name = logIndex
        /\ pc[1] = "sleep"
        /\ state[0] # "asleep" /\ state[1] # "asleep"
        /\ WorkerFirst

ThroughputInv ==
    /\ TypeOK
    /\ KernelInv
    /\ DriverInv
    /\ Levels
    /\ Beginning
    /\ Logged
    /\ FirstRun

LEMMA ThroughputNames ==
    /\ Port = "Zephyr" /\ Main \notin {0, 1} /\ {0, 1} \subseteq Thread
    /\ 0 \in Task /\ 1 \in Task /\ Main \in Task
    /\ 1 \in Level /\ 10 \in Level
    /\ IterationCount \in Nat /\ IterationCount >= 1
    /\ MaxLogEntries \in Nat /\ IterationCount <= MaxLogEntries
    /\ 0 .. IterationCount - 1 \subseteq Entry
    /\ ThroughputIterations \in Nat /\ ThroughputIterations >= IterationCount
    /\ CopyTime \subseteq Word
  BY MeasurementsConfiguration, MainAssumption, MaxPrioritiesAssumption,
     MaxLogEntriesAssumption
  DEF Configuration, Task, Level, Entry

LEMMA ThroughputTypes ==
    ASSUME ThroughputInv
    PROVE  /\ state \in [Task -> State] /\ level \in [Task -> Level]
           /\ ready \in [Level -> Seq(Task)] /\ Len(ready[10]) \in Nat
           /\ logIndex \in Nat /\ logIndex <= MaxLogEntries
           /\ point \in [Entry -> [name : Name, ended : Name]]
           /\ calls \in 0 .. 6 /\ pc \in [Task -> Label]
           /\ i \in 0 .. ThroughputIterations - 1 /\ i \in Nat
<1>1. /\ KernelTypeOK /\ PmuTypeOK /\ calls \in 0 .. 6 /\ pc \in [Task -> Label]
      /\ i \in 0 .. ThroughputIterations - 1
  BY DEF ThroughputInv, TypeOK, DriverTypeOK
<1>2. Len(ready[10]) \in Nat
  BY <1>1, ThroughputNames, ListType
<1>3. QED
  BY <1>1, <1>2, ThroughputNames DEF KernelTypeOK, PmuTypeOK

LEMMA ThroughputTypesJoin ==
    ASSUME KernelInv', DriverInv', calls' \in 0 .. 6, pc' \in [Task -> Label],
           i' \in 0 .. ThroughputIterations - 1
    PROVE  TypeOK'
  BY DEF TypeOK, KernelInv, DriverInv

LEMMA ThroughputInit == ASSUME Init PROVE ThroughputInv
<1>1. KernelInv /\ \A t \in Thread : state[t] = "absent"
  BY InitKernel DEF Init
<1>2. StartedWith(1)
  BY ThroughputNames DEF Init, KernelInit, rtos_main_zephyr
<1>3. level[Main] = 1 /\ ready[10] = << >>
  BY <1>2, ThroughputNames DEF StartedWith
<1>4. DriverInv /\ logIndex = 0
  BY DriverInitInv DEF Init, DriverInit, Clear
<1>5. /\ calls = 0 /\ i = 0 /\ pc \in [Task -> Label]
      /\ pc[0] = "start" /\ pc[1] = "sleep"
  BY ThroughputNames DEF Init, Label
<1>6. TypeOK
  BY <1>1, <1>4, <1>5, ThroughputNames DEF TypeOK, KernelInv, DriverInv
<1>7. Levels /\ Beginning
  BY <1>1, <1>3, <1>4, <1>5, ThroughputNames DEF Levels, Beginning
<1>8. Logged /\ FirstRun
  BY <1>1, <1>3, <1>4, <1>5, ThroughputNames DEF Logged, FirstRun, WorkerFirst
<1>9. QED
  BY <1>1, <1>4, <1>6, <1>7, <1>8 DEF ThroughputInv

\* The worker has the processor only after its resume, the reporter only when
\* all names are logged.
LEMMA ThreadRuns ==
    ASSUME ThroughputInv, NEW t \in {0, 1}, Runs(t)
    PROVE  /\ t \in Task /\ state[t] = "ready" /\ level[t] = 10
           /\ t = 0 => calls >= 3
           /\ t = 1 => logIndex >= IterationCount
<1>1. t \in Task /\ state[t] = "ready"
  BY ThroughputNames DEF Runs
<1>2. level[t] = 10
  BY <1>1 DEF ThroughputInv, Levels
<1>3. t = 0 => calls >= 3
  BY <1>1, ThroughputTypes DEF ThroughputInv, Beginning
<1>4. Len(ready[10]) > 0 /\ ready[10][1] = t
  BY <1>1, <1>2, RunningIsFirst DEF ThroughputInv
<1>5. t = 1 => ~(logIndex < IterationCount)
  <2> SUFFICES ASSUME t = 1, logIndex < IterationCount PROVE FALSE
    OBVIOUS
  <2>1. WorkerFirst
    BY DEF ThroughputInv, FirstRun
  <2>2. CASE calls <= 2
    BY <1>4, <2>1, <2>2, NoElements DEF WorkerFirst
  <2>3. CASE ~(calls <= 2)
    BY <1>4, <2>1, <2>3 DEF WorkerFirst
  <2>4. QED
    BY <2>2, <2>3
<1>6. QED
  BY <1>1, <1>2, <1>3, <1>5, ThroughputTypes, ThroughputNames

LEMMA SameDriver == ASSUME DriverInv, UNCHANGED driver PROVE DriverInv'
  BY DEF driver, pmu, history, DriverInv, DriverTypeOK, PmuTypeOK, Untouched, Running,
     ValuesExact

\* A task that was added to the end of the list is not before the worker.
LEMMA FirstStays ==
    ASSUME ThroughputInv, logIndex < IterationCount, calls >= 3, calls' >= 3, calls' \in Nat,
           NEW t \in Task, ready' = [ready EXCEPT ![10] = Append(@, t)] \/ ready' = ready
    PROVE  WorkerFirst'
<1>1. WorkerFirst /\ ~(calls <= 2) /\ ~(calls' <= 2)
  BY ThroughputTypes DEF ThroughputInv, FirstRun
<1>2. ready[10] \in Seq(Task) /\ Len(ready[10]) > 0 /\ ready[10][1] = 0
  BY <1>1, ThroughputTypes, ThroughputNames DEF WorkerFirst
<1>3. CASE ready' = ready
  BY <1>1, <1>3 DEF WorkerFirst
<1>4. CASE ready' = [ready EXCEPT ![10] = Append(@, t)]
  <2>1. ready'[10] = Append(ready[10], t)
    BY <1>4, ThroughputTypes, ThroughputNames
  <2>2. /\ Len(Append(ready[10], t)) = Len(ready[10]) + 1
        /\ Append(ready[10], t)[1] = ready[10][1]
    BY <1>2, AppendElements, ThroughputTypes
  <2>3. QED
    BY <1>1, <1>2, <2>1, <2>2, ThroughputTypes DEF WorkerFirst
<1>5. QED
  BY <1>3, <1>4

LEMMA ThroughputInitialize == ASSUME ThroughputInv, Initialize PROVE ThroughputInv'
<1>1. /\ Runs(Main) /\ calls' = calls + 1 /\ i' = i
      /\ calls \in 0 .. 5 /\ calls \in Nat
      /\ pc' = [pc EXCEPT ![Main] = IF calls = 5 THEN "done" ELSE "initialize"]
  BY ThroughputTypes DEF Initialize, At, Goto
<1>2. /\ pc'[0] = pc[0] /\ pc'[1] = pc[1] /\ pc' \in [Task -> Label]
      /\ calls' \in 0 .. 6 /\ calls' \in Nat /\ state[Main] = "ready"
  BY <1>1, ThroughputTypes, ThroughputNames DEF Label, Runs
<1>3. ASSUME KernelInv', DriverInv' PROVE TypeOK'
  BY <1>1, <1>2, <1>3, ThroughputTypes, ThroughputTypesJoin
<1>4. CASE calls = 0
  <2>1. tm_setup_pmu /\ UNCHANGED kernel
    BY <1>1, <1>4 DEF Initialize
  <2>2. DriverInv' /\ logIndex' = 0
    BY <2>1, SetupDriverInv DEF tm_setup_pmu, pmu_init_profile
  <2>3. KernelInv' /\ UNCHANGED <<state, level, ready>>
    BY <2>1, SameKernel DEF ThroughputInv, kernel
  <2>4. Levels' /\ Beginning'
    BY <1>1, <1>2, <1>4, <2>2, <2>3 DEF ThroughputInv, Levels, Beginning
  <2>5. /\ i = 0 /\ logIndex = 0 /\ pc[0] = "start" /\ logIndex < IterationCount
    BY <1>4, ThroughputNames DEF ThroughputInv, Beginning
  <2>6. Logged' /\ FirstRun'
    BY <1>1, <1>2, <1>4, <2>2, <2>3, <2>5, ThroughputNames
    DEF ThroughputInv, Logged, FirstRun, WorkerFirst
  <2>7. QED
    BY <1>3, <2>2, <2>3, <2>4, <2>6 DEF ThroughputInv
<1>5. CASE calls # 0
  <2>1. UNCHANGED driver
    BY <1>1, <1>5 DEF Initialize
  <2>2. DriverInv' /\ UNCHANGED <<logIndex, point>>
    BY <2>1, SameDriver DEF ThroughputInv, driver, pmu
  <2>3. Logged'
    BY <2>2 DEF ThroughputInv, Logged
  <2>4. ASSUME KernelInv', Levels', Beginning',
               state'[0] # "asleep" \/ state[0] = "asleep",
               state'[1] # "asleep" \/ state[1] = "asleep",
               logIndex < IterationCount => WorkerFirst'
        PROVE  ThroughputInv'
    <3>1. FirstRun'
      BY <1>1, <1>2, <2>2, <2>4 DEF ThroughputInv, FirstRun
    <3>2. QED
      BY <1>3, <2>2, <2>3, <2>4, <3>1 DEF ThroughputInv
  <2>5. ASSUME NEW t \in {0, 1}, calls = 2 * t + 1 PROVE ThroughputInv'
    <3>1. tm_thread_create(t, 10) /\ t \in Thread /\ t \in Task
      BY <1>1, <2>5, ThroughputNames DEF Initialize
    <3>2. KernelInv'
      BY <3>1, CreateKernel DEF ThroughputInv
    <3>3. /\ state' = [state EXCEPT ![t] = "suspended"]
          /\ level' = [level EXCEPT ![t] = 10]
          /\ ready' = ready
      BY <3>1, ThroughputNames DEF tm_thread_create, zephyr_thread_create, AddSuspended
    <3>4. Levels'
      BY <3>3, ThroughputTypes, ThroughputNames DEF ThroughputInv, Levels
    <3>5. Beginning'
      BY <1>1, <1>2, <2>2, <2>5, <3>3, ThroughputTypes, ThroughputNames
      DEF ThroughputInv, Beginning
    <3>6. logIndex < IterationCount => WorkerFirst'
      BY <1>1, <2>5, <3>3 DEF ThroughputInv, FirstRun, WorkerFirst
    <3>7. QED
      BY <2>4, <3>2, <3>3, <3>4, <3>5, <3>6, ThroughputTypes
  <2>6. ASSUME NEW t \in {0, 1}, calls = 2 * t + 2 PROVE ThroughputInv'
    <3>1. tm_thread_resume(t) /\ t \in Task
      BY <1>1, <2>6, ThroughputNames DEF Initialize
    <3>2. /\ KernelInv' /\ level' = level
          /\ state' = IF state[t] = "suspended" THEN [state EXCEPT ![t] = "ready"]
                      ELSE state
      BY <3>1, ResumeKernel DEF ThroughputInv
    <3>3. /\ \A u \in Task : state'[u] # "asleep" \/ state[u] = "asleep"
          /\ \A u \in Task : state'[u] # "absent" => state[u] # "absent"
      BY <3>2, ThroughputTypes
    <3>4. Levels'
      BY <3>2, <3>3, ThroughputNames DEF ThroughputInv, Levels
    <3>5. Beginning'
      BY <1>1, <2>6 DEF Beginning
    <3>6. ASSUME logIndex < IterationCount PROVE WorkerFirst'
      <4>1. CASE t = 0
        <5>1. calls = 2 /\ state[0] = "suspended" /\ level[0] = 10 /\ ready[10] = << >>
          BY <2>6, <3>6, <4>1
          DEF ThroughputInv, Beginning, Levels, FirstRun, WorkerFirst
        <5>2. ready' = [ready EXCEPT ![10] = Append(@, 0)]
          BY <3>1, <4>1, <5>1 DEF tm_thread_resume, MakeReady
        <5>3. ready'[10] = <<0>>
          BY <5>1, <5>2, Singleton, ThroughputTypes, ThroughputNames
        <5>4. QED
          BY <1>1, <5>1, <5>3, Singleton, ThroughputNames DEF WorkerFirst
      <4>2. CASE t = 1
        <5>1. calls = 4
          BY <2>6, <4>2
        <5>2. CASE state[1] = "suspended"
          <6>1. level[1] = 10
            BY <5>2 DEF ThroughputInv, Levels
          <6>2. ready' = [ready EXCEPT ![10] = Append(@, 1)]
            BY <3>1, <4>2, <5>2, <6>1 DEF tm_thread_resume, MakeReady
          <6>3. QED
            BY <1>1, <1>2, <3>6, <5>1, <6>2, FirstStays, ThroughputNames
        <5>3. CASE state[1] # "suspended"
          <6>1. ready' = ready
            BY <3>1, <4>2, <5>3 DEF tm_thread_resume, kernel
          <6>2. QED
            BY <1>1, <1>2, <3>6, <5>1, <6>1, FirstStays, ThroughputNames
        <5>4. QED
          BY <5>2, <5>3
      <4>3. QED
        BY <4>1, <4>2
    <3>7. QED
      BY <2>4, <3>2, <3>3, <3>4, <3>5, <3>6, ThroughputNames
  <2>7. CASE calls = 5
    <3>1. Block(Main, "done")
      BY <1>1, <2>7 DEF Initialize, Return
    <3>2. KernelInv'
      BY <1>1, <3>1, LeavesFirst, ThroughputNames DEF ThroughputInv, State
    <3>3. /\ state'[0] = state[0] /\ state'[1] = state[1] /\ level' = level
          /\ ready'[10] = ready[10]
      BY <3>1, ThroughputTypes, ThroughputNames DEF Block, ThroughputInv, Levels
    <3>4. Levels' /\ Beginning'
      BY <1>1, <2>7, <3>3 DEF ThroughputInv, Levels, Beginning
    <3>5. logIndex < IterationCount => WorkerFirst'
      BY <1>1, <2>7, <3>3 DEF ThroughputInv, FirstRun, WorkerFirst
    <3>6. QED
      BY <2>4, <3>2, <3>3, <3>4, <3>5
  <2>8. QED
    BY <1>1, <1>5, <2>5, <2>6, <2>7
<1>6. QED
  BY <1>4, <1>5

\* A step of the worker that is not its sleep.
LEMMA WorkerFrame ==
    ASSUME ThroughputInv, Runs(0), NEW label \in {"start", "copy", "end", "sleep"},
           pc' = [pc EXCEPT ![0] = label], DriverInv',
           i' \in 0 .. ThroughputIterations - 1, UNCHANGED <<kernel, calls>>
    PROVE  /\ TypeOK' /\ KernelInv' /\ Levels' /\ Beginning'
           /\ pc'[0] = label /\ pc'[1] = pc[1]
           /\ UNCHANGED <<state, level, ready>> /\ (WorkerFirst' <=> WorkerFirst)
<1>1. UNCHANGED <<state, level, ready>>
  BY DEF kernel
<1>2. KernelInv'
  BY SameKernel DEF ThroughputInv
<1>3. /\ pc'[0] = label /\ pc'[1] = pc[1] /\ pc' \in [Task -> Label]
      /\ calls' \in 0 .. 6
  BY ThroughputTypes, ThroughputNames DEF Label
<1>4. TypeOK'
  BY <1>2, <1>3, ThroughputTypesJoin
<1>5. calls >= 3 /\ calls \in Nat
  BY ThreadRuns, ThroughputTypes
<1>6. Levels' /\ Beginning'
  BY <1>1, <1>5 DEF ThroughputInv, Levels, Beginning
<1>7. WorkerFirst' <=> WorkerFirst
  BY <1>1 DEF WorkerFirst
<1>8. QED
  BY <1>1, <1>2, <1>3, <1>4, <1>6, <1>7

LEMMA ThroughputStart == ASSUME ThroughputInv, WorkerStart PROVE ThroughputInv'
<1>1. PICK name \in NamesAt(i) : Start(name)
  BY DEF WorkerStart
<1>2. /\ Runs(0) /\ pc[0] = "start" /\ pc' = [pc EXCEPT ![0] = "copy"]
      /\ UNCHANGED <<kernel, calls, i>>
  BY DEF WorkerStart, At, Goto
<1>3. name \in Nat /\ (i < IterationCount => name = i)
  BY <1>1, ThroughputTypes, ThroughputNames DEF NamesAt
<1>4. DriverInv'
  BY <1>1, <1>3, StartDriverInv DEF ThroughputInv
<1>5. /\ TypeOK' /\ KernelInv' /\ Levels' /\ Beginning'
      /\ pc'[0] = "copy" /\ pc'[1] = pc[1]
      /\ UNCHANGED <<state, level, ready>> /\ (WorkerFirst' <=> WorkerFirst)
  BY <1>2, <1>4, WorkerFrame, ThroughputTypes
<1>6. /\ logIndex' = logIndex
      /\ point' = IF logIndex \in Entry THEN [point EXCEPT ![logIndex].name = name]
                  ELSE point
  BY <1>1 DEF Start, tm_pmu_profile_start
<1>7. \A n \in Entry : n # logIndex => point'[n] = point[n]
  BY <1>6, ThroughputTypes
<1>8. Logged'
  BY <1>6, <1>7, ThroughputNames, ThroughputTypes DEF ThroughputInv, Logged
<1>9. FirstRun'
  <2> SUFFICES ASSUME logIndex < IterationCount
               PROVE  /\ point'[logIndex].name = logIndex
                      /\ i = logIndex /\ pc[1] = "sleep"
                      /\ state[0] # "asleep" /\ state[1] # "asleep" /\ WorkerFirst
    BY <1>2, <1>5, <1>6 DEF FirstRun
  <2>1. /\ i = logIndex /\ pc[1] = "sleep"
        /\ state[0] # "asleep" /\ state[1] # "asleep" /\ WorkerFirst
    BY DEF ThroughputInv, FirstRun
  <2>2. logIndex \in Entry
    BY ThroughputNames, ThroughputTypes
  <2>3. point'[logIndex].name = name
    BY <1>6, <2>2, ThroughputTypes
  <2>4. QED
    BY <1>3, <2>1, <2>3
<1>10. QED
  BY <1>4, <1>5, <1>8, <1>9 DEF ThroughputInv

LEMMA ThroughputCopy == ASSUME ThroughputInv, WorkerCopy PROVE ThroughputInv'
<1>1. PICK d \in [Counter -> CopyTime] : Elapse(d)
  BY DEF WorkerCopy
<1>2. /\ Runs(0) /\ pc[0] = "copy" /\ pc' = [pc EXCEPT ![0] = "end"]
      /\ UNCHANGED <<kernel, calls, i>>
  BY DEF WorkerCopy, At, Goto
<1>3. d \in [Counter -> Word]
  BY ThroughputNames
<1>4. DriverInv' /\ UNCHANGED <<logIndex, point>>
  BY <1>1, <1>3, ElapseDriverInv DEF ThroughputInv, Elapse, pmu
<1>5. /\ TypeOK' /\ KernelInv' /\ Levels' /\ Beginning'
      /\ pc'[0] = "end" /\ pc'[1] = pc[1]
      /\ UNCHANGED <<state, level, ready>> /\ (WorkerFirst' <=> WorkerFirst)
  BY <1>2, <1>4, WorkerFrame, ThroughputTypes
<1>6. Logged' /\ FirstRun'
  BY <1>2, <1>4, <1>5 DEF ThroughputInv, Logged, FirstRun
<1>7. QED
  BY <1>4, <1>5, <1>6 DEF ThroughputInv

LEMMA ThroughputEnd == ASSUME ThroughputInv, WorkerEnd PROVE ThroughputInv'
<1>1. PICK name \in NamesAt(i) : End(name)
  BY DEF WorkerEnd
<1>2. /\ Runs(0) /\ pc[0] = "end"
      /\ pc' = [pc EXCEPT ![0] = IF i' = 0 THEN "sleep" ELSE "start"]
      /\ i' = (i + 1) % ThroughputIterations
      /\ UNCHANGED <<kernel, calls>>
  BY DEF WorkerEnd, At, Goto
<1>3. name \in Nat /\ (i < IterationCount => name = i)
  BY <1>1, ThroughputTypes, ThroughputNames DEF NamesAt
<1>4. DriverInv'
  BY <1>1, <1>3, EndDriverInv DEF ThroughputInv
<1>5. i' \in 0 .. ThroughputIterations - 1
  BY <1>2, ThroughputTypes, ThroughputNames
<1>6. /\ TypeOK' /\ KernelInv' /\ Levels' /\ Beginning'
      /\ pc'[0] = (IF i' = 0 THEN "sleep" ELSE "start") /\ pc'[1] = pc[1]
      /\ UNCHANGED <<state, level, ready>> /\ (WorkerFirst' <=> WorkerFirst)
  BY <1>2, <1>4, <1>5, WorkerFrame
<1>7. CASE logIndex \notin Entry
  <2>1. UNCHANGED <<logIndex, point>>
    BY <1>1, <1>7 DEF End, EndWith, tm_pmu_profile_end, pmu
  <2>2. ~(logIndex < IterationCount)
    BY <1>7, ThroughputNames, ThroughputTypes
  <2>3. Logged' /\ FirstRun'
    BY <2>1, <2>2 DEF ThroughputInv, Logged, FirstRun
  <2>4. QED
    BY <1>4, <1>6, <2>3 DEF ThroughputInv
<1>8. CASE logIndex \in Entry
  <2>1. logIndex' = logIndex + 1 /\ point' = [point EXCEPT ![logIndex].ended = name]
    BY <1>1, <1>8 DEF End, EndWith, tm_pmu_profile_end
  <2>2. /\ \A n \in Entry : n # logIndex => point'[n] = point[n]
        /\ point'[logIndex].name = point[logIndex].name
        /\ point'[logIndex].ended = name
    BY <1>8, <2>1, ThroughputTypes
  <2>3. logIndex < IterationCount => /\ i = logIndex /\ pc[1] = "sleep" /\ WorkerFirst
                                    /\ point[logIndex].name = logIndex
                                    /\ state[0] # "asleep" /\ state[1] # "asleep"
    BY <1>2 DEF ThroughputInv, FirstRun
  <2>4. Logged'
    <3> SUFFICES ASSUME NEW n \in 0 .. IterationCount - 1, n < logIndex + 1
                 PROVE  point'[n].name = n /\ point'[n].ended = n
      BY <2>1 DEF Logged
    <3>1. CASE n = logIndex
      BY <1>3, <2>2, <2>3, <3>1, ThroughputNames
    <3>2. CASE n # logIndex
      <4>1. n \in Entry /\ n < logIndex
        BY <3>2, ThroughputNames, ThroughputTypes
      <4>2. QED
        BY <2>2, <3>2, <4>1 DEF ThroughputInv, Logged
    <3>3. QED
      BY <3>1, <3>2
  <2>5. FirstRun'
    <3> SUFFICES ASSUME logIndex + 1 < IterationCount
                 PROVE  /\ i' = logIndex + 1 /\ i' # 0 /\ pc[1] = "sleep" /\ WorkerFirst
                        /\ state[0] # "asleep" /\ state[1] # "asleep"
      BY <1>6, <2>1 DEF FirstRun
    <3>1. logIndex < IterationCount
      BY ThroughputNames, ThroughputTypes
    <3>2. i + 1 \in 1 .. ThroughputIterations - 1
      BY <2>3, <3>1, ThroughputNames, ThroughputTypes
    <3>3. (i + 1) % ThroughputIterations = i + 1
      BY <3>2, ThroughputNames
    <3>4. QED
      BY <1>2, <2>3, <3>1, <3>2, <3>3
  <2>6. QED
    BY <1>4, <1>6, <2>4, <2>5 DEF ThroughputInv
<1>9. QED
  BY <1>7, <1>8

LEMMA ThroughputSleep ==
    ASSUME ThroughputInv, NEW t \in {0, 1}, NEW next \in {"start", "report"}, Sleep(t, next)
    PROVE  ThroughputInv'
<1>1. /\ Runs(t) /\ pc[t] = "sleep" /\ pc' = [pc EXCEPT ![t] = next]
      /\ Block(t, "asleep") /\ UNCHANGED <<driver, calls, i>>
  BY DEF Sleep, At, Goto, tm_thread_sleep
<1>2. t \in Task /\ logIndex >= IterationCount /\ state[t] = "ready" /\ (t = 0 => calls >= 3)
  <2>1. t = 0 => ~(logIndex < IterationCount)
    BY <1>1 DEF ThroughputInv, FirstRun
  <2>2. QED
    BY <1>1, <2>1, ThreadRuns, ThroughputTypes, ThroughputNames
<1>3. KernelInv'
  BY <1>1, <1>2, LeavesFirst DEF ThroughputInv, State
<1>4. DriverInv' /\ UNCHANGED <<logIndex, point>>
  BY <1>1, SameDriver DEF ThroughputInv, driver, pmu
<1>5. TypeOK'
  <2>1. pc' \in [Task -> Label] /\ calls' \in 0 .. 6 /\ i' \in 0 .. ThroughputIterations - 1
    BY <1>1, ThroughputTypes DEF Label
  <2>2. QED
    BY <1>3, <1>4, <2>1, ThroughputTypesJoin
<1>6. /\ level' = level
      /\ \A u \in Task : state'[u] # "absent" => state[u] # "absent"
  BY <1>1, <1>2, ThroughputTypes DEF Block
<1>7. Levels'
  BY <1>6, ThroughputNames DEF ThroughputInv, Levels
<1>8. Beginning'
  <2>1. calls <= 2 => logIndex = 0
    BY DEF ThroughputInv, Beginning
  <2>2. ~(calls <= 2)
    BY <1>2, <2>1, ThroughputNames
  <2>3. QED
    BY <1>1, <2>2 DEF Beginning
<1>9. Logged' /\ FirstRun'
  BY <1>2, <1>4, ThroughputNames, ThroughputTypes DEF ThroughputInv, Logged, FirstRun
<1>10. QED
  BY <1>3, <1>4, <1>5, <1>7, <1>8, <1>9 DEF ThroughputInv

LEMMA ThroughputReport == ASSUME ThroughputInv, Report PROVE ThroughputInv'
<1>1. /\ Runs(1) /\ pc' = [pc EXCEPT ![1] = "sleep"]
      /\ UNCHANGED <<kernel, driver, calls, i>>
  BY DEF Report, At, Goto
<1>2. KernelInv' /\ UNCHANGED <<state, level, ready>>
  BY <1>1, SameKernel DEF ThroughputInv, kernel
<1>3. DriverInv' /\ UNCHANGED <<logIndex, point>>
  BY <1>1, SameDriver DEF ThroughputInv, driver, pmu
<1>4. pc'[0] = pc[0] /\ pc'[1] = "sleep" /\ pc' \in [Task -> Label]
  BY <1>1, ThroughputTypes, ThroughputNames DEF Label
<1>5. TypeOK'
  BY <1>1, <1>2, <1>3, <1>4, ThroughputTypes, ThroughputTypesJoin
<1>6. Levels' /\ Beginning' /\ Logged' /\ FirstRun'
  BY <1>1, <1>2, <1>3, <1>4
  DEF ThroughputInv, Levels, Beginning, Logged, FirstRun, WorkerFirst
<1>7. QED
  BY <1>2, <1>3, <1>5, <1>6 DEF ThroughputInv

\* A thread that sleeps has seen the end of the first run.
LEMMA ThroughputWake == ASSUME ThroughputInv, Wake PROVE ThroughputInv'
<1>1. PICK t \in {0, 1} : state[t] = "asleep" /\ MakeReady(t)
  BY DEF Wake, TickWakes
<1>2. UNCHANGED <<driver, calls, pc, i>> /\ t \in Task
  BY ThroughputNames DEF Wake
<1>3. KernelInv'
  BY <1>1, <1>2, MakeReadyKernel DEF ThroughputInv
<1>4. DriverInv' /\ UNCHANGED <<logIndex, point>>
  BY <1>2, SameDriver DEF ThroughputInv, driver, pmu
<1>5. TypeOK'
  BY <1>2, <1>3, <1>4, ThroughputTypes, ThroughputTypesJoin
<1>6. /\ level' = level
      /\ \A u \in Task : state'[u] # "absent" => state[u] # "absent"
  BY <1>1, <1>2, ThroughputTypes DEF MakeReady
<1>7. Levels'
  BY <1>6, ThroughputNames DEF ThroughputInv, Levels
<1>8. ~(logIndex < IterationCount)
  BY <1>1 DEF ThroughputInv, FirstRun
<1>9. ~(calls <= 2)
  BY <1>8, ThroughputNames DEF ThroughputInv, Beginning
<1>10. Beginning' /\ Logged' /\ FirstRun'
  BY <1>2, <1>4, <1>8, <1>9 DEF ThroughputInv, Beginning, Logged, FirstRun
<1>11. QED
  BY <1>3, <1>4, <1>5, <1>7, <1>10 DEF ThroughputInv

LEMMA ThroughputNext == ASSUME ThroughputInv, [Next]_vars PROVE ThroughputInv'
<1>1. CASE UNCHANGED vars
  <2>1. UNCHANGED <<kernel, driver, calls, pc, i>>
    BY <1>1 DEF vars
  <2>2. KernelInv' /\ UNCHANGED <<state, level, ready>>
    BY <2>1, SameKernel DEF ThroughputInv, kernel
  <2>3. DriverInv' /\ UNCHANGED <<logIndex, point>>
    BY <2>1, SameDriver DEF ThroughputInv, driver, pmu
  <2>4. TypeOK'
    BY <2>1, <2>2, <2>3, ThroughputTypes, ThroughputTypesJoin
  <2>5. Levels' /\ Beginning' /\ Logged' /\ FirstRun'
    BY <2>1, <2>2, <2>3
    DEF ThroughputInv, Levels, Beginning, Logged, FirstRun, WorkerFirst
  <2>6. QED
    BY <2>2, <2>3, <2>4, <2>5 DEF ThroughputInv
<1>2. CASE Initialize
  BY <1>2, ThroughputInitialize
<1>3. CASE WorkerStep
  BY <1>3, ThroughputStart, ThroughputCopy, ThroughputEnd, ThroughputSleep
  DEF WorkerStep
<1>4. CASE ReporterStep
  BY <1>4, ThroughputReport, ThroughputSleep DEF ReporterStep
<1>5. CASE Wake
  BY <1>5, ThroughputWake
<1>6. QED
  BY <1>1, <1>2, <1>3, <1>4, <1>5 DEF Next, TaskStep

\* What the report finds under a name is the entry of that number.
LEMMA ThroughputReported == ASSUME ThroughputInv PROVE FirstRunReported
<1> SUFFICES ASSUME Runs(1), NEW n \in 0 .. IterationCount - 1
             PROVE  Found(n) # {} /\ Printed(n) = n /\ point[n].ended = n
  BY DEF FirstRunReported
<1>1. logIndex >= IterationCount
  BY ThreadRuns
<1>2. \A m \in 0 .. IterationCount - 1 : point[m].name = m /\ point[m].ended = m
  BY <1>1, ThroughputNames, ThroughputTypes DEF ThroughputInv, Logged
<1>3. n \in Found(n)
  BY <1>1, <1>2, ThroughputNames, ThroughputTypes DEF Found
<1>4. \A m \in Found(n) : n <= m
  <2> SUFFICES ASSUME NEW m \in Found(n), m < n PROVE FALSE
    BY ThroughputNames DEF Found, Entry
  <2>1. m \in 0 .. IterationCount - 1 /\ point[m].name = n
    BY ThroughputNames DEF Found, Entry
  <2>2. QED
    BY <1>2, <2>1, ThroughputNames
<1>5. Printed(n) \in Found(n) /\ \A m \in Found(n) : Printed(n) <= m
  BY <1>3, <1>4 DEF Printed
<1>6. Printed(n) = n
  <2>1. Printed(n) \in Nat /\ n \in Nat
    BY <1>5, ThroughputNames DEF Found, Entry
  <2>2. QED
    BY <1>3, <1>4, <1>5, <2>1
<1>7. QED
  BY <1>2, <1>3, <1>6

-----------------------------------------------------------------------------
(* Its theorems, in the run beside the other benchmark.                    *)

MCInv == build = "throughput" => ThroughputInv

LEMMA MeasurementsInit == ASSUME MCInit PROVE MCInv
  BY ThroughputInit DEF MCInit, MCInv, InheritancePort

LEMMA MeasurementsNext == ASSUME MCInv, [MCNext]_mcvars PROVE MCInv'
<1> SUFFICES ASSUME build' = "throughput" PROVE ThroughputInv'
  BY DEF MCInv
<1>1. build' = build
  BY DEF MCNext, MCTaskStep, MCTick, mcvars
<1>2. ThroughputInv
  BY <1>1 DEF MCInv
<1>3. [Next]_vars
  BY <1>1 DEF MCNext, MCTaskStep, MCTick, mcvars, Next, InheritancePort
<1>4. QED
  BY <1>2, <1>3, ThroughputNext

(***************************************************************************)
(* The memory throughput benchmark uses the driver as it is meant to be    *)
(* used, and so logs what was counted, whatever a copy takes               *)
(* (memory_throughput_test.c:81-87, tm_porting_layer_zephyr.c:616-684).    *)
(***************************************************************************)
THEOREM ThroughputLoggedExactly == MCSpec => []LoggedExactly
<1>1. MCInit => MCInv
  BY MeasurementsInit
<1>2. MCInv /\ [MCNext]_mcvars => MCInv'
  BY MeasurementsNext
<1>3. MCInv => LoggedExactly
  BY DEF MCInv, LoggedExactly, ThroughputInv, DriverInv
<1>4. QED
  BY <1>1, <1>2, <1>3, PTL DEF MCSpec

(***************************************************************************)
(* The report prints under each name the copy of that number of the first  *)
(* run, for every number of names and copies and every length of the log   *)
(* that has room for the names, although the worker goes on past the array *)
(* of names and the log (memory_throughput_test.c:81-114).                 *)
(***************************************************************************)
THEOREM ThroughputFirstRun == MCSpec => []FirstRunPrinted
<1>1. MCInit => MCInv
  BY MeasurementsInit
<1>2. MCInv /\ [MCNext]_mcvars => MCInv'
  BY MeasurementsNext
<1>3. MCInv => FirstRunPrinted
  BY ThroughputReported DEF MCInv, FirstRunPrinted
<1>4. QED
  BY <1>1, <1>2, <1>3, PTL DEF MCSpec

-----------------------------------------------------------------------------
(* The priority inheritance benchmark.                                     *)

High == 0
Med == 1
Low == 2

\* The number of the call that creates the thread.
Place(t) == CASE t = Low -> 1 [] t = Med -> 2 [] t = High -> 3

\* The level of each task without inheritance.
OwnLevel(port, t) ==
    IF t = Main THEN IF port = "FreeRTOS" THEN 30 ELSE 1
    ELSE LET priority == CASE t = High -> 5 [] t = Med -> 10 [] t = Low -> 20
         IN  IF port = "FreeRTOS" THEN MaxPriorities - priority + 1 ELSE priority

\* The ready tasks are alone in their lists.
Alone ==
    /\ \A t \in Task : state[t] = "ready" => ready[level[t]] = <<t>>
    /\ \A l \in Level : ready[l] # << >> =>
          \E t \in Task : state[t] = "ready" /\ level[t] = l

\* The low thread has the level of the high one while that waits.
Inherits(port) ==
    /\ \A t \in Task : base[t] = IF state[t] = "absent" THEN 0 ELSE OwnLevel(port, t)
    /\ level = IF state[High] = "blocked" THEN [base EXCEPT ![Low] = base[High]] ELSE base

\* While the main task creates and resumes the threads nobody else runs.
NotStarted(port) ==
    /\ calls < 8 /\ pc[Main] = "initialize" /\ state[Main] = "ready"
    /\ \A t \in Thread : state[t] = IF calls <= Place(t) THEN "absent"
                                    ELSE IF port = "FreeRTOS" \/ calls > Place(t) + 3 THEN "ready"
                                    ELSE "suspended"
    /\ pc[High] = "sleep" /\ pc[Med] = "work" /\ pc[Low] = "get"
    /\ owner[1] = Nobody /\ waiter[1] = Nobody
    /\ cycle[High] = 0 /\ cycle[Low] = 0 /\ inversion_count = 0 /\ logIndex = 0

\* A timeout of Zephyr begins with the next tick.
Delay(port) == IF port = "Zephyr" THEN 1 ELSE 0

Sleeps(t, ticks) == state[t] = "asleep" => due[t] \in 1 .. ticks

\* Where each thread can be.
Places(port) ==
    /\ state[Main] = "done" /\ pc[Main] = "done" /\ calls = 8
    /\ \/ pc[High] \in {"sleep", "suspend"} /\ state[High] \in {"ready", "asleep"}
          /\ Sleeps(High, 5 + Delay(port))
       \/ pc[High] = "get" /\ state[High] \in {"ready", "asleep", "blocked"}
          /\ Sleeps(High, 15 + Delay(port))
       \/ pc[High] \in {"end", "put", "rest"} /\ state[High] = "ready"
       \/ pc[High] = "done" /\ state[High] = "suspended"
    /\ \/ pc[Low] \in {"get", "suspend"} /\ state[Low] \in {"ready", "asleep"}
          /\ Sleeps(Low, 1 + Delay(port))
       \/ pc[Low] \in {"spin", "put", "count"} /\ state[Low] = "ready"
       \/ pc[Low] = "done" /\ state[Low] = "suspended"
    /\ \/ pc[Med] = "work" /\ state[Med] = "ready"
       \/ pc[Med] = "check" /\ state[Med] \in {"ready", "asleep"}
          /\ Sleeps(Med, 2 + Delay(port))
       \/ pc[Med] = "report" /\ state[Med] \in {"ready", "asleep"}
          /\ Sleeps(Med, 10 + Delay(port))
       \/ pc[Med] = "done" /\ state[Med] \in {"suspended", "done"}

\* The low thread has put the mutex for the high one, which is not through yet.
HandedOver ==
    /\ pc[Low] = "count"
    /\ \/ pc[High] \in {"end", "put", "rest"}
       \/ pc[High] = "get" /\ state[High] = "ready"

\* Who has the mutex and who waits for it.
Owned(port) ==
    /\ owner[1] = IF pc[Low] \in {"spin", "put"} THEN Low
                  ELSE IF pc[High] \in {"end", "put"} \/
                          (port # "FreeRTOS" /\ HandedOver /\ pc[High] = "get")
                       THEN High ELSE Nobody
    /\ waiter[1] = IF state[High] = "blocked" THEN High ELSE Nobody
    /\ state[High] = "blocked" => pc[Low] \in {"spin", "put"}
    /\ pc[Low] = "put" => state[High] = "blocked"
    /\ pc[High] \in {"end", "put", "rest"} => pc[Low] = "count"
    /\ pc[High] = "get" /\ state[High] = "ready" => pc[Low] \in {"spin", "count"}

\* The high thread is one cycle ahead from its rest to the low one's count.
InStep ==
    /\ cycle[High] = IF pc[Low] = "count" /\ ~HandedOver THEN cycle[Low] + 1 ELSE cycle[Low]
    /\ pc[High] \in {"suspend", "done"} <=> cycle[High] = Cycles
    /\ pc[Low] \in {"suspend", "done"} <=> cycle[Low] = Cycles
    /\ inversion_count = cycle[Low]

\* The ticks until the high thread asks for the mutex.
HighLeft(port) ==
    IF HandedOver THEN 20 + 2 * Delay(port)
    ELSE (IF state[High] = "asleep" THEN due[High] ELSE 0)
         + (IF pc[High] = "sleep" THEN 15 + Delay(port) ELSE 0)

\* No more ticks than this come before the low thread has done its next step,
\* and after a count its step after the sleep.
LowLeft(port) ==
    IF state[Low] = "asleep" THEN due[Low] + MaxLate
    ELSE (MaxLate - late) + (IF pc[Low] = "count" THEN 1 + Delay(port) + MaxLate ELSE 0)

InTime(port) ==
    pc[Low] \in {"get", "count"} /\ pc[High] \notin {"suspend", "done"} =>
        HighLeft(port) > LowLeft(port)

\* The medium thread finds the last inversion when the low one is about to wake, and
\* sleeps until both threads are suspended.
LastDelay(port) ==
    /\ pc[Med] = "check" /\ pc[Low] = "suspend" /\ state[Low] = "asleep" =>
          due[Low] <= (IF state[Med] = "asleep" THEN due[Med] ELSE 0) + Delay(port)
    /\ pc[Med] = "report" =>
          /\ pc[Low] \in {"suspend", "done"}
          /\ IF state[Med] = "asleep"
             THEN /\ pc[Low] = "suspend" => LowLeft(port) < due[Med]
                  /\ state[High] = "asleep" => due[High] < due[Med]
             ELSE pc[Low] = "done" /\ state[High] # "asleep"
    /\ pc[Med] = "done" => pc[Low] = "done"

\* The log is as far as the high thread.
HighLogged ==
    /\ logIndex = IF pc[High] \in {"put", "rest"} THEN cycle[High] + 1 ELSE cycle[High]
    /\ \A e \in Entry : e < logIndex => point[e].name = e /\ point[e].ended = e
    /\ pc[High] = "end" \/ (pc[High] = "get" /\ (state[High] = "blocked" \/ HandedOver)) =>
          point[logIndex].name = logIndex

InheritanceLabel ==
    {"initialize", "done", "sleep", "get", "end", "put", "rest", "spin", "count",
     "work", "check", "report", "suspend"}

\* The types, which are the same on every port.
InheritanceTypes ==
    /\ KernelTypeOK
    /\ PmuTypeOK
    /\ owner \in [Mutex -> Task \cup {Nobody}]
    /\ waiter \in [Mutex -> Task \cup {Nobody}]
    /\ base \in [Task -> Level]
    /\ calls \in 0 .. 8
    /\ pc \in [Task -> InheritanceLabel]
    /\ cycle \in [{High, Low} -> 0 .. Cycles]
    /\ inversion_count \in 0 .. Cycles
    /\ due \in [Thread -> 0 .. 16]
    /\ late \in 0 .. MaxLate

Started(port) ==
    /\ Places(port)
    /\ Owned(port)
    /\ InStep
    /\ InTime(port)
    /\ LastDelay(port)

InheritanceInv(port) ==
    /\ InheritanceTypes
    /\ Alone
    /\ Inherits(port)
    /\ NotStarted(port) \/ Started(port)
    /\ HighLogged

\* On FreeRTOS the main task is the most urgent one, as with the suite's 32 levels.
MainFirst(port) == port = "FreeRTOS" => MaxPriorities < 34

LEMMA InheritanceNames ==
    /\ Thread = {High, Med, Low} /\ Main \notin Thread /\ Task = {High, Med, Low, Main}
    /\ High = 0 /\ Med = 1 /\ Low = 2
    /\ Mutex = {1} /\ Nobody \notin Task
    /\ Cycles \in Nat /\ Cycles >= 1 /\ Cycles <= MaxLogEntries /\ MaxLogEntries \in Nat
    /\ MaxLate \in Nat
    /\ MaxPriorities \in Nat /\ MaxPriorities > 31
<1>1. "Zephyr" \in InheritancePort
  BY DEF InheritancePort
<1>2. Inheritance("Zephyr")!Configuration
  BY <1>1, MeasurementsConfiguration
<1>3. QED
  BY <1>2, MainAssumption, MaxPrioritiesAssumption, MaxLogEntriesAssumption
  DEF Inheritance!Configuration, Inheritance!High, Inheritance!Med, Inheritance!Low,
      Inheritance!SharedMutex, Inheritance!Task, High, Med, Low, Task

\* The levels of the four tasks, the main task's the most urgent.
LEMMA OwnLevels ==
    ASSUME NEW port \in InheritancePort, MainFirst(port)
    PROVE  /\ \A t \in Task : OwnLevel(port, t) \in Level
           /\ \A t, u \in Task : t # u => OwnLevel(port, t) # OwnLevel(port, u)
           /\ \A t \in Thread :
                 Inheritance(port)!MoreUrgent(OwnLevel(port, Main), OwnLevel(port, t))
           /\ Inheritance(port)!MoreUrgent(OwnLevel(port, High), OwnLevel(port, Med))
           /\ Inheritance(port)!MoreUrgent(OwnLevel(port, High), OwnLevel(port, Low))
           /\ Inheritance(port)!MoreUrgent(OwnLevel(port, Med), OwnLevel(port, Low))
<1>1. /\ OwnLevel(port, Main) = IF port = "FreeRTOS" THEN 30 ELSE 1
      /\ OwnLevel(port, 0) = IF port = "FreeRTOS" THEN MaxPriorities - 4 ELSE 5
      /\ OwnLevel(port, 1) = IF port = "FreeRTOS" THEN MaxPriorities - 9 ELSE 10
      /\ OwnLevel(port, 2) = IF port = "FreeRTOS" THEN MaxPriorities - 19 ELSE 20
  BY InheritanceNames DEF OwnLevel
<1>2. /\ \A t \in Task : OwnLevel(port, t) \in Level
      /\ \A t, u \in Task : t # u => OwnLevel(port, t) # OwnLevel(port, u)
  BY <1>1, InheritanceNames DEF MainFirst, Level
<1>3. QED
  BY <1>1, <1>2, InheritanceNames DEF MainFirst, Inheritance!MoreUrgent

-----------------------------------------------------------------------------
(* Lists of one task.                                                      *)

\* The kernel and its lists, as TmLemmas names them.
LEMMA AloneHere == AloneIn(Task, Level) <=> KernelTypeOK /\ Alone
  BY DEF AloneIn, KernelTypes, KernelTypeOK, Alone

LEMMA AloneThere == AloneIn(Task, Level)' <=> KernelTypeOK' /\ Alone'
  BY DEF AloneIn, KernelTypes, KernelTypeOK, Alone

\* The running task leaves its list.
LEMMA LeaveAlone ==
    ASSUME KernelTypeOK, Alone, NEW t \in Task, state[t] = "ready",
           NEW s \in State \ {"ready"}, state' = [state EXCEPT ![t] = s],
           ready' = [ready EXCEPT ![level[t]] = Tail(@)], level' = level
    PROVE  KernelTypeOK' /\ Alone'
  BY AloneHere, AloneThere, LeaveAloneIn

\* A task becomes ready on a level without ready tasks.
LEMMA JoinAlone ==
    ASSUME KernelTypeOK, Alone, NEW t \in Task, state[t] # "ready", NEW l \in Level,
           \A u \in Task : state[u] = "ready" => level[u] # l,
           state' = [state EXCEPT ![t] = "ready"], level' = [level EXCEPT ![t] = l],
           ready' = [ready EXCEPT ![l] = Append(@, t)]
    PROVE  KernelTypeOK' /\ Alone'
  BY AloneHere, AloneThere, JoinAloneIn

LEMMA SameAlone ==
    ASSUME KernelTypeOK, Alone, state' = state, level' = level, ready' = ready
    PROVE  KernelTypeOK' /\ Alone'
  BY DEF KernelTypeOK, Alone

\* Who runs is ready, and no other ready task is more urgent.
LEMMA InheritanceRuns ==
    ASSUME InheritanceTypes, Alone, NEW port \in InheritancePort, NEW t \in Task,
           Inheritance(port)!Runs(t)
    PROVE  /\ state[t] = "ready" /\ ready[level[t]] = <<t>>
           /\ \A u \in Task : state[u] = "ready" =>
                 ~Inheritance(port)!MoreUrgent(level[u], level[t])
<1>1. /\ state[t] = "ready"
      /\ \A l \in Level : Inheritance(port)!MoreUrgent(l, level[t]) => ready[l] = << >>
  BY DEF Inheritance!Runs, Inheritance!Level, Level
<1>2. ASSUME NEW u \in Task, state[u] = "ready"
      PROVE  ~Inheritance(port)!MoreUrgent(level[u], level[t])
  <2>1. level[u] \in Level /\ ready[level[u]] = <<u>> /\ <<u>> # << >>
    BY <1>2, Singleton DEF InheritanceTypes, KernelTypeOK, Alone
  <2>2. QED
    BY <1>1, <2>1
<1>3. QED
  BY <1>1, <1>2 DEF Alone

\* A thread runs only when all of them are resumed, and only if no more urgent
\* one is ready; the medium thread does not while the high one is blocked.
LEMMA InheritanceTurn ==
    ASSUME NEW port \in InheritancePort, MainFirst(port), InheritanceInv(port),
           NEW t \in Thread, Inheritance(port)!Runs(t)
    PROVE  /\ Started(port) /\ state[t] = "ready" /\ ready[level[t]] = <<t>> /\ t \in Task
           /\ t = High => level = base
           /\ t = Med => state[High] \notin {"ready", "blocked"} /\ level = base
           /\ t = Low => /\ state[High] # "ready"
                         /\ state[High] # "blocked" => state[Med] # "ready" /\ level = base
<1>1. t \in Task /\ t # Main /\ Task = {High, Med, Low, Main} /\ High # Low /\ Med # Low
      /\ High # Med /\ High \in Task /\ Med \in Task /\ Low \in Task /\ Main \in Task
      /\ High # Main /\ Med # Main /\ Low # Main /\ t \in {High, Med, Low}
  BY InheritanceNames
<1>2. /\ InheritanceTypes /\ Alone /\ Inherits(port)
      /\ NotStarted(port) \/ Started(port)
  BY DEF InheritanceInv
<1>3. /\ state[t] = "ready" /\ ready[level[t]] = <<t>>
      /\ \A u \in Task : state[u] = "ready" =>
            ~Inheritance(port)!MoreUrgent(level[u], level[t])
  BY <1>1, <1>2, InheritanceRuns
<1>4. \A u \in Task : state[u] = "ready" => base[u] = OwnLevel(port, u)
  BY <1>2 DEF Inherits
<1>5. state \in [Task -> State] /\ base \in [Task -> Level]
  BY <1>2 DEF InheritanceTypes, KernelTypeOK
<1>6. Started(port)
  <2>1. ASSUME NotStarted(port) PROVE FALSE
    <3>1. state[Main] = "ready" /\ state[High] # "blocked"
      BY <2>1, <1>1, InheritanceNames DEF NotStarted
    <3>2. level[Main] = OwnLevel(port, Main) /\ level[t] = OwnLevel(port, t)
      BY <1>1, <1>2, <1>3, <1>4, <3>1 DEF Inherits
    <3>3. QED
      BY <1>1, <1>3, <3>1, <3>2, OwnLevels
  <2>2. QED
    BY <1>2, <2>1
<1>7. Places(port) /\ Owned(port)
  BY <1>6 DEF Started
<1>8. t = High => level = base
  BY <1>2, <1>3 DEF Inherits
<1>9. ASSUME t = Med PROVE state[High] \notin {"ready", "blocked"} /\ level = base
  <2>1. level[Med] = OwnLevel(port, Med)
    BY <1>1, <1>2, <1>3, <1>4, <1>5, <1>9 DEF Inherits
  <2>2. state[High] # "blocked"
    <3>1. SUFFICES ASSUME state[High] = "blocked" PROVE FALSE
      OBVIOUS
    <3>2. state[Low] = "ready"
      BY <1>7, <3>1 DEF Places, Owned
    <3>3. base[High] = OwnLevel(port, High) /\ level[Low] = base[High]
      BY <1>1, <1>2, <1>5, <3>1 DEF Inherits
    <3>4. QED
      BY <1>1, <1>3, <1>9, <2>1, <3>2, <3>3, OwnLevels
  <2>3. level = base
    BY <1>2, <2>2 DEF Inherits
  <2>4. ASSUME state[High] = "ready" PROVE FALSE
    BY <1>1, <1>3, <1>4, <1>9, <2>1, <2>3, <2>4, OwnLevels
  <2>5. QED
    BY <2>2, <2>3, <2>4
<1>10. ASSUME t = Low
       PROVE  /\ state[High] # "ready"
              /\ state[High] # "blocked" => state[Med] # "ready" /\ level = base
  <2>1. state[High] # "ready"
    <3>1. SUFFICES ASSUME state[High] = "ready" PROVE FALSE
      OBVIOUS
    <3>2. level = base
      BY <1>2, <3>1 DEF Inherits
    <3>3. QED
      BY <1>1, <1>3, <1>4, <1>10, <3>1, <3>2, OwnLevels
  <2>2. ASSUME state[High] # "blocked" PROVE state[Med] # "ready" /\ level = base
    <3>1. level = base
      BY <1>2, <2>2 DEF Inherits
    <3>2. QED
      BY <1>1, <1>3, <1>4, <1>10, <3>1, OwnLevels
  <2>3. QED
    BY <2>1, <2>2
<1>11. QED
  BY <1>1, <1>3, <1>6, <1>8, <1>9, <1>10

LEMMA InheritanceFacts ==
    ASSUME NEW port \in InheritancePort, InheritanceInv(port)
    PROVE  /\ InheritanceTypes /\ KernelTypeOK /\ Alone /\ Inherits(port) /\ HighLogged
           /\ state \in [Task -> State] /\ level \in [Task -> Level]
           /\ owner \in [{1} -> Task \cup {Nobody}]
           /\ waiter \in [{1} -> Task \cup {Nobody}]
           /\ base \in [Task -> Level]
           /\ pc \in [Task -> InheritanceLabel]
           /\ cycle \in [{High, Low} -> 0 .. Cycles] /\ due \in [Thread -> 0 .. 16]
           /\ cycle[High] \in Nat /\ cycle[Low] \in Nat
           /\ late \in Nat /\ late <= MaxLate
           /\ \A t \in Thread : due[t] \in Nat
           /\ logIndex \in Nat /\ logIndex <= MaxLogEntries
           /\ point \in [Entry -> [name : Name, ended : Name]]
<1>1. InheritanceTypes /\ Alone /\ Inherits(port) /\ HighLogged
  BY DEF InheritanceInv
<1>2. /\ KernelTypeOK /\ state \in [Task -> State] /\ level \in [Task -> Level]
      /\ owner \in [{1} -> Task \cup {Nobody}] /\ waiter \in [{1} -> Task \cup {Nobody}]
      /\ base \in [Task -> Level]
      /\ pc \in [Task -> InheritanceLabel]
  BY <1>1, InheritanceNames DEF InheritanceTypes, KernelTypeOK
<1>3. cycle \in [{High, Low} -> 0 .. Cycles] /\ due \in [Thread -> 0 .. 16]
      /\ late \in 0 .. MaxLate
  BY <1>1 DEF InheritanceTypes
<1>4. /\ cycle[High] \in Nat /\ cycle[Low] \in Nat /\ late \in Nat /\ late <= MaxLate
      /\ \A t \in Thread : due[t] \in Nat
  BY <1>3, InheritanceNames
<1>5. /\ logIndex \in Nat /\ logIndex <= MaxLogEntries
      /\ point \in [Entry -> [name : Name, ended : Name]]
  BY <1>1, InheritanceNames DEF InheritanceTypes, PmuTypeOK
<1>6. QED
  BY <1>1, <1>2, <1>3, <1>4, <1>5

\* A thread ends its turn in the kernel: it sleeps, or is suspended for good.
LEMMA ThreadLeaves ==
    ASSUME NEW port \in InheritancePort, MainFirst(port), InheritanceInv(port),
           NEW t \in Thread, Inheritance(port)!Runs(t),
           NEW s \in {"asleep", "suspended", "done"}, Inheritance(port)!Block(t, s),
           UNCHANGED base
    PROVE  /\ KernelTypeOK' /\ Alone' /\ Inherits(port)'
           /\ state'[t] = s /\ \A u \in Task : u # t => state'[u] = state[u]
<1>1. /\ state' = [state EXCEPT ![t] = s] /\ level' = level
      /\ ready' = [ready EXCEPT ![level[t]] = Tail(@)]
  BY DEF Inheritance!Block
<1>2. /\ state[t] = "ready" /\ t \in Task /\ s \in State \ {"ready"}
      /\ KernelTypeOK /\ Alone /\ Inherits(port) /\ state \in [Task -> State]
  BY InheritanceTurn, InheritanceFacts DEF State
<1>3. KernelTypeOK' /\ Alone'
  BY <1>1, <1>2, LeaveAlone
<1>4. state'[t] = s /\ \A u \in Task : u # t => state'[u] = state[u]
  BY <1>1, <1>2
<1>5. Inherits(port)'
  <2>1. \A u \in Task : (state'[u] = "absent" <=> state[u] = "absent")
    BY <1>2, <1>4
  <2>2. state'[High] = "blocked" <=> state[High] = "blocked"
    BY <1>2, <1>4, InheritanceNames
  <2>3. QED
    BY <1>1, <1>2, <2>1, <2>2 DEF Inherits
<1>6. QED
  BY <1>3, <1>4, <1>5

\* A thread does something that is not the kernel's business.
LEMMA ThreadStays ==
    ASSUME NEW port \in InheritancePort, InheritanceInv(port),
           UNCHANGED <<state, level, ready, base>>
    PROVE  KernelTypeOK' /\ Alone' /\ Inherits(port)'
  BY InheritanceFacts, SameAlone DEF Inherits

LEMMA InheritanceJoin ==
    ASSUME NEW port \in InheritancePort,
           InheritanceTypes', Alone', Inherits(port)', HighLogged',
           Places(port)', Owned(port)', InStep', InTime(port)', LastDelay(port)'
    PROVE  InheritanceInv(port)'
  BY DEF InheritanceInv, Started

LEMMA HighSleepInv ==
    ASSUME NEW port \in InheritancePort, MainFirst(port), MaxLate <= 9,
           InheritanceInv(port), Inheritance(port)!HighSleep
    PROVE  InheritanceInv(port)'
<1>1. /\ Inheritance(port)!Runs(High) /\ pc[High] = "sleep"
      /\ Inheritance(port)!Block(High, "asleep")
      /\ pc' = [pc EXCEPT ![High] = "get"]
      /\ due' = [due EXCEPT ![High] = 15 + Delay(port)]
      /\ UNCHANGED <<owner, waiter, base, logIndex, point, calls, cycle,
                     inversion_count, late>>
  BY InheritanceNames
  DEF Inheritance!HighSleep, Inheritance!At, Inheritance!Goto, Inheritance!High, High,
      Inheritance!tm_thread_sleep_ticks, Inheritance!tm_thread_sleep, Delay,
      Inheritance!mutexes, Inheritance!pmu
<1>2. /\ High \in Thread /\ High \in Task /\ Started(port)
      /\ Places(port) /\ Owned(port) /\ InStep /\ InTime(port) /\ LastDelay(port)
  BY <1>1, InheritanceNames, InheritanceTurn DEF Started
<1>3. /\ KernelTypeOK' /\ Alone' /\ Inherits(port)' /\ state[High] = "ready"
      /\ state'[High] = "asleep"
      /\ state'[Med] = state[Med] /\ state'[Low] = state[Low]
      /\ state'[Main] = state[Main]
  BY <1>1, <1>2, InheritanceTurn, ThreadLeaves, InheritanceNames
<1>4. /\ pc'[High] = "get"
      /\ pc'[Med] = pc[Med] /\ pc'[Low] = pc[Low] /\ pc'[Main] = pc[Main]
      /\ due'[High] = 15 + Delay(port) /\ due'[Med] = due[Med] /\ due'[Low] = due[Low]
  BY <1>1, <1>2, InheritanceFacts, InheritanceNames
<1>5. Delay(port) \in 0 .. 1
  BY DEF Delay
<1>6. InheritanceTypes'
  <2>1. pc' \in [Task -> InheritanceLabel]
    BY <1>1, <1>2, InheritanceFacts DEF InheritanceLabel
  <2>2. due' \in [Thread -> 0 .. 16]
    BY <1>1, <1>2, <1>5, InheritanceFacts
  <2>3. QED
    BY <1>1, <1>3, <2>1, <2>2, InheritanceFacts DEF InheritanceTypes, PmuTypeOK
<1>7. Places(port)'
  BY <1>1, <1>2, <1>3, <1>4, <1>5, InheritanceNames, InheritanceFacts DEF Places, Sleeps
<1>8. Owned(port)'
  BY <1>1, <1>2, <1>3, <1>4, <1>5, InheritanceNames, InheritanceFacts
  DEF Owned, HandedOver, Places
<1>9. InStep'
  BY <1>1, <1>2, <1>3, <1>4, <1>5, InheritanceNames, InheritanceFacts
  DEF InStep, HandedOver, Places, Owned
<1>10. InTime(port)'
  BY <1>1, <1>2, <1>3, <1>4, <1>5, InheritanceNames, InheritanceFacts
  DEF InTime, HighLeft, LowLeft, HandedOver, InStep, Places, Owned, Sleeps
<1>11. LastDelay(port)'
  BY <1>1, <1>2, <1>3, <1>4, <1>5, InheritanceNames, InheritanceFacts
  DEF LastDelay, LowLeft, InStep, HandedOver, Places, Owned, Sleeps
<1>12. HighLogged'
  BY <1>1, <1>2, <1>3, <1>4, <1>5, InheritanceNames, InheritanceFacts
  DEF HighLogged, HandedOver, InStep, Places, Owned
<1>13. QED
  BY <1>3, <1>6, <1>7, <1>8, <1>9, <1>10, <1>11, <1>12, InheritanceJoin

LEMMA HighEndInv ==
    ASSUME NEW port \in InheritancePort, MainFirst(port), MaxLate <= 9,
           InheritanceInv(port), Inheritance(port)!HighEnd
    PROVE  InheritanceInv(port)'
<1>1. /\ Inheritance(port)!Runs(High) /\ pc[High] = "end"
      /\ pc' = [pc EXCEPT ![High] = "put"]
      /\ Inheritance(port)!tm_pmu_profile_end(cycle[High])
      /\ UNCHANGED <<state, level, ready, owner, waiter, base, calls, cycle,
                     inversion_count, due, late>>
  BY InheritanceNames
  DEF Inheritance!HighEnd, Inheritance!At, Inheritance!Goto, Inheritance!High, High,
      Inheritance!mutexes, Inheritance!kernel, Inheritance!time
<1>2. /\ High \in Thread /\ High \in Task /\ Started(port)
      /\ Places(port) /\ Owned(port) /\ InStep /\ InTime(port) /\ LastDelay(port)
  BY <1>1, InheritanceNames, InheritanceTurn DEF Started
<1>3. /\ KernelTypeOK' /\ Alone' /\ Inherits(port)' /\ state[High] = "ready"
  BY <1>1, <1>2, InheritanceTurn, ThreadStays
<1>4. /\ pc'[High] = "put"
      /\ pc'[Med] = pc[Med] /\ pc'[Low] = pc[Low] /\ pc'[Main] = pc[Main]
      /\ cycle[High] < Cycles /\ logIndex = cycle[High] /\ logIndex \in Entry
      /\ point[logIndex].name = logIndex
      /\ logIndex' = logIndex + 1
      /\ point' = [point EXCEPT ![logIndex].ended = logIndex]
  BY <1>1, <1>2, InheritanceFacts, InheritanceNames
  DEF InStep, HandedOver, Places, Owned, HighLogged, Entry,
      Inheritance!tm_pmu_profile_end, Inheritance!Entry
<1>5. Delay(port) \in 0 .. 1
  BY DEF Delay
<1>6. InheritanceTypes'
  <2>1. pc' \in [Task -> InheritanceLabel]
    BY <1>1, <1>2, InheritanceFacts DEF InheritanceLabel
  <2>2. PmuTypeOK'
    BY <1>4, InheritanceFacts, InheritanceNames DEF PmuTypeOK, Name
  <2>3. QED
    BY <1>1, <1>3, <2>1, <2>2, InheritanceFacts DEF InheritanceTypes, PmuTypeOK
<1>7. Places(port)'
  BY <1>1, <1>2, <1>3, <1>4, <1>5, InheritanceNames, InheritanceFacts DEF Places, Sleeps
<1>8. Owned(port)'
  BY <1>1, <1>2, <1>3, <1>4, <1>5, InheritanceNames, InheritanceFacts
  DEF Owned, HandedOver, Places
<1>9. InStep'
  BY <1>1, <1>2, <1>3, <1>4, <1>5, InheritanceNames, InheritanceFacts
  DEF InStep, HandedOver, Places, Owned
<1>10. InTime(port)'
  BY <1>1, <1>2, <1>3, <1>4, <1>5, InheritanceNames, InheritanceFacts
  DEF InTime, HighLeft, LowLeft, HandedOver, InStep, Places, Owned, Sleeps
<1>11. LastDelay(port)'
  BY <1>1, <1>2, <1>3, <1>4, <1>5, InheritanceNames, InheritanceFacts
  DEF LastDelay, LowLeft, InStep, HandedOver, Places, Owned, Sleeps
<1>12. HighLogged'
  <2>1. ASSUME NEW e \in Entry
        PROVE  /\ point'[e].name = point[e].name
               /\ point'[e].ended = IF e = logIndex THEN logIndex ELSE point[e].ended
    BY <1>4, InheritanceFacts
  <2>2. ASSUME NEW e \in Entry, e < logIndex' PROVE point'[e].name = e /\ point'[e].ended = e
    <3>1. e \in Int /\ (e = logIndex \/ e < logIndex)
      BY <1>4, <2>2, InheritanceFacts, InheritanceNames DEF Entry
    <3>2. QED
      BY <1>4, <2>1, <3>1, InheritanceFacts DEF HighLogged
  <2>3. QED
    BY <1>1, <1>2, <1>4, <2>2, InheritanceFacts DEF HighLogged, HandedOver
<1>13. QED
  BY <1>3, <1>6, <1>7, <1>8, <1>9, <1>10, <1>11, <1>12, InheritanceJoin

LEMMA HighRestInv ==
    ASSUME NEW port \in InheritancePort, MainFirst(port), MaxLate <= 9,
           InheritanceInv(port), Inheritance(port)!HighRest
    PROVE  InheritanceInv(port)'
<1>1. /\ Inheritance(port)!Runs(High) /\ pc[High] = "rest"
      /\ Inheritance(port)!Block(High, "asleep")
      /\ cycle' = [cycle EXCEPT ![High] = @ + 1]
      /\ pc' = [pc EXCEPT ![High] = IF cycle'[High] = Cycles THEN "suspend" ELSE "sleep"]
      /\ due' = [due EXCEPT ![High] = 5 + Delay(port)]
      /\ UNCHANGED <<owner, waiter, base, logIndex, point, calls, inversion_count,
                     late>>
  BY InheritanceNames
  DEF Inheritance!HighRest, Inheritance!At, Inheritance!Goto, Inheritance!High, High,
      Inheritance!tm_thread_sleep_ticks, Inheritance!tm_thread_sleep, Delay,
      Inheritance!mutexes, Inheritance!pmu
<1>2. /\ High \in Thread /\ High \in Task /\ Started(port)
      /\ Places(port) /\ Owned(port) /\ InStep /\ InTime(port) /\ LastDelay(port)
  BY <1>1, InheritanceNames, InheritanceTurn DEF Started
<1>3. /\ KernelTypeOK' /\ Alone' /\ Inherits(port)' /\ state[High] = "ready"
      /\ state'[High] = "asleep"
      /\ state'[Med] = state[Med] /\ state'[Low] = state[Low]
      /\ state'[Main] = state[Main]
  BY <1>1, <1>2, InheritanceTurn, ThreadLeaves, InheritanceNames
<1>4. /\ cycle'[High] = cycle[High] + 1 /\ cycle'[Low] = cycle[Low]
      /\ pc'[High] = IF cycle'[High] = Cycles THEN "suspend" ELSE "sleep"
      /\ pc'[Med] = pc[Med] /\ pc'[Low] = pc[Low] /\ pc'[Main] = pc[Main]
      /\ due'[High] = 5 + Delay(port) /\ due'[Med] = due[Med] /\ due'[Low] = due[Low]
  BY <1>1, <1>2, InheritanceFacts, InheritanceNames
<1>5. Delay(port) \in 0 .. 1
  BY DEF Delay
<1>6. InheritanceTypes'
  <2>1. pc' \in [Task -> InheritanceLabel]
    BY <1>1, <1>2, InheritanceFacts DEF InheritanceLabel
  <2>2. due' \in [Thread -> 0 .. 16]
    BY <1>1, <1>2, <1>5, InheritanceFacts
  <2>3. cycle' \in [{High, Low} -> 0 .. Cycles]
    BY <1>1, <1>2, InheritanceFacts, InheritanceNames DEF InStep, HandedOver, Places
  <2>4. QED
    BY <1>1, <1>3, <2>1, <2>2, <2>3, InheritanceFacts DEF InheritanceTypes, PmuTypeOK
<1>7. Places(port)'
  BY <1>1, <1>2, <1>3, <1>4, <1>5, InheritanceNames, InheritanceFacts DEF Places, Sleeps
<1>8. Owned(port)'
  BY <1>1, <1>2, <1>3, <1>4, <1>5, InheritanceNames, InheritanceFacts
  DEF Owned, HandedOver, Places
<1>9. InStep'
  BY <1>1, <1>2, <1>3, <1>4, <1>5, InheritanceNames, InheritanceFacts
  DEF InStep, HandedOver, Places, Owned
<1>10. InTime(port)'
  BY <1>1, <1>2, <1>3, <1>4, <1>5, InheritanceNames, InheritanceFacts
  DEF InTime, HighLeft, LowLeft, HandedOver, InStep, Places, Owned, Sleeps
<1>11. LastDelay(port)'
  BY <1>1, <1>2, <1>3, <1>4, <1>5, InheritanceNames, InheritanceFacts
  DEF LastDelay, LowLeft, InStep, HandedOver, Places, Owned, Sleeps
<1>12. HighLogged'
  BY <1>1, <1>2, <1>3, <1>4, <1>5, InheritanceNames, InheritanceFacts
  DEF HighLogged, HandedOver, InStep, Places, Owned
<1>13. QED
  BY <1>3, <1>6, <1>7, <1>8, <1>9, <1>10, <1>11, <1>12, InheritanceJoin

LEMMA LowSpinInv ==
    ASSUME NEW port \in InheritancePort, MainFirst(port), MaxLate <= 9,
           InheritanceInv(port), Inheritance(port)!LowSpin
    PROVE  InheritanceInv(port)'
<1>1. /\ Inheritance(port)!Runs(Low) /\ pc[Low] = "spin"
      /\ ~Inheritance(port)!Nominal
      /\ pc' = [pc EXCEPT ![Low] = "put"]
      /\ UNCHANGED <<state, level, ready, owner, waiter, base, logIndex, point, calls,
                     cycle, inversion_count, due, late>>
  BY InheritanceNames
  DEF Inheritance!LowSpin, Inheritance!At, Inheritance!Goto, Inheritance!Low, Low,
      Inheritance!mutexes, Inheritance!kernel, Inheritance!time, Inheritance!pmu
<1>2. /\ Low \in Thread /\ Low \in Task /\ Started(port)
      /\ Places(port) /\ Owned(port) /\ InStep /\ InTime(port) /\ LastDelay(port)
  BY <1>1, InheritanceNames, InheritanceTurn DEF Started
<1>3. /\ KernelTypeOK' /\ Alone' /\ Inherits(port)' /\ state[Low] = "ready"
      /\ state[High] = "blocked"
  <2>1. ASSUME state[High] # "blocked" PROVE FALSE
    <3>1. level[Low] = OwnLevel(port, Low)
      BY <1>1, <1>2, <2>1, InheritanceTurn, InheritanceFacts DEF Inherits
    <3>2. QED
      BY <1>1, <3>1, InheritanceNames
      DEF Inheritance!Nominal, Inheritance!tm_task_priority_get,
          Inheritance!freertos_task_priority_get, Inheritance!threadx_task_priority_get,
          Inheritance!Priority, Inheritance!Low, Inheritance!High, Inheritance!Med, OwnLevel
  <2>2. QED
    BY <1>1, <1>2, <2>1, InheritanceTurn, ThreadStays
<1>4. /\ pc'[Low] = "put"
      /\ pc'[High] = pc[High] /\ pc'[Med] = pc[Med] /\ pc'[Main] = pc[Main]
  BY <1>1, <1>2, InheritanceFacts, InheritanceNames
<1>5. Delay(port) \in 0 .. 1
  BY DEF Delay
<1>6. InheritanceTypes'
  <2>1. pc' \in [Task -> InheritanceLabel]
    BY <1>1, <1>2, InheritanceFacts DEF InheritanceLabel
  <2>2. QED
    BY <1>1, <1>3, <2>1, InheritanceFacts DEF InheritanceTypes, PmuTypeOK
<1>7. Places(port)'
  BY <1>1, <1>2, <1>3, <1>4, <1>5, InheritanceNames, InheritanceFacts DEF Places, Sleeps
<1>8. Owned(port)'
  BY <1>1, <1>2, <1>3, <1>4, <1>5, InheritanceNames, InheritanceFacts
  DEF Owned, HandedOver, Places
<1>9. InStep'
  BY <1>1, <1>2, <1>3, <1>4, <1>5, InheritanceNames, InheritanceFacts
  DEF InStep, HandedOver, Places, Owned
<1>10. InTime(port)'
  BY <1>1, <1>2, <1>3, <1>4, <1>5, InheritanceNames, InheritanceFacts
  DEF InTime, HighLeft, LowLeft, HandedOver, InStep, Places, Owned, Sleeps
<1>11. LastDelay(port)'
  BY <1>1, <1>2, <1>3, <1>4, <1>5, InheritanceNames, InheritanceFacts
  DEF LastDelay, LowLeft, InStep, HandedOver, Places, Owned, Sleeps
<1>12. HighLogged'
  BY <1>1, <1>2, <1>3, <1>4, <1>5, InheritanceNames, InheritanceFacts
  DEF HighLogged, HandedOver, InStep, Places, Owned
<1>13. QED
  BY <1>3, <1>6, <1>7, <1>8, <1>9, <1>10, <1>11, <1>12, InheritanceJoin

LEMMA LowCountInv ==
    ASSUME NEW port \in InheritancePort, MainFirst(port), MaxLate <= 9,
           InheritanceInv(port), Inheritance(port)!LowCount
    PROVE  InheritanceInv(port)'
<1>1. /\ Inheritance(port)!Runs(Low) /\ pc[Low] = "count"
      /\ Inheritance(port)!Block(Low, "asleep")
      /\ inversion_count' = inversion_count + 1
      /\ cycle' = [cycle EXCEPT ![Low] = @ + 1]
      /\ pc' = [pc EXCEPT ![Low] = IF cycle'[Low] = Cycles THEN "suspend" ELSE "get"]
      /\ due' = [due EXCEPT ![Low] = 1 + Delay(port)]
      /\ UNCHANGED <<owner, waiter, base, logIndex, point, calls, late>>
  BY InheritanceNames
  DEF Inheritance!LowCount, Inheritance!At, Inheritance!Goto, Inheritance!Low, Low,
      Inheritance!tm_thread_sleep_ticks, Inheritance!tm_thread_sleep, Delay,
      Inheritance!mutexes, Inheritance!pmu
<1>2. /\ Low \in Thread /\ Low \in Task /\ Started(port)
      /\ Places(port) /\ Owned(port) /\ InStep /\ InTime(port) /\ LastDelay(port)
  BY <1>1, InheritanceNames, InheritanceTurn DEF Started
<1>3. /\ KernelTypeOK' /\ Alone' /\ Inherits(port)' /\ state[Low] = "ready"
      /\ state'[Low] = "asleep"
      /\ state'[High] = state[High] /\ state'[Med] = state[Med]
      /\ state'[Main] = state[Main]
      /\ state[High] # "ready" /\ state[High] # "blocked" /\ state[Med] # "ready"
  BY <1>1, <1>2, InheritanceTurn, ThreadLeaves, InheritanceNames DEF Owned
<1>4. /\ cycle'[Low] = cycle[Low] + 1 /\ cycle'[High] = cycle[High]
      /\ pc'[Low] = IF cycle'[Low] = Cycles THEN "suspend" ELSE "get"
      /\ pc'[High] = pc[High] /\ pc'[Med] = pc[Med] /\ pc'[Main] = pc[Main]
      /\ due'[Low] = 1 + Delay(port) /\ due'[High] = due[High] /\ due'[Med] = due[Med]
  BY <1>1, <1>2, InheritanceFacts, InheritanceNames
<1>5. Delay(port) \in 0 .. 1
  BY DEF Delay
<1>6. InheritanceTypes'
  <2>1. pc' \in [Task -> InheritanceLabel]
    BY <1>1, <1>2, InheritanceFacts DEF InheritanceLabel
  <2>2. due' \in [Thread -> 0 .. 16]
    BY <1>1, <1>2, <1>5, InheritanceFacts
  <2>3. cycle' \in [{High, Low} -> 0 .. Cycles] /\ inversion_count' \in 0 .. Cycles
    <3>1. cycle[Low] < Cycles
      BY <1>1, <1>2, InheritanceFacts, InheritanceNames DEF InStep
    <3>2. QED
      BY <1>1, <1>2, <3>1, InheritanceFacts, InheritanceNames DEF InStep
  <2>4. QED
    BY <1>1, <1>3, <2>1, <2>2, <2>3, InheritanceFacts DEF InheritanceTypes, PmuTypeOK
<1>7. Places(port)'
  BY <1>1, <1>2, <1>3, <1>4, <1>5, InheritanceNames, InheritanceFacts DEF Places, Sleeps
<1>8. Owned(port)'
  BY <1>1, <1>2, <1>3, <1>4, <1>5, InheritanceNames, InheritanceFacts
  DEF Owned, HandedOver, Places
<1>9. InStep'
  BY <1>1, <1>2, <1>3, <1>4, <1>5, InheritanceNames, InheritanceFacts
  DEF InStep, HandedOver, Places, Owned
<1>10. InTime(port)'
  BY <1>1, <1>2, <1>3, <1>4, <1>5, InheritanceNames, InheritanceFacts
  DEF InTime, HighLeft, LowLeft, HandedOver, InStep, Places, Owned, Sleeps
<1>11. LastDelay(port)'
  BY <1>1, <1>2, <1>3, <1>4, <1>5, InheritanceNames, InheritanceFacts
  DEF LastDelay, LowLeft, InStep, HandedOver, Places, Owned, Sleeps
<1>12. HighLogged'
  BY <1>1, <1>2, <1>3, <1>4, <1>5, InheritanceNames, InheritanceFacts
  DEF HighLogged, HandedOver, InStep, Places, Owned
<1>13. QED
  BY <1>3, <1>6, <1>7, <1>8, <1>9, <1>10, <1>11, <1>12, InheritanceJoin

LEMMA HighSuspendInv ==
    ASSUME NEW port \in InheritancePort, MainFirst(port), MaxLate <= 9,
           InheritanceInv(port), Inheritance(port)!Suspend(High)
    PROVE  InheritanceInv(port)'
<1>1. /\ Inheritance(port)!Runs(High) /\ pc[High] = "suspend"
      /\ Inheritance(port)!Block(High, "suspended")
      /\ pc' = [pc EXCEPT ![High] = "done"]
      /\ UNCHANGED <<owner, waiter, base, logIndex, point, calls, cycle,
                     inversion_count, due, late>>
  BY InheritanceNames
  DEF Inheritance!Suspend, Inheritance!At, Inheritance!Goto,
      Inheritance!tm_thread_suspend, Inheritance!mutexes, Inheritance!pmu,
      Inheritance!time
<1>2. /\ High \in Thread /\ High \in Task /\ Started(port)
      /\ Places(port) /\ Owned(port) /\ InStep /\ InTime(port) /\ LastDelay(port)
  BY <1>1, InheritanceNames, InheritanceTurn DEF Started
<1>3. /\ KernelTypeOK' /\ Alone' /\ Inherits(port)' /\ state[High] = "ready"
      /\ state'[High] = "suspended"
      /\ state'[Med] = state[Med] /\ state'[Low] = state[Low]
      /\ state'[Main] = state[Main]
  BY <1>1, <1>2, InheritanceTurn, ThreadLeaves, InheritanceNames
<1>4. /\ pc'[High] = "done"
      /\ pc'[Med] = pc[Med] /\ pc'[Low] = pc[Low] /\ pc'[Main] = pc[Main]
  BY <1>1, <1>2, InheritanceFacts, InheritanceNames
<1>5. Delay(port) \in 0 .. 1
  BY DEF Delay
<1>6. InheritanceTypes'
  <2>1. pc' \in [Task -> InheritanceLabel]
    BY <1>1, <1>2, InheritanceFacts DEF InheritanceLabel
  <2>2. QED
    BY <1>1, <1>3, <2>1, InheritanceFacts DEF InheritanceTypes, PmuTypeOK
<1>7. Places(port)'
  BY <1>1, <1>2, <1>3, <1>4, <1>5, InheritanceNames, InheritanceFacts DEF Places, Sleeps
<1>8. Owned(port)'
  BY <1>1, <1>2, <1>3, <1>4, <1>5, InheritanceNames, InheritanceFacts
  DEF Owned, HandedOver, Places
<1>9. InStep'
  BY <1>1, <1>2, <1>3, <1>4, <1>5, InheritanceNames, InheritanceFacts
  DEF InStep, HandedOver, Places, Owned
<1>10. InTime(port)'
  BY <1>1, <1>2, <1>3, <1>4, <1>5, InheritanceNames, InheritanceFacts
  DEF InTime, HighLeft, LowLeft, HandedOver, InStep, Places, Owned, Sleeps
<1>11. LastDelay(port)'
  BY <1>1, <1>2, <1>3, <1>4, <1>5, InheritanceNames, InheritanceFacts
  DEF LastDelay, LowLeft, InStep, HandedOver, Places, Owned, Sleeps
<1>12. HighLogged'
  BY <1>1, <1>2, <1>3, <1>4, <1>5, InheritanceNames, InheritanceFacts
  DEF HighLogged, HandedOver, InStep, Places, Owned
<1>13. QED
  BY <1>3, <1>6, <1>7, <1>8, <1>9, <1>10, <1>11, <1>12, InheritanceJoin

LEMMA LowSuspendInv ==
    ASSUME NEW port \in InheritancePort, MainFirst(port), MaxLate <= 9,
           InheritanceInv(port), Inheritance(port)!Suspend(Low)
    PROVE  InheritanceInv(port)'
<1>1. /\ Inheritance(port)!Runs(Low) /\ pc[Low] = "suspend"
      /\ Inheritance(port)!Block(Low, "suspended")
      /\ pc' = [pc EXCEPT ![Low] = "done"]
      /\ UNCHANGED <<owner, waiter, base, logIndex, point, calls, cycle,
                     inversion_count, due, late>>
  BY InheritanceNames
  DEF Inheritance!Suspend, Inheritance!At, Inheritance!Goto,
      Inheritance!tm_thread_suspend, Inheritance!mutexes, Inheritance!pmu,
      Inheritance!time
<1>2. /\ Low \in Thread /\ Low \in Task /\ Started(port)
      /\ Places(port) /\ Owned(port) /\ InStep /\ InTime(port) /\ LastDelay(port)
  BY <1>1, InheritanceNames, InheritanceTurn DEF Started
<1>3. /\ KernelTypeOK' /\ Alone' /\ Inherits(port)' /\ state[Low] = "ready"
      /\ state'[Low] = "suspended"
      /\ state'[High] = state[High] /\ state'[Med] = state[Med]
      /\ state'[Main] = state[Main]
  BY <1>1, <1>2, InheritanceTurn, ThreadLeaves, InheritanceNames
<1>4. /\ pc'[Low] = "done"
      /\ pc'[High] = pc[High] /\ pc'[Med] = pc[Med] /\ pc'[Main] = pc[Main]
  BY <1>1, <1>2, InheritanceFacts, InheritanceNames
<1>5. Delay(port) \in 0 .. 1
  BY DEF Delay
<1>6. InheritanceTypes'
  <2>1. pc' \in [Task -> InheritanceLabel]
    BY <1>1, <1>2, InheritanceFacts DEF InheritanceLabel
  <2>2. QED
    BY <1>1, <1>3, <2>1, InheritanceFacts DEF InheritanceTypes, PmuTypeOK
<1>7. Places(port)'
  BY <1>1, <1>2, <1>3, <1>4, <1>5, InheritanceNames, InheritanceFacts DEF Places, Sleeps
<1>8. Owned(port)'
  BY <1>1, <1>2, <1>3, <1>4, <1>5, InheritanceNames, InheritanceFacts
  DEF Owned, HandedOver, Places
<1>9. InStep'
  BY <1>1, <1>2, <1>3, <1>4, <1>5, InheritanceNames, InheritanceFacts
  DEF InStep, HandedOver, Places, Owned
<1>10. InTime(port)'
  BY <1>1, <1>2, <1>3, <1>4, <1>5, InheritanceNames, InheritanceFacts
  DEF InTime, HighLeft, LowLeft, HandedOver, InStep, Places, Owned, Sleeps
<1>11. LastDelay(port)'
  BY <1>1, <1>2, <1>3, <1>4, <1>5, InheritanceNames, InheritanceFacts
  DEF LastDelay, LowLeft, InStep, HandedOver, Places, Owned, Sleeps
<1>12. HighLogged'
  BY <1>1, <1>2, <1>3, <1>4, <1>5, InheritanceNames, InheritanceFacts
  DEF HighLogged, HandedOver, InStep, Places, Owned
<1>13. QED
  BY <1>3, <1>6, <1>7, <1>8, <1>9, <1>10, <1>11, <1>12, InheritanceJoin

LEMMA MedWorkInv ==
    ASSUME NEW port \in InheritancePort, MainFirst(port), MaxLate <= 9,
           InheritanceInv(port), Inheritance(port)!MedWork
    PROVE  InheritanceInv(port)'
<1>1. /\ Inheritance(port)!Runs(Med) /\ pc[Med] = "work"
      /\ Inheritance(port)!Block(Med, "asleep")
      /\ pc' = [pc EXCEPT ![Med] = "check"]
      /\ due' = [due EXCEPT ![Med] = 2 + Delay(port)]
      /\ UNCHANGED <<owner, waiter, base, logIndex, point, calls, cycle,
                     inversion_count, late>>
  BY InheritanceNames
  DEF Inheritance!MedWork, Inheritance!At, Inheritance!Goto, Inheritance!Med, Med,
      Inheritance!tm_thread_sleep_ticks, Inheritance!tm_thread_sleep, Delay,
      Inheritance!mutexes, Inheritance!pmu
<1>2. /\ Med \in Thread /\ Med \in Task /\ Started(port)
      /\ Places(port) /\ Owned(port) /\ InStep /\ InTime(port) /\ LastDelay(port)
  BY <1>1, InheritanceNames, InheritanceTurn DEF Started
<1>3. /\ KernelTypeOK' /\ Alone' /\ Inherits(port)' /\ state[Med] = "ready"
      /\ state'[Med] = "asleep"
      /\ state'[High] = state[High] /\ state'[Low] = state[Low]
      /\ state'[Main] = state[Main]
  BY <1>1, <1>2, InheritanceTurn, ThreadLeaves, InheritanceNames
<1>4. /\ pc'[Med] = "check"
      /\ pc'[High] = pc[High] /\ pc'[Low] = pc[Low] /\ pc'[Main] = pc[Main]
      /\ due'[Med] = 2 + Delay(port) /\ due'[High] = due[High] /\ due'[Low] = due[Low]
  BY <1>1, <1>2, InheritanceFacts, InheritanceNames
<1>5. Delay(port) \in 0 .. 1
  BY DEF Delay
<1>6. InheritanceTypes'
  <2>1. pc' \in [Task -> InheritanceLabel]
    BY <1>1, <1>2, InheritanceFacts DEF InheritanceLabel
  <2>2. due' \in [Thread -> 0 .. 16]
    BY <1>1, <1>2, <1>5, InheritanceFacts
  <2>3. QED
    BY <1>1, <1>3, <2>1, <2>2, InheritanceFacts DEF InheritanceTypes, PmuTypeOK
<1>7. Places(port)'
  BY <1>1, <1>2, <1>3, <1>4, <1>5, InheritanceNames, InheritanceFacts DEF Places, Sleeps
<1>8. Owned(port)'
  BY <1>1, <1>2, <1>3, <1>4, <1>5, InheritanceNames, InheritanceFacts
  DEF Owned, HandedOver, Places
<1>9. InStep'
  BY <1>1, <1>2, <1>3, <1>4, <1>5, InheritanceNames, InheritanceFacts
  DEF InStep, HandedOver, Places, Owned
<1>10. InTime(port)'
  BY <1>1, <1>2, <1>3, <1>4, <1>5, InheritanceNames, InheritanceFacts
  DEF InTime, HighLeft, LowLeft, HandedOver, InStep, Places, Owned, Sleeps
<1>11. LastDelay(port)'
  BY <1>1, <1>2, <1>3, <1>4, <1>5, InheritanceNames, InheritanceFacts
  DEF LastDelay, LowLeft, InStep, HandedOver, Places, Owned, Sleeps
<1>12. HighLogged'
  BY <1>1, <1>2, <1>3, <1>4, <1>5, InheritanceNames, InheritanceFacts
  DEF HighLogged, HandedOver, InStep, Places, Owned
<1>13. QED
  BY <1>3, <1>6, <1>7, <1>8, <1>9, <1>10, <1>11, <1>12, InheritanceJoin

\* What the exit of the medium thread leaves.
MedEnd(port) == IF port = "FreeRTOS" THEN "done" ELSE "suspended"

LEMMA MedReportInv ==
    ASSUME NEW port \in InheritancePort, MainFirst(port), MaxLate <= 9,
           InheritanceInv(port), Inheritance(port)!MedReport
    PROVE  InheritanceInv(port)'
<1>1. /\ Inheritance(port)!Runs(Med) /\ pc[Med] = "report"
      /\ Inheritance(port)!Block(Med, MedEnd(port))
      /\ pc' = [pc EXCEPT ![Med] = "done"]
      /\ UNCHANGED <<owner, waiter, base, logIndex, point, calls, cycle,
                     inversion_count, due, late>>
  BY InheritanceNames
  DEF Inheritance!MedReport, Inheritance!At, Inheritance!Goto, Inheritance!Med, Med,
      Inheritance!tm_thread_exit, Inheritance!freertos_thread_exit,
      Inheritance!tm_thread_suspend, Inheritance!mutexes, Inheritance!pmu,
      Inheritance!time, MedEnd
<1>2. /\ Med \in Thread /\ Med \in Task /\ Started(port)
      /\ Places(port) /\ Owned(port) /\ InStep /\ InTime(port) /\ LastDelay(port)
  BY <1>1, InheritanceNames, InheritanceTurn DEF Started
<1>3. /\ KernelTypeOK' /\ Alone' /\ Inherits(port)' /\ state[Med] = "ready"
      /\ state'[Med] = MedEnd(port)
      /\ state'[High] = state[High] /\ state'[Low] = state[Low]
      /\ state'[Main] = state[Main]
  <2>1. MedEnd(port) \in {"asleep", "suspended", "done"}
    BY DEF MedEnd
  <2>2. QED
    BY <1>1, <1>2, <2>1, InheritanceTurn, ThreadLeaves, InheritanceNames
<1>4. /\ pc'[Med] = "done"
      /\ pc'[High] = pc[High] /\ pc'[Low] = pc[Low] /\ pc'[Main] = pc[Main]
  BY <1>1, <1>2, InheritanceFacts, InheritanceNames
<1>5. Delay(port) \in 0 .. 1
  BY DEF Delay
<1>6. InheritanceTypes'
  <2>1. pc' \in [Task -> InheritanceLabel]
    BY <1>1, <1>2, InheritanceFacts DEF InheritanceLabel
  <2>2. QED
    BY <1>1, <1>3, <2>1, InheritanceFacts DEF InheritanceTypes, PmuTypeOK
<1>7. Places(port)'
  BY <1>1, <1>2, <1>3, <1>4, <1>5, InheritanceNames, InheritanceFacts 
  DEF Places, Sleeps, MedEnd
<1>8. Owned(port)'
  BY <1>1, <1>2, <1>3, <1>4, <1>5, InheritanceNames, InheritanceFacts
  DEF Owned, HandedOver, Places
<1>9. InStep'
  BY <1>1, <1>2, <1>3, <1>4, <1>5, InheritanceNames, InheritanceFacts
  DEF InStep, HandedOver, Places, Owned
<1>10. InTime(port)'
  BY <1>1, <1>2, <1>3, <1>4, <1>5, InheritanceNames, InheritanceFacts
  DEF InTime, HighLeft, LowLeft, HandedOver, InStep, Places, Owned, Sleeps
<1>11. LastDelay(port)'
  BY <1>1, <1>2, <1>3, <1>4, <1>5, InheritanceNames, InheritanceFacts
  DEF LastDelay, LowLeft, InStep, HandedOver, Places, Owned, Sleeps
<1>12. HighLogged'
  BY <1>1, <1>2, <1>3, <1>4, <1>5, InheritanceNames, InheritanceFacts
  DEF HighLogged, HandedOver, InStep, Places, Owned
<1>13. QED
  BY <1>3, <1>6, <1>7, <1>8, <1>9, <1>10, <1>11, <1>12, InheritanceJoin

-----------------------------------------------------------------------------
(* The mutex.                                                              *)

\* Where the two threads are when the high one asks for the mutex, and when the
\* low one has it.
LEMMA NobodyInherits ==
    ASSUME NEW port \in InheritancePort, InheritanceInv(port), state[High] # "blocked"
    PROVE  /\ level = base
           /\ \A t \in Task : state[t] # "absent" => level[t] = OwnLevel(port, t)
  BY InheritanceFacts DEF Inherits

\* The high thread waits: the low one takes its place.
LEMMA LendAlone ==
    ASSUME KernelTypeOK, Alone, NEW port \in InheritancePort,
           state[High] = "ready", state[Low] = "ready", owner[1] = Low,
           level[High] # level[Low],
           Inheritance(port)!MoreUrgent(level[High], level[Low]),
           Inheritance(port)!Inherit(High, 1)
    PROVE  /\ KernelTypeOK' /\ Alone'
           /\ state' = [state EXCEPT ![High] = "blocked"]
           /\ level' = [level EXCEPT ![Low] = level[High]]
<1>1. /\ High \in Task /\ Low \in Task /\ High # Low
      /\ level[High] \in Level /\ level[Low] \in Level
      /\ ready[level[High]] = <<High>> /\ ready[level[Low]] = <<Low>>
  BY InheritanceNames DEF KernelTypeOK, Alone
<1>2. /\ state' = [state EXCEPT ![High] = "blocked"]
      /\ level' = [level EXCEPT ![Low] = level[High]]
      /\ ready' = [ready EXCEPT ![level[High]] = Tail(@),
                                ![level[Low]] = Inheritance(port)!Unlinked(@, Low),
                                ![level[High]] = Append(@, Low)]
  BY <1>1 DEF Inheritance!Inherit
<1>3. Inheritance(port)!Unlinked(<<Low>>, Low) = << >>
  BY <1>1, Singleton DEF Inheritance!Unlinked
<1>4. Append(Tail(<<High>>), Low) = <<Low>> /\ <<Low>> \in Seq(Task) /\ << >> \in Seq(Task)
  BY <1>1, Singleton, NoElements
<1>5. /\ ready' \in [Level -> Seq(Task)]
      /\ ready'[level[High]] = <<Low>> /\ ready'[level[Low]] = << >>
      /\ \A l \in Level : l # level[High] /\ l # level[Low] => ready'[l] = ready[l]
  BY <1>1, <1>2, <1>3, <1>4 DEF KernelTypeOK
<1>6. KernelTypeOK'
  BY <1>1, <1>2, <1>5 DEF KernelTypeOK, State
<1>7. ASSUME NEW u \in Task, state'[u] = "ready" PROVE ready'[level'[u]] = <<u>>
  <2>1. CASE u = Low
    BY <1>1, <1>2, <1>5, <2>1 DEF KernelTypeOK
  <2>2. CASE u # Low
    <3>1. u # High /\ state[u] = "ready" /\ level'[u] = level[u] /\ level[u] \in Level
          /\ ready[level[u]] = <<u>>
      BY <1>1, <1>2, <1>7, <2>2 DEF KernelTypeOK, Alone
    <3>2. <<u>> # <<High>> /\ <<u>> # <<Low>>
      BY <2>2, <3>1
    <3>3. QED
      BY <1>1, <1>5, <3>1, <3>2
  <2>3. QED
    BY <2>1, <2>2
<1>8. ASSUME NEW l \in Level, ready'[l] # << >>
      PROVE  \E u \in Task : state'[u] = "ready" /\ level'[u] = l
  <2>1. CASE l = level[High]
    BY <1>1, <1>2, <2>1 DEF KernelTypeOK
  <2>2. CASE l # level[High]
    <3>1. l # level[Low] /\ ready[l] # << >>
      BY <1>5, <1>8, <2>2
    <3>2. PICK u \in Task : state[u] = "ready" /\ level[u] = l
      BY <3>1 DEF Alone
    <3>3. QED
      BY <1>2, <2>2, <3>1, <3>2 DEF KernelTypeOK
  <2>3. QED
    BY <2>1, <2>2
<1>9. QED
  BY <1>2, <1>6, <1>7, <1>8 DEF Alone

\* The low thread gives the place back and goes behind.
LEMMA ReturnAlone ==
    ASSUME KernelTypeOK, Alone, NEW own \in Level,
           state[High] = "blocked", state[Low] = "ready",
           level[High] = level[Low], own # level[Low],
           \A u \in Task : u # Low /\ state[u] = "ready" => level[u] # own,
           state' = [state EXCEPT ![High] = "ready"], level' = [level EXCEPT ![Low] = own],
           ready' = [[ready EXCEPT ![level[Low]] = Tail(@), ![own] = Append(@, Low)]
                        EXCEPT ![level[High]] = Append(@, High)]
    PROVE  KernelTypeOK' /\ Alone'
<1>1. /\ High \in Task /\ Low \in Task /\ High # Low
      /\ level[High] \in Level /\ level[Low] \in Level
      /\ ready[level[Low]] = <<Low>>
  BY InheritanceNames DEF KernelTypeOK, Alone
<1>2. ready[own] = << >>
  BY <1>1 DEF Alone
<1>3. /\ Append(Tail(<<Low>>), High) = <<High>> /\ Append(<< >>, Low) = <<Low>>
      /\ <<Low>> \in Seq(Task) /\ <<High>> \in Seq(Task)
  BY <1>1, Singleton
<1>4. /\ ready' \in [Level -> Seq(Task)]
      /\ ready'[level[High]] = <<High>> /\ ready'[own] = <<Low>>
      /\ \A l \in Level : l # level[High] /\ l # own => ready'[l] = ready[l]
  BY <1>1, <1>2, <1>3 DEF KernelTypeOK
<1>5. KernelTypeOK'
  BY <1>1, <1>4 DEF KernelTypeOK, State
<1>6. ASSUME NEW u \in Task, state'[u] = "ready" PROVE ready'[level'[u]] = <<u>>
  <2>1. CASE u \in {High, Low}
    BY <1>1, <1>4, <2>1 DEF KernelTypeOK
  <2>2. CASE u \notin {High, Low}
    <3>1. state[u] = "ready" /\ level'[u] = level[u] /\ level[u] \in Level
          /\ ready[level[u]] = <<u>> /\ level[u] # own
      BY <1>1, <1>6, <2>2 DEF KernelTypeOK, Alone
    <3>2. <<u>> # <<Low>>
      BY <2>2
    <3>3. QED
      BY <1>1, <1>4, <3>1, <3>2
  <2>3. QED
    BY <2>1, <2>2
<1>7. ASSUME NEW l \in Level, ready'[l] # << >>
      PROVE  \E u \in Task : state'[u] = "ready" /\ level'[u] = l
  <2>1. CASE l = level[High]
    BY <1>1, <2>1 DEF KernelTypeOK
  <2>2. CASE l = own
    BY <1>1, <2>2 DEF KernelTypeOK
  <2>3. CASE l # level[High] /\ l # own
    <3>1. PICK u \in Task : state[u] = "ready" /\ level[u] = l
      BY <1>4, <1>7, <2>3 DEF Alone
    <3>2. QED
      BY <1>1, <2>3, <3>1 DEF KernelTypeOK
  <2>4. QED
    BY <2>1, <2>2, <2>3
<1>8. QED
  BY <1>5, <1>6, <1>7 DEF Alone

-----------------------------------------------------------------------------
(* The steps with the mutex.                                               *)

LEMMA HighTakesInv ==
    ASSUME NEW port \in InheritancePort, MainFirst(port), MaxLate <= 9,
           InheritanceInv(port), Inheritance(port)!HighGet, pc[Low] = "count"
    PROVE  InheritanceInv(port)'
<1>1. /\ Inheritance(port)!Runs(High) /\ pc[High] = "get"
      /\ pc[Low] = "count"
      /\ \E done \in BOOLEAN :
            /\ Inheritance(port)!tm_mutex_get(High, 1, done)
            /\ pc' = [pc EXCEPT ![High] = IF done THEN "end" ELSE "get"]
      /\ \/ UNCHANGED <<logIndex, point>>
         \/ Inheritance(port)!tm_pmu_profile_start(cycle[High])
      /\ UNCHANGED <<calls, cycle, inversion_count, due, late>>
  BY InheritanceNames
  DEF Inheritance!HighGet, Inheritance!At, Inheritance!Goto, Inheritance!High, High,
      Inheritance!SharedMutex, Inheritance!pmu, Inheritance!time
<1>2. /\ High \in Thread /\ High \in Task /\ Started(port)
      /\ Places(port) /\ Owned(port) /\ InStep /\ InTime(port) /\ LastDelay(port)
  BY <1>1, InheritanceNames, InheritanceTurn DEF Started
<1>3. /\ KernelTypeOK' /\ Alone' /\ Inherits(port)' /\ state[High] = "ready"
      /\ UNCHANGED <<state, level, ready, base, waiter>>
      /\ owner' = [owner EXCEPT ![1] = High]
      /\ pc' = [pc EXCEPT ![High] = "end"]
  <2>1. /\ waiter[1] = Nobody /\ owner \in [{1} -> Task \cup {Nobody}]
        /\ owner[1] = IF port = "FreeRTOS" THEN Nobody ELSE High
    BY <1>1, <1>2, InheritanceFacts, InheritanceNames, InheritanceTurn
    DEF Owned, HandedOver
  <2>2. /\ UNCHANGED <<state, level, ready, base, waiter>>
        /\ owner' = [owner EXCEPT ![1] = High]
        /\ pc' = [pc EXCEPT ![High] = "end"]
    BY <1>1, <2>1, InheritanceNames
    DEF Inheritance!tm_mutex_get, Inheritance!freertos_mutex_get,
        Inheritance!threadx_mutex_get, Inheritance!kernel, Inheritance!mutexes
  <2>3. QED
    BY <1>1, <1>2, <2>2, InheritanceTurn, ThreadStays
<1>4. /\ pc'[High] = "end"
      /\ pc'[Med] = pc[Med] /\ pc'[Low] = pc[Low] /\ pc'[Main] = pc[Main]
      /\ cycle[High] < Cycles /\ logIndex = cycle[High] /\ logIndex \in Entry
      /\ point[logIndex].name = logIndex
      /\ logIndex' = logIndex
      /\ point' = point \/ point' = [point EXCEPT ![logIndex].name = logIndex]
  BY <1>1, <1>2, <1>3, InheritanceFacts, InheritanceNames
  DEF InStep, HighLogged, HandedOver, Entry, Inheritance!tm_pmu_profile_start,
      Inheritance!Entry
<1>5. Delay(port) \in 0 .. 1
  BY DEF Delay
<1>6. InheritanceTypes'
  <2>1. pc' \in [Task -> InheritanceLabel]
    BY <1>1, <1>2, InheritanceFacts DEF InheritanceLabel
  <2>2. PmuTypeOK'
    BY <1>4, InheritanceFacts, InheritanceNames DEF PmuTypeOK, Name
  <2>3. QED
    BY <1>1, <1>3, <2>1, <2>2, InheritanceFacts, InheritanceNames
    DEF InheritanceTypes, PmuTypeOK
<1>7. Places(port)'
  BY <1>1, <1>2, <1>3, <1>4, <1>5, InheritanceNames, InheritanceFacts DEF Places, Sleeps
<1>8. Owned(port)'
  BY <1>1, <1>2, <1>3, <1>4, <1>5, InheritanceNames, InheritanceFacts
  DEF Owned, HandedOver, Places
<1>9. InStep'
  BY <1>1, <1>2, <1>3, <1>4, <1>5, InheritanceNames, InheritanceFacts
  DEF InStep, HandedOver, Places, Owned
<1>10. InTime(port)'
  BY <1>1, <1>2, <1>3, <1>4, <1>5, InheritanceNames, InheritanceFacts
  DEF InTime, HighLeft, LowLeft, HandedOver, InStep, Places, Owned, Sleeps
<1>11. LastDelay(port)'
  BY <1>1, <1>2, <1>3, <1>4, <1>5, InheritanceNames, InheritanceFacts
  DEF LastDelay, LowLeft, InStep, HandedOver, Places, Owned, Sleeps
<1>12. HighLogged'
  <2>1. ASSUME NEW e \in Entry
        PROVE  /\ point'[e].ended = point[e].ended
               /\ e # logIndex => point'[e].name = point[e].name
               /\ e = logIndex => point'[e].name = logIndex
    BY <1>4, InheritanceFacts
  <2>2. ASSUME NEW e \in Entry, e < logIndex PROVE point'[e].name = e /\ point'[e].ended = e
    <3>1. e # logIndex
      BY <2>2, InheritanceFacts
    <3>2. QED
      BY <2>1, <2>2, <3>1, InheritanceFacts DEF HighLogged
  <2>3. QED
    BY <1>1, <1>4, <2>1, <2>2, InheritanceFacts DEF HighLogged, HandedOver
<1>13. QED
  BY <1>3, <1>6, <1>7, <1>8, <1>9, <1>10, <1>11, <1>12, InheritanceJoin

LEMMA HighWaitsInv ==
    ASSUME NEW port \in InheritancePort, MainFirst(port), MaxLate <= 9,
           InheritanceInv(port), Inheritance(port)!HighGet, pc[Low] = "spin"
    PROVE  InheritanceInv(port)'
<1>1. /\ Inheritance(port)!Runs(High) /\ pc[High] = "get"
      /\ pc[Low] = "spin"
      /\ \E done \in BOOLEAN :
            /\ Inheritance(port)!tm_mutex_get(High, 1, done)
            /\ pc' = [pc EXCEPT ![High] = IF done THEN "end" ELSE "get"]
      /\ waiter[1] = Nobody /\ owner[1] # High =>
            Inheritance(port)!tm_pmu_profile_start(cycle[High])
      /\ UNCHANGED <<calls, cycle, inversion_count, due, late>>
  BY InheritanceNames
  DEF Inheritance!HighGet, Inheritance!At, Inheritance!Goto, Inheritance!High, High,
      Inheritance!SharedMutex, Inheritance!pmu, Inheritance!time
<1>2. /\ High \in Thread /\ High \in Task /\ Started(port)
      /\ Places(port) /\ Owned(port) /\ InStep /\ InTime(port) /\ LastDelay(port)
  BY <1>1, InheritanceNames, InheritanceTurn DEF Started
<1>3. /\ KernelTypeOK' /\ Alone' /\ Inherits(port)'
      /\ state[High] = "ready" /\ state[Low] = "ready"
      /\ state'[High] = "blocked"
      /\ state'[Med] = state[Med] /\ state'[Low] = state[Low]
      /\ state'[Main] = state[Main]
      /\ waiter' = [waiter EXCEPT ![1] = High] /\ UNCHANGED <<owner, base>>
      /\ pc' = [pc EXCEPT ![High] = "get"]
      /\ Inheritance(port)!tm_pmu_profile_start(cycle[High])
  <2>1. /\ waiter[1] = Nobody /\ owner[1] = Low /\ Low # High /\ Low # Nobody
        /\ state[High] = "ready" /\ state[Low] = "ready" /\ level = base
    BY <1>1, <1>2, InheritanceNames, InheritanceTurn DEF Owned, Places
  <2>2. /\ Inheritance(port)!Inherit(High, 1)
        /\ waiter' = [waiter EXCEPT ![1] = High] /\ UNCHANGED <<owner, base>>
        /\ pc' = [pc EXCEPT ![High] = "get"]
    BY <1>1, <2>1, InheritanceNames
    DEF Inheritance!tm_mutex_get, Inheritance!freertos_mutex_get,
        Inheritance!threadx_mutex_get
  <2>3. /\ level[High] = OwnLevel(port, High) /\ level[Low] = OwnLevel(port, Low)
        /\ level[High] # level[Low]
        /\ Inheritance(port)!MoreUrgent(level[High], level[Low])
    BY <2>1, NobodyInherits, OwnLevels, InheritanceNames
  <2>4. /\ KernelTypeOK' /\ Alone'
        /\ state' = [state EXCEPT ![High] = "blocked"]
        /\ level' = [level EXCEPT ![Low] = level[High]]
    BY <2>1, <2>2, <2>3, LendAlone, InheritanceFacts
  <2>5. /\ state'[High] = "blocked" /\ state'[Med] = state[Med]
        /\ state'[Low] = state[Low] /\ state'[Main] = state[Main]
        /\ \A u \in Task : (state'[u] = "absent" <=> state[u] = "absent")
    BY <2>1, <2>4, InheritanceFacts, InheritanceNames
  <2>6. Inherits(port)'
    BY <2>1, <2>2, <2>4, <2>5, InheritanceFacts DEF Inherits
  <2>7. QED
    BY <1>1, <2>1, <2>2, <2>4, <2>5, <2>6
<1>4. /\ pc'[High] = "get"
      /\ pc'[Med] = pc[Med] /\ pc'[Low] = pc[Low] /\ pc'[Main] = pc[Main]
      /\ cycle[High] < Cycles /\ logIndex = cycle[High] /\ logIndex \in Entry
      /\ logIndex' = logIndex /\ point' = [point EXCEPT ![logIndex].name = logIndex]
  <2>1. /\ pc'[High] = "get"
        /\ pc'[Med] = pc[Med] /\ pc'[Low] = pc[Low] /\ pc'[Main] = pc[Main]
    BY <1>1, <1>3, InheritanceFacts, InheritanceNames
  <2>2. cycle[High] < Cycles /\ logIndex = cycle[High]
    BY <1>1, <1>2, InheritanceFacts, InheritanceNames DEF InStep, HighLogged
  <2>3. logIndex \in Entry
    BY <2>2, InheritanceFacts, InheritanceNames DEF Entry
  <2>4. logIndex' = logIndex /\ point' = [point EXCEPT ![logIndex].name = logIndex]
    BY <1>3, <2>2, <2>3 DEF Entry, Inheritance!tm_pmu_profile_start, Inheritance!Entry
  <2>5. QED
    BY <2>1, <2>2, <2>3, <2>4
<1>5. Delay(port) \in 0 .. 1
  BY DEF Delay
<1>6. InheritanceTypes'
  <2>1. pc' \in [Task -> InheritanceLabel]
    BY <1>1, <1>2, InheritanceFacts DEF InheritanceLabel
  <2>2. PmuTypeOK'
    BY <1>4, InheritanceFacts, InheritanceNames DEF PmuTypeOK, Name
  <2>3. QED
    BY <1>1, <1>3, <2>1, <2>2, InheritanceFacts, InheritanceNames
    DEF InheritanceTypes, PmuTypeOK
<1>7. Places(port)'
  BY <1>1, <1>2, <1>3, <1>4, <1>5, InheritanceNames, InheritanceFacts DEF Places, Sleeps
<1>8. Owned(port)'
  BY <1>1, <1>2, <1>3, <1>4, <1>5, InheritanceNames, InheritanceFacts
  DEF Owned, HandedOver, Places
<1>9. InStep'
  BY <1>1, <1>2, <1>3, <1>4, <1>5, InheritanceNames, InheritanceFacts
  DEF InStep, HandedOver, Places, Owned
<1>10. InTime(port)'
  BY <1>1, <1>2, <1>3, <1>4, <1>5, InheritanceNames, InheritanceFacts
  DEF InTime, HighLeft, LowLeft, HandedOver, InStep, Places, Owned, Sleeps
<1>11. LastDelay(port)'
  BY <1>1, <1>2, <1>3, <1>4, <1>5, InheritanceNames, InheritanceFacts
  DEF LastDelay, LowLeft, InStep, HandedOver, Places, Owned, Sleeps
<1>12. HighLogged'
  <2>1. ASSUME NEW e \in Entry
        PROVE  /\ point'[e].ended = point[e].ended
               /\ e # logIndex => point'[e].name = point[e].name
               /\ e = logIndex => point'[e].name = logIndex
    BY <1>4, InheritanceFacts
  <2>2. ASSUME NEW e \in Entry, e < logIndex PROVE point'[e].name = e /\ point'[e].ended = e
    <3>1. e # logIndex
      BY <2>2, InheritanceFacts
    <3>2. QED
      BY <2>1, <2>2, <3>1, InheritanceFacts DEF HighLogged
  <2>3. QED
    BY <1>1, <1>4, <2>1, <2>2, InheritanceFacts DEF HighLogged, HandedOver
<1>13. QED
  BY <1>3, <1>6, <1>7, <1>8, <1>9, <1>10, <1>11, <1>12, InheritanceJoin

LEMMA HighPutInv ==
    ASSUME NEW port \in InheritancePort, MainFirst(port), MaxLate <= 9,
           InheritanceInv(port), Inheritance(port)!HighPut
    PROVE  InheritanceInv(port)'
<1>1. /\ Inheritance(port)!Runs(High) /\ pc[High] = "put"
      /\ pc' = [pc EXCEPT ![High] = "rest"]
      /\ Inheritance(port)!tm_mutex_put(High, 1)
      /\ UNCHANGED <<logIndex, point, calls, cycle, inversion_count, due, late>>
  BY InheritanceNames
  DEF Inheritance!HighPut, Inheritance!At, Inheritance!Goto, Inheritance!High, High,
      Inheritance!SharedMutex, Inheritance!pmu, Inheritance!time
<1>2. /\ High \in Thread /\ High \in Task /\ Started(port)
      /\ Places(port) /\ Owned(port) /\ InStep /\ InTime(port) /\ LastDelay(port)
  BY <1>1, InheritanceNames, InheritanceTurn DEF Started
<1>3. /\ KernelTypeOK' /\ Alone' /\ Inherits(port)' /\ state[High] = "ready"
      /\ UNCHANGED <<state, level, ready, base, waiter>>
      /\ owner' = [owner EXCEPT ![1] = Nobody]
  <2>1. /\ waiter[1] = Nobody /\ level = base /\ state[High] = "ready"
    BY <1>1, <1>2, InheritanceNames, InheritanceTurn DEF Owned
  <2>2. /\ UNCHANGED <<state, level, ready, base, waiter>>
        /\ owner' = [owner EXCEPT ![1] = Nobody]
    BY <1>1, <2>1, InheritanceFacts DEF Inheritance!tm_mutex_put
  <2>3. QED
    BY <2>1, <2>2, ThreadStays
<1>4. /\ pc'[High] = "rest"
      /\ pc'[Med] = pc[Med] /\ pc'[Low] = pc[Low] /\ pc'[Main] = pc[Main]
  BY <1>1, <1>2, InheritanceFacts, InheritanceNames
<1>5. Delay(port) \in 0 .. 1
  BY DEF Delay
<1>6. InheritanceTypes'
  <2>1. pc' \in [Task -> InheritanceLabel]
    BY <1>1, <1>2, InheritanceFacts DEF InheritanceLabel
  <2>2. QED
    BY <1>1, <1>3, <2>1, InheritanceFacts, InheritanceNames
    DEF InheritanceTypes, PmuTypeOK
<1>7. Places(port)'
  BY <1>1, <1>2, <1>3, <1>4, <1>5, InheritanceNames, InheritanceFacts DEF Places, Sleeps
<1>8. Owned(port)'
  BY <1>1, <1>2, <1>3, <1>4, <1>5, InheritanceNames, InheritanceFacts
  DEF Owned, HandedOver, Places
<1>9. InStep'
  BY <1>1, <1>2, <1>3, <1>4, <1>5, InheritanceNames, InheritanceFacts
  DEF InStep, HandedOver, Places, Owned
<1>10. InTime(port)'
  BY <1>1, <1>2, <1>3, <1>4, <1>5, InheritanceNames, InheritanceFacts
  DEF InTime, HighLeft, LowLeft, HandedOver, InStep, Places, Owned, Sleeps
<1>11. LastDelay(port)'
  BY <1>1, <1>2, <1>3, <1>4, <1>5, InheritanceNames, InheritanceFacts
  DEF LastDelay, LowLeft, InStep, HandedOver, Places, Owned, Sleeps
<1>12. HighLogged'
  BY <1>1, <1>2, <1>3, <1>4, <1>5, InheritanceNames, InheritanceFacts
  DEF HighLogged, HandedOver, InStep, Places, Owned
<1>13. QED
  BY <1>3, <1>6, <1>7, <1>8, <1>9, <1>10, <1>11, <1>12, InheritanceJoin

LEMMA LowGetInv ==
    ASSUME NEW port \in InheritancePort, MainFirst(port), MaxLate <= 9,
           InheritanceInv(port), Inheritance(port)!LowGet
    PROVE  InheritanceInv(port)'
<1>1. /\ Inheritance(port)!Runs(Low) /\ pc[Low] = "get"
      /\ \E done \in BOOLEAN :
            /\ Inheritance(port)!tm_mutex_get(Low, 1, done)
            /\ pc' = [pc EXCEPT ![Low] = IF done THEN "spin" ELSE "get"]
      /\ UNCHANGED <<logIndex, point, calls, cycle, inversion_count, due, late>>
  BY InheritanceNames
  DEF Inheritance!LowGet, Inheritance!At, Inheritance!Goto, Inheritance!Low, Low,
      Inheritance!SharedMutex, Inheritance!pmu, Inheritance!time
<1>2. /\ Low \in Thread /\ Low \in Task /\ Started(port)
      /\ Places(port) /\ Owned(port) /\ InStep /\ InTime(port) /\ LastDelay(port)
  BY <1>1, InheritanceNames, InheritanceTurn DEF Started
<1>3. /\ KernelTypeOK' /\ Alone' /\ Inherits(port)'
      /\ state[Low] = "ready" /\ state[High] # "ready" /\ state[High] # "blocked"
      /\ UNCHANGED <<state, level, ready, base, waiter>>
      /\ owner' = [owner EXCEPT ![1] = Low]
      /\ pc' = [pc EXCEPT ![Low] = "spin"]
  <2>1. /\ owner[1] = Nobody /\ Low # Nobody
        /\ state[Low] = "ready" /\ state[High] # "ready" /\ state[High] # "blocked"
    BY <1>1, <1>2, InheritanceNames, InheritanceTurn DEF Owned, HandedOver
  <2>2. /\ UNCHANGED <<state, level, ready, base, waiter>>
        /\ owner' = [owner EXCEPT ![1] = Low]
        /\ pc' = [pc EXCEPT ![Low] = "spin"]
    BY <1>1, <2>1
    DEF Inheritance!tm_mutex_get, Inheritance!freertos_mutex_get,
        Inheritance!threadx_mutex_get, Inheritance!kernel
  <2>3. QED
    BY <2>1, <2>2, ThreadStays
<1>4. /\ pc'[Low] = "spin"
      /\ pc'[High] = pc[High] /\ pc'[Med] = pc[Med] /\ pc'[Main] = pc[Main]
  BY <1>2, <1>3, InheritanceFacts, InheritanceNames
<1>5. Delay(port) \in 0 .. 1
  BY DEF Delay
<1>6. InheritanceTypes'
  <2>1. pc' \in [Task -> InheritanceLabel]
    BY <1>1, <1>2, InheritanceFacts DEF InheritanceLabel
  <2>2. QED
    BY <1>1, <1>3, <2>1, InheritanceFacts, InheritanceNames
    DEF InheritanceTypes, PmuTypeOK
<1>7. Places(port)'
  BY <1>1, <1>2, <1>3, <1>4, <1>5, InheritanceNames, InheritanceFacts DEF Places, Sleeps
<1>8. Owned(port)'
  BY <1>1, <1>2, <1>3, <1>4, <1>5, InheritanceNames, InheritanceFacts
  DEF Owned, HandedOver, Places
<1>9. InStep'
  BY <1>1, <1>2, <1>3, <1>4, <1>5, InheritanceNames, InheritanceFacts
  DEF InStep, HandedOver, Places, Owned
<1>10. InTime(port)'
  BY <1>1, <1>2, <1>3, <1>4, <1>5, InheritanceNames, InheritanceFacts
  DEF InTime, HighLeft, LowLeft, HandedOver, InStep, Places, Owned, Sleeps
<1>11. LastDelay(port)'
  BY <1>1, <1>2, <1>3, <1>4, <1>5, InheritanceNames, InheritanceFacts
  DEF LastDelay, LowLeft, InStep, HandedOver, Places, Owned, Sleeps
<1>12. HighLogged'
  BY <1>1, <1>2, <1>3, <1>4, <1>5, InheritanceNames, InheritanceFacts
  DEF HighLogged, HandedOver, InStep, Places, Owned
<1>13. QED
  BY <1>3, <1>6, <1>7, <1>8, <1>9, <1>10, <1>11, <1>12, InheritanceJoin

LEMMA LowPutInv ==
    ASSUME NEW port \in InheritancePort, MainFirst(port), MaxLate <= 9,
           InheritanceInv(port), Inheritance(port)!LowPut
    PROVE  InheritanceInv(port)'
<1>1. /\ Inheritance(port)!Runs(Low) /\ pc[Low] = "put"
      /\ pc' = [pc EXCEPT ![Low] = "count"]
      /\ Inheritance(port)!tm_mutex_put(Low, 1)
      /\ UNCHANGED <<logIndex, point, calls, cycle, inversion_count, due, late>>
  BY InheritanceNames
  DEF Inheritance!LowPut, Inheritance!At, Inheritance!Goto, Inheritance!Low, Low,
      Inheritance!SharedMutex, Inheritance!pmu, Inheritance!time
<1>2. /\ Low \in Thread /\ Low \in Task /\ Started(port)
      /\ Places(port) /\ Owned(port) /\ InStep /\ InTime(port) /\ LastDelay(port)
  BY <1>1, InheritanceNames, InheritanceTurn DEF Started
<1>3. /\ KernelTypeOK' /\ Alone' /\ Inherits(port)'
      /\ state[Low] = "ready" /\ pc[High] = "get" /\ state[High] = "blocked"
      /\ state'[High] = "ready"
      /\ state'[Med] = state[Med] /\ state'[Low] = state[Low]
      /\ state'[Main] = state[Main]
      /\ owner' = [owner EXCEPT ![1] = IF port = "FreeRTOS" THEN Nobody ELSE High]
      /\ waiter' = [waiter EXCEPT ![1] = Nobody] /\ UNCHANGED base
  <2>1. /\ waiter[1] = High /\ High # Nobody /\ High # Low
        /\ state[Low] = "ready" /\ state[High] = "blocked" /\ pc[High] = "get"
    BY <1>1, <1>2, InheritanceNames, InheritanceTurn DEF Owned, Places
  <2>2. /\ level = [base EXCEPT ![Low] = base[High]]
        /\ \A t \in Task : state[t] # "absent" => base[t] = OwnLevel(port, t)
    BY <2>1, InheritanceFacts DEF Inherits
  <2>3. /\ base[Low] \in Level /\ base[Low] # base[High]
        /\ level[High] = base[High] /\ level[Low] = base[High]
        /\ \A u \in Task : u # Low /\ state[u] = "ready" => level[u] # base[Low]
    BY <2>1, <2>2, InheritanceNames, InheritanceFacts, OwnLevels
  <2>4. /\ state' = [state EXCEPT ![High] = "ready"]
        /\ level' = [level EXCEPT ![Low] = base[Low]]
        /\ ready' = [[ready EXCEPT ![level[Low]] = Tail(@), ![base[Low]] = Append(@, Low)]
                        EXCEPT ![level[High]] = Append(@, High)]
        /\ owner' = [owner EXCEPT ![1] = IF port = "FreeRTOS" THEN Nobody ELSE High]
        /\ waiter' = [waiter EXCEPT ![1] = Nobody] /\ UNCHANGED base
    BY <1>1, <2>1, <2>3 DEF Inheritance!tm_mutex_put
  <2>5. KernelTypeOK' /\ Alone'
    BY <2>1, <2>3, <2>4, ReturnAlone, InheritanceFacts
  <2>6. level' = base
    BY <2>2, <2>4, InheritanceFacts, InheritanceNames
  <2>7. /\ state'[High] = "ready" /\ state'[Med] = state[Med]
        /\ state'[Low] = state[Low] /\ state'[Main] = state[Main]
        /\ \A u \in Task : (state'[u] = "absent" <=> state[u] = "absent")
    BY <2>1, <2>4, InheritanceFacts, InheritanceNames
  <2>8. Inherits(port)'
    BY <2>4, <2>6, <2>7, InheritanceFacts DEF Inherits
  <2>9. QED
    BY <2>1, <2>4, <2>5, <2>7, <2>8
<1>4. /\ pc'[Low] = "count"
      /\ pc'[High] = pc[High] /\ pc'[Med] = pc[Med] /\ pc'[Main] = pc[Main]
  BY <1>1, <1>2, InheritanceFacts, InheritanceNames
<1>5. Delay(port) \in 0 .. 1
  BY DEF Delay
<1>6. InheritanceTypes'
  <2>1. pc' \in [Task -> InheritanceLabel]
    BY <1>1, <1>2, InheritanceFacts DEF InheritanceLabel
  <2>2. QED
    BY <1>1, <1>3, <2>1, InheritanceFacts, InheritanceNames
    DEF InheritanceTypes, PmuTypeOK
<1>7. Places(port)'
  BY <1>1, <1>2, <1>3, <1>4, <1>5, InheritanceNames, InheritanceFacts DEF Places, Sleeps
<1>8. Owned(port)'
  BY <1>1, <1>2, <1>3, <1>4, <1>5, InheritanceNames, InheritanceFacts
  DEF Owned, HandedOver, Places
<1>9. InStep'
  BY <1>1, <1>2, <1>3, <1>4, <1>5, InheritanceNames, InheritanceFacts
  DEF InStep, HandedOver, Places, Owned
<1>10. InTime(port)'
  BY <1>1, <1>2, <1>3, <1>4, <1>5, InheritanceNames, InheritanceFacts
  DEF InTime, HighLeft, LowLeft, HandedOver, InStep, Places, Owned, Sleeps
<1>11. LastDelay(port)'
  BY <1>1, <1>2, <1>3, <1>4, <1>5, InheritanceNames, InheritanceFacts
  DEF LastDelay, LowLeft, InStep, HandedOver, Places, Owned, Sleeps
<1>12. HighLogged'
  BY <1>1, <1>2, <1>3, <1>4, <1>5, InheritanceNames, InheritanceFacts
  DEF HighLogged, HandedOver, InStep, Places, Owned
<1>13. QED
  BY <1>3, <1>6, <1>7, <1>8, <1>9, <1>10, <1>11, <1>12, InheritanceJoin

LEMMA MedSleepsInv ==
    ASSUME NEW port \in InheritancePort, MainFirst(port), MaxLate <= 9,
           InheritanceInv(port), Inheritance(port)!MedCheck, inversion_count >= Cycles
    PROVE  InheritanceInv(port)'
<1>1. /\ Inheritance(port)!Runs(Med) /\ pc[Med] = "check"
      /\ inversion_count >= Cycles
      /\ Inheritance(port)!Block(Med, "asleep")
      /\ pc' = [pc EXCEPT ![Med] = "report"]
      /\ due' = [due EXCEPT ![Med] = 10 + Delay(port)]
      /\ UNCHANGED <<owner, waiter, base, logIndex, point, calls, cycle,
                     inversion_count, late>>
  BY InheritanceNames
  DEF Inheritance!MedCheck, Inheritance!At, Inheritance!Goto, Inheritance!Med, Med,
      Inheritance!tm_thread_sleep_ticks, Inheritance!tm_thread_sleep, Delay,
      Inheritance!mutexes, Inheritance!pmu
<1>2. /\ Med \in Thread /\ Med \in Task /\ Started(port)
      /\ Places(port) /\ Owned(port) /\ InStep /\ InTime(port) /\ LastDelay(port)
  BY <1>1, InheritanceNames, InheritanceTurn DEF Started
<1>3. /\ KernelTypeOK' /\ Alone' /\ Inherits(port)' /\ state[Med] = "ready"
      /\ state'[Med] = "asleep"
      /\ state'[High] = state[High] /\ state'[Low] = state[Low]
      /\ state'[Main] = state[Main]
      /\ state[High] # "blocked"
  BY <1>1, <1>2, InheritanceTurn, ThreadLeaves, InheritanceNames
<1>4. /\ pc'[Med] = "report"
      /\ pc'[High] = pc[High] /\ pc'[Low] = pc[Low] /\ pc'[Main] = pc[Main]
      /\ due'[Med] = 10 + Delay(port) /\ due'[High] = due[High] /\ due'[Low] = due[Low]
      /\ pc[Low] \in {"suspend", "done"} /\ pc[High] \in {"suspend", "done"}
  BY <1>1, <1>2, InheritanceFacts, InheritanceNames
  DEF InStep, InheritanceTypes, HandedOver
<1>5. Delay(port) \in 0 .. 1
  BY DEF Delay
<1>6. InheritanceTypes'
  <2>1. pc' \in [Task -> InheritanceLabel]
    BY <1>1, <1>2, InheritanceFacts DEF InheritanceLabel
  <2>2. due' \in [Thread -> 0 .. 16]
    BY <1>1, <1>2, <1>5, InheritanceFacts
  <2>3. QED
    BY <1>1, <1>3, <2>1, <2>2, InheritanceFacts, InheritanceNames
    DEF InheritanceTypes, PmuTypeOK
<1>7. Places(port)'
  BY <1>1, <1>2, <1>3, <1>4, <1>5, InheritanceNames, InheritanceFacts DEF Places, Sleeps
<1>8. Owned(port)'
  BY <1>1, <1>2, <1>3, <1>4, <1>5, InheritanceNames, InheritanceFacts
  DEF Owned, HandedOver, Places
<1>9. InStep'
  BY <1>1, <1>2, <1>3, <1>4, <1>5, InheritanceNames, InheritanceFacts
  DEF InStep, HandedOver, Places, Owned
<1>10. InTime(port)'
  BY <1>1, <1>2, <1>3, <1>4, <1>5, InheritanceNames, InheritanceFacts
  DEF InTime, HighLeft, LowLeft, HandedOver, InStep, Places, Owned, Sleeps
<1>11. LastDelay(port)'
  BY <1>1, <1>2, <1>3, <1>4, <1>5, InheritanceNames, InheritanceFacts
  DEF LastDelay, LowLeft, InStep, HandedOver, Places, Owned, Sleeps
<1>12. HighLogged'
  BY <1>1, <1>2, <1>3, <1>4, <1>5, InheritanceNames, InheritanceFacts
  DEF HighLogged, HandedOver, InStep, Places, Owned
<1>13. QED
  BY <1>3, <1>6, <1>7, <1>8, <1>9, <1>10, <1>11, <1>12, InheritanceJoin

LEMMA MedAgainInv ==
    ASSUME NEW port \in InheritancePort, MainFirst(port), MaxLate <= 9,
           InheritanceInv(port), Inheritance(port)!MedCheck, ~(inversion_count >= Cycles)
    PROVE  InheritanceInv(port)'
<1>1. /\ Inheritance(port)!Runs(Med) /\ pc[Med] = "check"
      /\ pc' = [pc EXCEPT ![Med] = "work"]
      /\ UNCHANGED <<state, level, ready, owner, waiter, base, logIndex, point, calls,
                     cycle, inversion_count, due, late>>
  BY InheritanceNames
  DEF Inheritance!MedCheck, Inheritance!At, Inheritance!Goto, Inheritance!Med, Med,
      Inheritance!mutexes, Inheritance!pmu, Inheritance!kernel, Inheritance!time
<1>2. /\ Med \in Thread /\ Med \in Task /\ Started(port)
      /\ Places(port) /\ Owned(port) /\ InStep /\ InTime(port) /\ LastDelay(port)
  BY <1>1, InheritanceNames, InheritanceTurn DEF Started
<1>3. /\ KernelTypeOK' /\ Alone' /\ Inherits(port)' /\ state[Med] = "ready"
  BY <1>1, <1>2, InheritanceTurn, ThreadStays
<1>4. /\ pc'[Med] = "work"
      /\ pc'[High] = pc[High] /\ pc'[Low] = pc[Low] /\ pc'[Main] = pc[Main]
  BY <1>1, <1>2, InheritanceFacts, InheritanceNames
<1>5. Delay(port) \in 0 .. 1
  BY DEF Delay
<1>6. InheritanceTypes'
  <2>1. pc' \in [Task -> InheritanceLabel]
    BY <1>1, <1>2, InheritanceFacts DEF InheritanceLabel
  <2>2. QED
    BY <1>1, <1>3, <2>1, InheritanceFacts, InheritanceNames
    DEF InheritanceTypes, PmuTypeOK
<1>7. Places(port)'
  BY <1>1, <1>2, <1>3, <1>4, <1>5, InheritanceNames, InheritanceFacts DEF Places, Sleeps
<1>8. Owned(port)'
  BY <1>1, <1>2, <1>3, <1>4, <1>5, InheritanceNames, InheritanceFacts
  DEF Owned, HandedOver, Places
<1>9. InStep'
  BY <1>1, <1>2, <1>3, <1>4, <1>5, InheritanceNames, InheritanceFacts
  DEF InStep, HandedOver, Places, Owned
<1>10. InTime(port)'
  BY <1>1, <1>2, <1>3, <1>4, <1>5, InheritanceNames, InheritanceFacts
  DEF InTime, HighLeft, LowLeft, HandedOver, InStep, Places, Owned, Sleeps
<1>11. LastDelay(port)'
  BY <1>1, <1>2, <1>3, <1>4, <1>5, InheritanceNames, InheritanceFacts
  DEF LastDelay, LowLeft, InStep, HandedOver, Places, Owned, Sleeps
<1>12. HighLogged'
  BY <1>1, <1>2, <1>3, <1>4, <1>5, InheritanceNames, InheritanceFacts
  DEF HighLogged, HandedOver, InStep, Places, Owned
<1>13. QED
  BY <1>3, <1>6, <1>7, <1>8, <1>9, <1>10, <1>11, <1>12, InheritanceJoin

-----------------------------------------------------------------------------
(* The main task.                                                          *)

LEMMA InheritanceStarts ==
    ASSUME NEW port \in InheritancePort, MainFirst(port), Inheritance(port)!Init
    PROVE  InheritanceInv(port)
<1>1. /\ state = [t \in Task |-> IF t = Main THEN "ready" ELSE "absent"]
      /\ level = [t \in Task |-> IF t = Main THEN OwnLevel(port, Main) ELSE 0]
      /\ ready = [l \in Level |-> IF l = OwnLevel(port, Main) THEN <<Main>> ELSE << >>]
  BY DEF Inheritance!Init, Inheritance!KernelInit, Inheritance!rtos_main_freertos,
     Inheritance!rtos_main_threadx, Inheritance!rtos_main_zephyr,
     Inheritance!StartedWith, Inheritance!Task, Task, Inheritance!Level, Level,
     InheritancePort, OwnLevel
<1>2. /\ owner = [m \in {1} |-> Nobody] /\ waiter = [m \in {1} |-> Nobody]
      /\ base = level
      /\ logIndex = 0 /\ point = [e \in Entry |-> [name |-> NoName, ended |-> NoName]]
      /\ calls = 0 /\ inversion_count = 0 /\ late = 0
      /\ pc = [t \in Task |-> CASE t = Main -> "initialize" [] t = High -> "sleep"
                                [] t = Med -> "work" [] t = Low -> "get"]
      /\ cycle = [t \in {High, Low} |-> 0] /\ due = [t \in Thread |-> 0]
  BY InheritanceNames
  DEF Inheritance!Init, Inheritance!MutexInit, Inheritance!Clear,
      Inheritance!ClearEntry,
      Inheritance!Entry, Entry, Inheritance!Task, Task, Inheritance!High, High,
      Inheritance!Med, Med, Inheritance!Low, Low
<1>3. /\ Main \in Task /\ High \in Task /\ Med \in Task /\ Low \in Task
      /\ High # Main /\ Med # Main /\ Low # Main /\ High # Med /\ High # Low
      /\ Med # Low
      /\ OwnLevel(port, Main) \in Level /\ 0 \in Level
      /\ <<Main>> \in Seq(Task) /\ << >> \in Seq(Task) /\ <<Main>> # << >>
  BY InheritanceNames, OwnLevels, Singleton, NoElements, MaxPrioritiesAssumption
  DEF Level
<1>4. KernelTypeOK
  BY <1>1, <1>3 DEF KernelTypeOK, State
<1>5. Alone
  BY <1>1, <1>3 DEF Alone
<1>6. /\ pc \in [Task -> InheritanceLabel]
      /\ pc[Main] = "initialize" /\ pc[High] = "sleep" /\ pc[Med] = "work"
      /\ pc[Low] = "get"
  BY <1>2, <1>3, InheritanceNames DEF InheritanceLabel
<1>7. PmuTypeOK
  BY <1>2, InheritanceNames DEF PmuTypeOK, Name
<1>8. InheritanceTypes
  BY <1>2, <1>4, <1>6, <1>7, InheritanceNames DEF InheritanceTypes, KernelTypeOK
<1>9. Inherits(port)
  BY <1>1, <1>2, <1>3 DEF Inherits
<1>10. NotStarted(port)
  BY <1>1, <1>2, <1>3, <1>6, InheritanceNames DEF NotStarted, Place
<1>11. HighLogged
  BY <1>2, <1>3, <1>6, InheritanceNames DEF HighLogged, HandedOver, Entry
<1>12. QED
  BY <1>5, <1>8, <1>9, <1>10, <1>11 DEF InheritanceInv

\* The main task runs before anything else.
LEMMA MainTurn ==
    ASSUME NEW port \in InheritancePort, MainFirst(port), InheritanceInv(port),
           Inheritance(port)!Initialize
    PROVE  /\ NotStarted(port) /\ Main \in Task /\ state[Main] = "ready"
           /\ level = base /\ ready[level[Main]] = <<Main>>
           /\ \A t \in Task : state[t] # "absent" => level[t] = OwnLevel(port, t)
           /\ state[High] # "blocked"
           /\ calls' = calls + 1 /\ calls \in 0 .. 7
<1>1. /\ Inheritance(port)!Runs(Main) /\ pc[Main] = "initialize" /\ calls' = calls + 1
  BY DEF Inheritance!Initialize
<1>2. NotStarted(port) /\ Main \in Task
  BY <1>1, InheritanceNames DEF InheritanceInv, Started, Places
<1>3. state[High] # "blocked"
  BY <1>2, InheritanceNames DEF NotStarted
<1>4. /\ level = base
      /\ \A t \in Task : state[t] # "absent" => level[t] = OwnLevel(port, t)
  BY <1>3, NobodyInherits
<1>5. state[Main] = "ready" /\ ready[level[Main]] = <<Main>>
  BY <1>1, <1>2, InheritanceFacts, InheritanceRuns
<1>6. calls \in 0 .. 7
  BY <1>2, InheritanceFacts DEF InheritanceTypes, NotStarted
<1>7. QED
  BY <1>1, <1>2, <1>3, <1>4, <1>5, <1>6

\* What a call of the initialisation has to see to.
LEMMA InitializeJoin ==
    ASSUME NEW port \in InheritancePort, MainFirst(port), InheritanceInv(port),
           Inheritance(port)!Initialize, calls < 7,
           KernelTypeOK', Alone', level' = base', base' \in [Task -> Level],
           owner' = owner, waiter' = waiter,
           \A t \in Task : base'[t] = IF state'[t] = "absent" THEN 0 ELSE OwnLevel(port, t),
           state'[Main] = state[Main],
           \A t \in Thread : state'[t] =
               IF calls' <= Place(t) THEN "absent"
               ELSE IF port = "FreeRTOS" \/ calls' > Place(t) + 3 THEN "ready"
               ELSE "suspended"
    PROVE  InheritanceInv(port)'
<1>1. /\ NotStarted(port) /\ Main \in Task /\ state[Main] = "ready"
      /\ calls' = calls + 1 /\ calls \in 0 .. 7
  BY MainTurn
<1>2. /\ pc' = [pc EXCEPT ![Main] = "initialize"]
      /\ UNCHANGED <<logIndex, point, cycle, inversion_count, due, late>>
  <2>1. /\ Inheritance(port)!Goto(Main, IF calls = 7 THEN "done" ELSE "initialize")
        /\ UNCHANGED <<Inheritance(port)!pmu, cycle, inversion_count,
                       Inheritance(port)!time>>
    BY DEF Inheritance!Initialize
  <2>2. calls # 7
    BY <1>1
  <2>3. QED
    BY <2>1, <2>2 DEF Inheritance!Goto, Inheritance!pmu, Inheritance!time
<1>3. pc' = pc
  BY <1>1, <1>2, InheritanceFacts DEF NotStarted
<1>4. InheritanceTypes'
  <2>1. calls' \in 0 .. 8
    BY <1>1
  <2>2. QED
    BY <1>2, <1>3, <2>1, InheritanceFacts DEF InheritanceTypes, PmuTypeOK
<1>5. state'[High] # "blocked"
  BY InheritanceNames
<1>6. Inherits(port)'
  BY <1>5 DEF Inherits
<1>7. NotStarted(port)'
  BY <1>1, <1>2, <1>3, InheritanceNames DEF NotStarted
<1>8. HighLogged'
  BY <1>1, <1>2, <1>3, <1>5, InheritanceNames 
  DEF HighLogged, HandedOver, NotStarted, Entry
<1>9. QED
  BY <1>4, <1>6, <1>7, <1>8 DEF InheritanceInv

LEMMA CreateMutexInv ==
    ASSUME NEW port \in InheritancePort, MainFirst(port), InheritanceInv(port),
           Inheritance(port)!Initialize, calls = 0
    PROVE  InheritanceInv(port)'
<1>1. /\ NotStarted(port) /\ Main \in Task /\ calls' = 1 /\ level = base
  BY MainTurn
<1>2. UNCHANGED <<state, level, ready, waiter, base>> /\ owner' = [owner EXCEPT ![1] = Nobody]
  BY DEF Inheritance!Initialize, Inheritance!tm_mutex_create, Inheritance!SharedMutex,
     Inheritance!kernel
<1>3. owner' = owner
  BY <1>1, <1>2, InheritanceFacts DEF NotStarted
<1>4. KernelTypeOK' /\ Alone'
  BY <1>2, InheritanceFacts, SameAlone
<1>5. \A t \in Thread : Place(t) \in 1 .. 3
  BY InheritanceNames DEF Place
<1>6. \A t \in Thread : state'[t] =
               IF calls' <= Place(t) THEN "absent"
               ELSE IF port = "FreeRTOS" \/ calls' > Place(t) + 3 THEN "ready"
               ELSE "suspended"
  BY <1>1, <1>2, <1>5 DEF NotStarted
<1>7. QED
  BY <1>1, <1>2, <1>3, <1>4, <1>6, InitializeJoin, InheritanceFacts DEF Inherits

\* The call that creates thread t.
LEMMA CreateThreadInv ==
    ASSUME NEW port \in InheritancePort, MainFirst(port), InheritanceInv(port),
           Inheritance(port)!Initialize, NEW t \in Thread, calls = Place(t)
    PROVE  InheritanceInv(port)'
<1>1. /\ NotStarted(port) /\ Main \in Task /\ state[Main] = "ready" /\ level = base
      /\ \A u \in Task : state[u] # "absent" => level[u] = OwnLevel(port, u)
      /\ calls' = calls + 1
  BY MainTurn
<1>2. /\ t \in Task /\ t # Main /\ OwnLevel(port, t) \in Level /\ Place(t) \in 1 .. 3
      /\ \A u \in Thread : u # t => Place(u) # Place(t)
      /\ \A u \in Thread : Place(u) \in 1 .. 3
      /\ t = <<Low, Med, High>>[Place(t)]
  BY InheritanceNames, OwnLevels DEF Place
<1>3. /\ base' = level' /\ UNCHANGED <<owner, waiter>>
      /\ IF port = "FreeRTOS" THEN Inheritance(port)!AddReady(t, OwnLevel(port, t))
         ELSE Inheritance(port)!AddSuspended(t, OwnLevel(port, t))
  <2>1. /\ Inheritance(port)!tm_thread_create(t, Inheritance(port)!Priority[t])
        /\ base' = level' /\ UNCHANGED <<owner, waiter>>
    <3>1. PICK n \in 1 .. 3 :
              /\ calls = n
              /\ Inheritance(port)!tm_thread_create(<<Low, Med, High>>[n],
                     Inheritance(port)!Priority[<<Low, Med, High>>[n]])
              /\ base' = level' /\ UNCHANGED <<owner, waiter>>
      BY <1>2
      DEF Inheritance!Initialize, Inheritance!Low, Inheritance!Med, Inheritance!High,
          Low, Med, High
    <3>2. QED
      BY <1>2, <3>1
  <2>2. Inheritance(port)!Priority[t] = CASE t = High -> 5 [] t = Med -> 10 [] t = Low -> 20
    BY DEF Inheritance!Priority, Inheritance!High, High, Inheritance!Med, Med,
       Inheritance!Low, Low
  <2>3. QED
    BY <1>2, <2>1, <2>2, InheritanceNames
    DEF Inheritance!tm_thread_create, Inheritance!freertos_thread_create,
        Inheritance!threadx_thread_create, Inheritance!zephyr_thread_create, OwnLevel,
        InheritancePort
<1>4. /\ state[t] = "absent" /\ level' = [level EXCEPT ![t] = OwnLevel(port, t)]
      /\ state' = [state EXCEPT ![t] = IF port = "FreeRTOS" THEN "ready" ELSE "suspended"]
  BY <1>3 DEF Inheritance!AddReady, Inheritance!AddSuspended
<1>5. KernelTypeOK' /\ Alone'
  <2>1. CASE port = "FreeRTOS"
    <3>1. \A u \in Task : state[u] = "ready" => level[u] # OwnLevel(port, t)
      BY <1>1, <1>2, <1>4, OwnLevels
    <3>2. QED
      BY <1>2, <1>3, <1>4, <2>1, <3>1, JoinAlone, InheritanceFacts
      DEF Inheritance!AddReady
  <2>2. CASE port # "FreeRTOS"
    <3>1. ready' = ready
      BY <1>3, <2>2 DEF Inheritance!AddSuspended
    <3>2. KernelTypeOK'
      BY <1>2, <1>4, <2>2, <3>1, InheritanceFacts DEF KernelTypeOK, State
    <3>3. Alone'
      BY <1>2, <1>4, <2>2, <3>1, InheritanceFacts DEF Alone
    <3>4. QED
      BY <3>2, <3>3
  <2>3. QED
    BY <2>1, <2>2
<1>6. /\ base' \in [Task -> Level] /\ state'[Main] = state[Main]
      /\ \A u \in Task : base'[u] = IF state'[u] = "absent" THEN 0 ELSE OwnLevel(port, u)
  BY <1>1, <1>2, <1>3, <1>4, InheritanceNames, InheritanceFacts DEF Inherits
<1>7. \A u \in Thread : state'[u] =
               IF calls' <= Place(u) THEN "absent"
               ELSE IF port = "FreeRTOS" \/ calls' > Place(u) + 3 THEN "ready"
               ELSE "suspended"
  BY <1>1, <1>2, <1>4, InheritanceNames, InheritanceFacts DEF NotStarted
<1>8. QED
  BY <1>2, <1>3, <1>5, <1>6, <1>7, InitializeJoin

\* The call that resumes thread t, which FreeRTOS has already made ready.
LEMMA ResumeThreadInv ==
    ASSUME NEW port \in InheritancePort, MainFirst(port), InheritanceInv(port),
           Inheritance(port)!Initialize, NEW t \in Thread, calls = Place(t) + 3
    PROVE  InheritanceInv(port)'
<1>1. /\ NotStarted(port) /\ Main \in Task /\ state[Main] = "ready" /\ level = base
      /\ \A u \in Task : state[u] # "absent" => level[u] = OwnLevel(port, u)
      /\ calls' = calls + 1
  BY MainTurn
<1>2. /\ t \in Task /\ t # Main /\ Place(t) \in 1 .. 3
      /\ \A u \in Thread : u # t => Place(u) # Place(t)
      /\ \A u \in Thread : Place(u) \in 1 .. 3
      /\ t = <<Low, Med, High>>[Place(t)]
  BY InheritanceNames DEF Place
<1>3. Inheritance(port)!tm_thread_resume(t) /\ UNCHANGED <<owner, waiter, base>>
  <2>1. PICK n \in 1 .. 3 :
            /\ calls = n + 3
            /\ Inheritance(port)!tm_thread_resume(<<Low, Med, High>>[n])
            /\ UNCHANGED <<owner, waiter, base>>
    BY <1>2
    DEF Inheritance!Initialize, Inheritance!Low, Inheritance!Med, Inheritance!High,
        Inheritance!mutexes, Low, Med, High
  <2>2. QED
    BY <1>2, <2>1
<1>4. /\ level' = level
      /\ state[t] = IF port = "FreeRTOS" THEN "ready" ELSE "suspended"
      /\ state' = [state EXCEPT ![t] = "ready"]
      /\ IF state[t] = "ready" THEN ready' = ready
         ELSE ready' = [ready EXCEPT ![level[t]] = Append(@, t)]
  BY <1>1, <1>2, <1>3, InheritanceFacts
  DEF NotStarted, Inheritance!tm_thread_resume, Inheritance!MakeReady,
      Inheritance!kernel
<1>5. KernelTypeOK' /\ Alone'
  <2>1. CASE state[t] = "ready"
    BY <1>2, <1>4, <2>1, SameAlone, InheritanceFacts
  <2>2. CASE state[t] # "ready"
    <3>1. /\ level[t] \in Level /\ level' = [level EXCEPT ![t] = level[t]]
          /\ \A u \in Task : state[u] = "ready" => level[u] # level[t]
      BY <1>1, <1>2, <1>4, <2>2, OwnLevels, InheritanceFacts
    <3>2. QED
      BY <1>2, <1>4, <2>2, <3>1, JoinAlone, InheritanceFacts
  <2>3. QED
    BY <2>1, <2>2
<1>6. /\ state'[Main] = state[Main]
      /\ \A u \in Task : base'[u] = IF state'[u] = "absent" THEN 0 ELSE OwnLevel(port, u)
  BY <1>2, <1>3, <1>4, InheritanceNames, InheritanceFacts DEF Inherits
<1>7. \A u \in Thread : state'[u] =
               IF calls' <= Place(u) THEN "absent"
               ELSE IF port = "FreeRTOS" \/ calls' > Place(u) + 3 THEN "ready"
               ELSE "suspended"
  <2>1. state \in [Task -> State] /\ \A u \in Thread : u \in Task
    BY InheritanceFacts, InheritanceNames
  <2>2. ASSUME NEW u \in Thread
        PROVE  /\ u # t => (calls' > Place(u) + 3 <=> calls > Place(u) + 3)
               /\ calls' > Place(t) + 3 /\ ~(calls' <= Place(u)) /\ ~(calls <= Place(u))
    BY <1>1, <1>2
  <2>3. QED
    BY <1>1, <1>2, <1>4, <2>1, <2>2 DEF NotStarted
<1>8. calls < 7 /\ level' = base' /\ base' \in [Task -> Level]
  BY <1>1, <1>2, <1>3, <1>4, InheritanceFacts
<1>9. QED
  BY <1>3, <1>5, <1>6, <1>7, <1>8, InitializeJoin

\* The main task ends, and the three threads begin.
LEMMA MainEndsInv ==
    ASSUME NEW port \in InheritancePort, MainFirst(port), MaxLate <= 9,
           InheritanceInv(port), Inheritance(port)!Initialize, calls = 7
    PROVE  InheritanceInv(port)'
<1>1. /\ NotStarted(port) /\ Main \in Task /\ state[Main] = "ready" /\ level = base
      /\ calls' = 8 /\ state[High] # "blocked"
  BY MainTurn
<1>2. /\ state' = [state EXCEPT ![Main] = "done"] /\ level' = level
      /\ ready' = [ready EXCEPT ![level[Main]] = Tail(@)]
      /\ pc' = [pc EXCEPT ![Main] = "done"]
      /\ UNCHANGED <<owner, waiter, base, logIndex, point, cycle, inversion_count,
                     due, late>>
  BY
  DEF Inheritance!Initialize, Inheritance!Return, Inheritance!Block, Inheritance!Goto,
     Inheritance!mutexes, Inheritance!pmu, Inheritance!time
<1>3. KernelTypeOK' /\ Alone'
  BY <1>1, <1>2, LeaveAlone, InheritanceFacts DEF State
<1>4. /\ state'[Main] = "done" /\ pc'[Main] = "done"
      /\ \A t \in Thread : state'[t] = "ready" /\ pc'[t] = pc[t]
  <2>1. \A t \in Thread : Place(t) \in 1 .. 3 /\ t # Main /\ t \in Task
    BY InheritanceNames DEF Place
  <2>2. \A t \in Thread : state[t] = "ready"
    BY <1>1, <2>1 DEF NotStarted
  <2>3. QED
    BY <1>1, <1>2, <2>1, <2>2, InheritanceFacts
<1>5. /\ pc'[High] = "sleep" /\ pc'[Med] = "work" /\ pc'[Low] = "get"
      /\ state'[High] = "ready" /\ state'[Med] = "ready" /\ state'[Low] = "ready"
      /\ owner'[1] = Nobody /\ waiter'[1] = Nobody
      /\ cycle'[High] = 0 /\ cycle'[Low] = 0 /\ inversion_count' = 0 /\ logIndex' = 0
  BY <1>1, <1>2, <1>4, InheritanceNames DEF NotStarted
<1>6. Delay(port) \in 0 .. 1
  BY DEF Delay
<1>7. InheritanceTypes'
  <2>1. pc' \in [Task -> InheritanceLabel]
    BY <1>1, <1>2, InheritanceFacts DEF InheritanceLabel
  <2>2. calls' \in 0 .. 8
    BY <1>1
  <2>3. QED
    BY <1>2, <1>3, <2>1, <2>2, InheritanceFacts DEF InheritanceTypes, PmuTypeOK
<1>8. Inherits(port)'
  <2>1. \A t \in Task : (state'[t] = "absent" <=> state[t] = "absent")
    BY <1>1, <1>2, InheritanceFacts
  <2>2. QED
    BY <1>1, <1>2, <1>5, <2>1, InheritanceFacts DEF Inherits
<1>9. Places(port)'
  BY <1>1, <1>4, <1>5 DEF Places, Sleeps
<1>10. Owned(port)'
  BY <1>5 DEF Owned, HandedOver
<1>11. InStep'
  BY <1>5, InheritanceNames DEF InStep, HandedOver
<1>12. InTime(port)'
  BY <1>2, <1>5, <1>6, InheritanceNames, InheritanceFacts
  DEF InTime, HighLeft, LowLeft, HandedOver
<1>13. LastDelay(port)'
  BY <1>5 DEF LastDelay
<1>14. HighLogged'
  BY <1>5, InheritanceNames DEF HighLogged, HandedOver, Entry
<1>15. QED
  BY <1>3, <1>7, <1>8, <1>9, <1>10, <1>11, <1>12, <1>13, <1>14, InheritanceJoin

LEMMA InitializeInv ==
    ASSUME NEW port \in InheritancePort, MainFirst(port), MaxLate <= 9,
           InheritanceInv(port), Inheritance(port)!Initialize
    PROVE  InheritanceInv(port)'
<1>1. calls \in 0 .. 7
  BY MainTurn
<1>2. /\ Low \in Thread /\ Med \in Thread /\ High \in Thread
      /\ Place(Low) = 1 /\ Place(Med) = 2 /\ Place(High) = 3
  BY InheritanceNames DEF Place
<1>3. CASE calls \in 1 .. 3
  BY <1>2, <1>3, CreateThreadInv
<1>4. CASE calls \in 4 .. 6
  BY <1>2, <1>4, ResumeThreadInv
<1>5. QED
  BY <1>1, <1>3, <1>4, CreateMutexInv, MainEndsInv

-----------------------------------------------------------------------------
(* Time.                                                                   *)

\* A task that sleeps shares its level neither with another one nor with a ready one.
LEMMA SleepersApart ==
    ASSUME NEW port \in InheritancePort, MainFirst(port), InheritanceInv(port),
           NEW t \in Task, NEW u \in Task, t # u,
           state[t] = "asleep", state[u] \in {"asleep", "ready"}
    PROVE  level[t] # level[u]
<1>1. /\ base[t] = OwnLevel(port, t) /\ base[u] = OwnLevel(port, u) /\ base[t] # base[u]
  BY OwnLevels, InheritanceFacts DEF Inherits
<1>2. CASE state[High] # "blocked"
  BY <1>1, <1>2, InheritanceFacts DEF Inherits
<1>3. CASE state[High] = "blocked"
  <2>1. Started(port) /\ High \in Task /\ Low \in Task /\ base[High] = OwnLevel(port, High)
    BY <1>3, InheritanceNames, InheritanceFacts DEF InheritanceInv, NotStarted, Inherits
  <2>2. state[Low] = "ready"
    BY <1>3, <2>1 DEF Started, Places, Owned
  <2>3. /\ t # Low /\ t # High /\ u # High
        /\ level = [base EXCEPT ![Low] = base[High]]
    BY <1>3, <2>2, InheritanceFacts DEF Inherits
  <2>4. base[t] # base[High]
    BY <1>1, <2>1, <2>3, OwnLevels
  <2>5. QED
    BY <1>1, <2>1, <2>3, <2>4, InheritanceFacts
<1>4. QED
  BY <1>2, <1>3

\* The tasks the tick wakes.
Wakes(t) == t \in Thread /\ state[t] = "asleep" /\ due[t] = 1

LEMMA TickKernel ==
    ASSUME NEW port \in InheritancePort, MainFirst(port), InheritanceInv(port),
           Inheritance(port)!Tick
    PROVE  /\ KernelTypeOK' /\ Alone' /\ Inherits(port)'
           /\ \A t \in Task : state'[t] = IF Wakes(t) THEN "ready" ELSE state[t]
           /\ \A t \in Thread : due'[t] = IF state[t] = "asleep" THEN due[t] - 1 ELSE due[t]
<1> DEFINE woken == {t \in Thread : state[t] = "asleep" /\ due[t] = 1}
           on(l) == {t \in woken : level[t] = l}
<1>1. /\ state' = [t \in Task |-> IF t \in woken THEN "ready" ELSE state[t]]
      /\ ready' = [l \in Level |-> IF on(l) = {} THEN ready[l]
                                  ELSE Append(ready[l], CHOOSE t \in on(l) : TRUE)]
      /\ due' = [t \in Thread |-> IF state[t] = "asleep" THEN due[t] - 1 ELSE due[t]]
      /\ UNCHANGED <<level, owner, waiter, base>>
  BY DEF Inheritance!Tick, Inheritance!Task, Task, Inheritance!Level, Level,
     Inheritance!mutexes
<1>2. /\ \A t \in Task : state'[t] = IF Wakes(t) THEN "ready" ELSE state[t]
      /\ \A t \in Thread : due'[t] = IF state[t] = "asleep" THEN due[t] - 1 ELSE due[t]
  BY <1>1 DEF Wakes
<1>3. KernelTypeOK /\ Alone /\ Inherits(port) /\ Thread \subseteq Task
  BY InheritanceFacts, InheritanceNames
<1>4. ASSUME NEW t \in woken
      PROVE  /\ t \in Task /\ level[t] \in Level /\ ready[level[t]] = << >>
             /\ ready'[level[t]] = <<t>> /\ <<t>> \in Seq(Task)
  <2>1. t \in Task /\ state[t] = "asleep" /\ level[t] \in Level
    BY <1>3 DEF KernelTypeOK
  <2>2. ready[level[t]] = << >>
    <3>1. SUFFICES ASSUME ready[level[t]] # << >> PROVE FALSE
      OBVIOUS
    <3>2. PICK u \in Task : state[u] = "ready" /\ level[u] = level[t]
      BY <1>3, <2>1, <3>1 DEF Alone
    <3>3. QED
      BY <2>1, <3>2, SleepersApart
  <2>3. ASSUME NEW u \in woken, level[u] = level[t] PROVE u = t
    <3>1. u \in Task /\ state[u] = "asleep"
      BY <1>3
    <3>2. QED
      BY <2>1, <2>3, <3>1, SleepersApart
  <2>4. on(level[t]) = {t}
    BY <2>3
  <2>5. (CHOOSE u \in on(level[t]) : TRUE) = t
    BY <2>4
  <2>6. QED
    BY <1>1, <2>1, <2>2, <2>4, <2>5, Singleton
<1>5. ASSUME NEW l \in Level, \A t \in woken : level[t] # l PROVE ready'[l] = ready[l]
  BY <1>1, <1>5
<1>6. KernelTypeOK'
  <2>1. ready' \in [Level -> Seq(Task)]
    <3>1. ASSUME NEW l \in Level PROVE ready'[l] \in Seq(Task)
      <4>1. CASE \A t \in woken : level[t] # l
        BY <1>3, <1>5, <4>1 DEF KernelTypeOK
      <4>2. CASE \E t \in woken : level[t] = l
        BY <1>4, <4>2
      <4>3. QED
        BY <4>1, <4>2
    <3>2. QED
      BY <1>1, <3>1
  <2>2. state' \in [Task -> State]
    BY <1>1, <1>3 DEF KernelTypeOK, State
  <2>3. QED
    BY <1>1, <1>3, <2>1, <2>2 DEF KernelTypeOK
<1>7. Alone'
  <2>1. ASSUME NEW u \in Task, state'[u] = "ready" PROVE ready'[level[u]] = <<u>>
    <3>1. CASE u \in woken
      BY <1>4, <3>1
    <3>2. CASE u \notin woken
      <4>1. state[u] = "ready" /\ ready[level[u]] = <<u>> /\ level[u] \in Level
        BY <1>1, <1>3, <2>1, <3>2 DEF Alone, KernelTypeOK
      <4>2. \A t \in woken : level[t] # level[u]
        BY <1>3, <4>1, SleepersApart
      <4>3. QED
        BY <1>5, <4>1, <4>2
    <3>3. QED
      BY <3>1, <3>2
  <2>2. ASSUME NEW l \in Level, ready'[l] # << >>
        PROVE  \E u \in Task : state'[u] = "ready" /\ level[u] = l
    <3>1. CASE \A t \in woken : level[t] # l
      <4>1. PICK u \in Task : state[u] = "ready" /\ level[u] = l
        BY <1>3, <1>5, <2>2, <3>1 DEF Alone
      <4>2. QED
        BY <1>1, <4>1
    <3>2. CASE \E t \in woken : level[t] = l
      <4>1. PICK t \in woken : level[t] = l
        BY <3>2
      <4>2. t \in Task /\ state'[t] = "ready"
        BY <1>1, <1>4
      <4>3. QED
        BY <4>1, <4>2
    <3>3. QED
      BY <3>1, <3>2
  <2>3. QED
    BY <1>1, <2>1, <2>2 DEF Alone
<1>8. Inherits(port)'
  <2>1. \A t \in Task : (state'[t] = "absent" <=> state[t] = "absent")
    BY <1>2 DEF Wakes
  <2>2. state'[High] = "blocked" <=> state[High] = "blocked"
    BY <1>2, InheritanceNames DEF Wakes
  <2>3. QED
    BY <1>1, <1>3, <2>1, <2>2 DEF Inherits
<1>9. QED
  BY <1>2, <1>6, <1>7, <1>8

\* Before the main task has ended nobody sleeps.
LEMMA TickNotStarted ==
    ASSUME NEW port \in InheritancePort, MainFirst(port), InheritanceInv(port),
           Inheritance(port)!Tick, NotStarted(port)
    PROVE  InheritanceInv(port)'
<1>1. /\ late' \in 0 .. MaxLate
      /\ UNCHANGED <<owner, waiter, base, logIndex, point, calls, pc, cycle,
                    inversion_count>>
  <2>1. /\ Inheritance(port)!Idle \/ late < MaxLate
        /\ late' = IF Inheritance(port)!Idle THEN 0 ELSE late + 1
    BY DEF Inheritance!Tick
  <2>2. late' \in 0 .. MaxLate
    BY <2>1, InheritanceFacts, InheritanceNames
  <2>3. QED
    BY <2>2
    DEF Inheritance!Tick, Inheritance!mutexes, Inheritance!pmu, Inheritance!locals
<1>2. KernelTypeOK' /\ Alone' /\ Inherits(port)'
  BY TickKernel
<1>3. \A t \in Task : state[t] # "asleep" /\ state'[t] = state[t]
  <2>1. \A t \in Task : state[t] # "asleep"
    BY InheritanceNames DEF NotStarted
  <2>2. QED
    BY <2>1, TickKernel DEF Wakes
<1>4. due' = due
  <2>1. \A t \in Thread : due'[t] = due[t]
    BY <1>3, TickKernel, InheritanceNames
  <2>2. due' = [t \in Thread |-> due'[t]]
    BY DEF Inheritance!Tick
  <2>3. QED
    BY <2>1, <2>2, InheritanceFacts
<1>5. InheritanceTypes'
  BY <1>1, <1>2, <1>4, InheritanceFacts DEF InheritanceTypes, PmuTypeOK
<1>6. NotStarted(port)' /\ HighLogged'
  BY <1>1, <1>3, InheritanceNames, InheritanceFacts
  DEF NotStarted, HighLogged, HandedOver
<1>7. QED
  BY <1>2, <1>5, <1>6 DEF InheritanceInv

LEMMA TickInv ==
    ASSUME NEW port \in InheritancePort, MainFirst(port), MaxLate <= 9,
           InheritanceInv(port), Inheritance(port)!Tick
    PROVE  InheritanceInv(port)'
<1>1. CASE NotStarted(port)
  BY <1>1, TickNotStarted
<1>2. CASE Started(port)
  <2>1. /\ Places(port) /\ Owned(port) /\ InStep /\ InTime(port) /\ LastDelay(port)
        /\ High \in Thread /\ Med \in Thread /\ Low \in Thread /\ Main \notin Thread
        /\ High \in Task /\ Med \in Task /\ Low \in Task /\ Main \in Task
        /\ High # Med /\ High # Low /\ Med # Low /\ MaxLate \in Nat
    BY <1>2, InheritanceNames DEF Started
  <2>2. /\ KernelTypeOK' /\ Alone' /\ Inherits(port)'
        /\ \A t \in Thread :
              /\ state'[t] = IF state[t] = "asleep" /\ due[t] = 1 THEN "ready" ELSE state[t]
              /\ due'[t] = IF state[t] = "asleep" THEN due[t] - 1 ELSE due[t]
        /\ state'[Main] = state[Main]
    BY <2>1, TickKernel, InheritanceNames DEF Wakes
  \* A tick is late unless the ready threads do nothing but spin.
  <2>3. /\ UNCHANGED <<owner, waiter, base, logIndex, point, calls, pc, cycle,
                      inversion_count>>
        /\ late' \in 0 .. MaxLate
        /\ state[Low] = "ready" /\ pc[Low] # "spin" => late < MaxLate /\ late' = late + 1
    <3>1. /\ Inheritance(port)!Idle \/ late < MaxLate
          /\ late' = IF Inheritance(port)!Idle THEN 0 ELSE late + 1
      BY DEF Inheritance!Tick
    <3>2. state[Low] = "ready" /\ pc[Low] # "spin" => ~Inheritance(port)!Idle
      BY <2>1 DEF Inheritance!Idle, Inheritance!Low, Low, Inheritance!Task, Task
    <3>3. QED
      BY <3>1, <3>2, InheritanceFacts, InheritanceNames
      DEF Inheritance!Tick, Inheritance!mutexes, Inheritance!pmu, Inheritance!locals
  <2>4. Delay(port) \in 0 .. 1 /\ late' \in Nat /\ late' <= MaxLate
    BY <2>3, InheritanceNames DEF Delay
  <2>5. /\ state[High] = "asleep" => due[High] \in 1 .. 16
        /\ state[Med] = "asleep" => due[Med] \in 1 .. 16
        /\ state[Low] = "asleep" => due[Low] \in 1 .. 16
    BY <2>1, <2>4 DEF Places, Sleeps
  <2>6. InheritanceTypes'
    <3>1. due' \in [Thread -> 0 .. 16]
      <4>1. \A t \in Thread : due'[t] \in 0 .. 16
        BY <2>2, <2>5, InheritanceFacts, InheritanceNames
      <4>2. due' = [t \in Thread |-> due'[t]]
        BY DEF Inheritance!Tick
      <4>3. QED
        BY <4>1, <4>2
    <3>2. QED
      BY <2>2, <2>3, <3>1, InheritanceFacts DEF InheritanceTypes, PmuTypeOK
  \* The high thread is still asleep while the low one gets the mutex or counts.
  <2>7. pc[Low] \in {"get", "count"} /\ ~HandedOver /\ pc[High] = "get" =>
            state[High] = "asleep" /\ due[High] > 1
    BY <2>1, <2>3, <2>4, <2>5, InheritanceFacts
    DEF Places, Owned, HandedOver, InTime, HighLeft, LowLeft
  <2>8. HandedOver' <=> HandedOver
    BY <2>1, <2>2, <2>3, <2>7 DEF HandedOver
  <2>9. Places(port)'
    BY <2>1, <2>2, <2>3, <2>4, <2>5, InheritanceFacts DEF Places, Sleeps
  <2>10. Owned(port)'
    BY <2>1, <2>2, <2>3, <2>7, <2>8, InheritanceFacts
    DEF Owned, Places, InStep, HandedOver
  <2>11. InStep'
    BY <2>1, <2>3, <2>8 DEF InStep
  <2>12. InTime(port)'
    BY <2>1, <2>2, <2>3, <2>4, <2>5, <2>7, <2>8, InheritanceFacts
    DEF InTime, HighLeft, LowLeft, Places, HandedOver
  <2>13. LastDelay(port)'
    BY <2>1, <2>2, <2>3, <2>4, <2>5, InheritanceFacts DEF LastDelay, LowLeft, Places
  <2>14. HighLogged'
    BY <2>1, <2>2, <2>3, <2>8, InheritanceFacts DEF HighLogged
  <2>15. QED
    BY <2>2, <2>6, <2>9, <2>10, <2>11, <2>12, <2>13, <2>14, InheritanceJoin
<1>3. QED
  BY <1>1, <1>2 DEF InheritanceInv

LEMMA InheritanceSteps ==
    ASSUME NEW port \in InheritancePort, MainFirst(port), MaxLate <= 9,
           InheritanceInv(port), Inheritance(port)!TaskStep
    PROVE  InheritanceInv(port)'
<1>1. CASE Inheritance(port)!HighGet
  <2>1. pc[High] = "get" /\ pc[Low] \in {"spin", "count"}
    <3>1. Inheritance(port)!Runs(High) /\ pc[High] = "get" /\ High \in Thread
      BY <1>1, InheritanceNames
      DEF Inheritance!HighGet, Inheritance!At, Inheritance!High, High
    <3>2. Started(port) /\ state[High] = "ready"
      BY <3>1, InheritanceTurn
    <3>3. QED
      BY <3>1, <3>2 DEF Started, Owned
  <2>2. QED
    BY <1>1, <2>1, HighTakesInv, HighWaitsInv
<1>2. CASE Inheritance(port)!MedCheck
  BY <1>2, MedSleepsInv, MedAgainInv
<1>3. CASE Inheritance(port)!Suspend(High) \/ Inheritance(port)!Suspend(Low)
  BY <1>3, HighSuspendInv, LowSuspendInv
<1>4. QED
  BY <1>1, <1>2, <1>3, InitializeInv, HighSleepInv, HighEndInv, HighPutInv, HighRestInv,
     LowGetInv, LowSpinInv, LowPutInv, LowCountInv, MedWorkInv, MedReportInv
  DEF Inheritance!TaskStep, Inheritance!High, High, Inheritance!Low, Low

LEMMA InheritanceStutters ==
    ASSUME NEW port \in InheritancePort, InheritanceInv(port), UNCHANGED mcvars
    PROVE  InheritanceInv(port)'
<1>1. UNCHANGED <<state, level, ready, logIndex, point, calls, pc, owner, waiter, base,
                  cycle, inversion_count, due, late>>
  BY DEF mcvars, vars, kernel, driver, pmu, inheritance
<1>2. InheritanceTypes' /\ Alone' /\ Inherits(port)'
  BY <1>1, InheritanceFacts
  DEF InheritanceTypes, KernelTypeOK, PmuTypeOK, Alone, Inherits
<1>3. NotStarted(port)' <=> NotStarted(port)
  BY <1>1 DEF NotStarted
<1>4. Started(port)' <=> Started(port)
  BY <1>1
  DEF Started, Places, Sleeps, Owned, InStep, InTime, HighLeft, LowLeft, LastDelay,
      HandedOver
<1>5. HighLogged'
  BY <1>1, InheritanceFacts DEF HighLogged, HandedOver
<1>6. QED
  BY <1>2, <1>3, <1>4, <1>5 DEF InheritanceInv

LEMMA MeasuredInheritance ==
    ASSUME MaxLate <= 9, MaxPriorities < 34, NEW port \in InheritancePort,
           build = port => InheritanceInv(port), [MCNext]_mcvars
    PROVE  build' = port => InheritanceInv(port)'
<1> SUFFICES ASSUME build' = port PROVE InheritanceInv(port)'
  OBVIOUS
<1>1. build = port /\ port # "throughput" /\ MainFirst(port)
  BY DEF MCNext, MCTaskStep, MCTick, mcvars, InheritancePort, MainFirst
<1>2. \/ Inheritance(port)!TaskStep
      \/ Inheritance(port)!Tick
      \/ UNCHANGED mcvars
  BY <1>1 DEF MCNext, MCTaskStep, MCTick
<1>3. QED
  BY <1>1, <1>2, InheritanceSteps, TickInv, InheritanceStutters

-----------------------------------------------------------------------------
(* What the invariant says of the measurement.                             *)

LEMMA InheritanceTyped ==
    ASSUME NEW port \in InheritancePort, InheritanceInv(port)
    PROVE  Inheritance(port)!TypeOK
  BY InheritanceFacts
  DEF InheritanceTypes, InheritanceLabel, KernelTypeOK, PmuTypeOK, Inheritance!TypeOK,
      Inheritance!KernelTypeOK, Inheritance!MutexTypeOK, Inheritance!PmuTypeOK,
      Inheritance!Task, Task, Inheritance!Level, Level, Inheritance!State, State,
      Inheritance!Entry, Entry, Inheritance!Name, Name, Inheritance!Label,
      Inheritance!High, High, Inheritance!Med, Med, Inheritance!Low, Low

LEMMA InheritanceReturned ==
    ASSUME NEW port \in InheritancePort, InheritanceInv(port)
    PROVE  Inheritance(port)!LevelReturned
<1> SUFFICES ASSUME NEW t \in Task, level[t] # base[t]
             PROVE  owner[1] = t /\ waiter[1] # Nobody
  BY DEF Inheritance!LevelReturned, Inheritance!SharedMutex, Inheritance!Task, Task
<1>1. state[High] = "blocked" /\ t = Low
  BY InheritanceFacts DEF Inherits
<1>2. Started(port)
  BY <1>1, InheritanceNames DEF InheritanceInv, NotStarted
<1>3. QED
  BY <1>1, <1>2, InheritanceNames DEF Started, Owned

LEMMA InheritanceMeasures ==
    ASSUME NEW port \in InheritancePort, InheritanceInv(port)
    PROVE  Inheritance(port)!MeasuresInversions
<1> SUFFICES ASSUME pc[High] \in {"end", "put"}
             PROVE  pc[Low] = "count" /\ cycle[Low] = cycle[High]
  BY DEF Inheritance!MeasuresInversions, Inheritance!High, High, Inheritance!Low, Low
<1>1. Started(port)
  BY DEF InheritanceInv, NotStarted
<1>2. QED
  BY <1>1 DEF Started, Owned, InStep, HandedOver

LEMMA InheritanceReports ==
    ASSUME NEW port \in InheritancePort, MainFirst(port), InheritanceInv(port)
    PROVE  Inheritance(port)!CompleteReport
<1> SUFFICES ASSUME Inheritance(port)!Runs(Med), pc[Med] = "report"
             PROVE  /\ \A e \in 0 .. Cycles - 1 :
                          /\ Inheritance(port)!Found(e) # {}
                          /\ point[Inheritance(port)!Printed(e)].ended = e
                    /\ state[High] = "suspended" /\ state[Low] = "suspended"
  BY DEF Inheritance!CompleteReport, Inheritance!Med, Med, Inheritance!High, High,
     Inheritance!Low, Low
<1>1. Started(port) /\ state[Med] = "ready" /\ state[High] # "ready"
  BY InheritanceTurn, InheritanceNames
<1>2. pc[Low] = "done" /\ state[High] # "asleep"
  BY <1>1 DEF Started, LastDelay
<1>3. cycle[Low] = Cycles /\ cycle[High] = Cycles /\ pc[High] \in {"suspend", "done"}
  BY <1>1, <1>2 DEF Started, InStep
<1>4. state[High] = "suspended" /\ state[Low] = "suspended" /\ logIndex = Cycles
  BY <1>1, <1>2, <1>3, InheritanceFacts DEF Started, Places, HighLogged
<1>5. ASSUME NEW e \in 0 .. Cycles - 1
      PROVE  /\ Inheritance(port)!Found(e) # {}
             /\ point[Inheritance(port)!Printed(e)].ended = e
  <2>1. e \in Entry /\ e < logIndex /\ point[e].name = e /\ point[e].ended = e
    BY <1>4, InheritanceNames, InheritanceFacts DEF Entry, HighLogged
  <2>2. \A k \in Entry : k < logIndex => point[k].name = k
    BY InheritanceFacts DEF HighLogged
  <2>3. Inheritance(port)!Found(e) = {e}
    BY <2>1, <2>2 DEF Inheritance!Found, Inheritance!Entry, Entry
  <2>4. Inheritance(port)!Printed(e) = e
    BY <2>3 DEF Inheritance!Printed
  <2>5. QED
    BY <2>1, <2>3, <2>4
<1>6. QED
  BY <1>4, <1>5

\* A step of the benchmark while the high thread waits is not the medium one's.
LEMMA InheritanceKeepsOut ==
    ASSUME NEW port \in InheritancePort, MainFirst(port), InheritanceInv(port),
           state[High] = "blocked", Inheritance(port)!Next
    PROVE  pc'[Med] = pc[Med]
<1>1. ~Inheritance(port)!Runs(Med)
  BY InheritanceTurn, InheritanceNames
<1>2. ~(\/ Inheritance(port)!MedWork
        \/ Inheritance(port)!MedCheck
        \/ Inheritance(port)!MedReport)
  BY <1>1
  DEF Inheritance!MedWork, Inheritance!MedCheck, Inheritance!MedReport, Inheritance!At,
      Inheritance!Med, Med
<1>3. /\ Med \in Task /\ Main # Med /\ High # Med /\ Low # Med
      /\ pc \in [Task -> InheritanceLabel]
  <2>1. Med \in Task /\ Main # Med /\ High # Med /\ Low # Med
    BY InheritanceNames
  <2>2. QED
    BY <2>1, InheritanceFacts
<1>4. \A label : /\ Inheritance(port)!Goto(Main, label) => pc'[Med] = pc[Med]
                 /\ Inheritance(port)!Goto(High, label) => pc'[Med] = pc[Med]
                 /\ Inheritance(port)!Goto(Low, label) => pc'[Med] = pc[Med]
  BY <1>3 DEF Inheritance!Goto
<1>5. CASE Inheritance(port)!Initialize
  BY <1>4, <1>5 DEF Inheritance!Initialize
<1>6. CASE \/ Inheritance(port)!HighSleep \/ Inheritance(port)!HighGet
           \/ Inheritance(port)!HighEnd \/ Inheritance(port)!HighPut
           \/ Inheritance(port)!HighRest
  BY <1>4, <1>6
  DEF Inheritance!HighSleep, Inheritance!HighGet, Inheritance!HighEnd,
      Inheritance!HighPut, Inheritance!HighRest, Inheritance!High, High
<1>7. CASE \/ Inheritance(port)!LowGet \/ Inheritance(port)!LowSpin
           \/ Inheritance(port)!LowPut \/ Inheritance(port)!LowCount
  BY <1>4, <1>7
  DEF Inheritance!LowGet, Inheritance!LowSpin, Inheritance!LowPut, Inheritance!LowCount,
      Inheritance!Low, Low
<1>8. CASE Inheritance(port)!Suspend(High) \/ Inheritance(port)!Suspend(Low)
  BY <1>4, <1>8 DEF Inheritance!Suspend
<1>9. CASE Inheritance(port)!Tick
  BY <1>9 DEF Inheritance!Tick, Inheritance!locals
<1>10. QED
  BY <1>2, <1>5, <1>6, <1>7, <1>8, <1>9
  DEF Inheritance!Next, Inheritance!TaskStep, Inheritance!High, High, Inheritance!Low,
      Low

-----------------------------------------------------------------------------
(* The theorems about it, in the run.                                      *)

Measured == \A port \in InheritancePort : build = port => InheritanceInv(port)

LEMMA MeasuredInit == ASSUME MaxPriorities < 34, MCInit PROVE Measured
<1> SUFFICES ASSUME NEW port \in InheritancePort, build = port PROVE InheritanceInv(port)
  BY DEF Measured
<1>1. Inheritance(port)!Init /\ MainFirst(port)
  BY DEF MCInit, InheritancePort, MainFirst
<1>2. QED
  BY <1>1, InheritanceStarts

LEMMA MeasuredNext ==
    ASSUME MaxLate <= 9, MaxPriorities < 34, Measured, [MCNext]_mcvars PROVE Measured'
  BY MeasuredInheritance DEF Measured

(***************************************************************************)
(* On every kernel the low thread has the level of the high one only while *)
(* that waits for its mutex, and gives it back with the mutex, for every   *)
(* number of cycles; and both benchmarks keep to their types.  The suite's *)
(* 32 levels make the main task of FreeRTOS the most urgent one, so that   *)
(* it has created and resumed the threads before they begin                *)
(* (tm_porting_layer_*, tm_mutex_get and tm_mutex_put).                    *)
(***************************************************************************)
THEOREM InheritanceLevelReturned ==
    ASSUME MaxLate <= 9, MaxPriorities < 34 PROVE MCSpec => []LevelReturned
<1>1. MCInit => MCInv /\ Measured
  BY MeasurementsInit, MeasuredInit
<1>2. MCInv /\ Measured /\ [MCNext]_mcvars => MCInv' /\ Measured'
  BY MeasurementsNext, MeasuredNext
<1>3. MCInv /\ Measured => LevelReturned
  <2>1. MCInv => (build = "throughput" => TypeOK)
    BY DEF MCInv, ThroughputInv
  <2>2. QED
    BY <2>1, InheritanceTyped, InheritanceReturned DEF Measured, LevelReturned, MCTypeOK
<1>4. QED
  BY <1>1, <1>2, <1>3, PTL DEF MCSpec

(***************************************************************************)
(* What the high thread measures is an inversion, in every one of any      *)
(* number of cycles and on every kernel, as long as no more than nine      *)
(* ticks come while there is work to do.  Nine is the most: the high       *)
(* thread sleeps 5 + 15 ticks between two cycles, and the low one has to   *)
(* count, sleep a tick and take the mutex again before it                  *)
(* (priority_inheritance_test.c:111-167).                                  *)
(***************************************************************************)
THEOREM InheritanceMeasured ==
    ASSUME MaxLate <= 9, MaxPriorities < 34 PROVE MCSpec => []MeasuresInversions
<1>1. MCInit => Measured
  BY MeasuredInit
<1>2. Measured /\ [MCNext]_mcvars => Measured'
  BY MeasuredNext
<1>3. Measured => MeasuresInversions
  BY InheritanceMeasures DEF Measured, MeasuresInversions
<1>4. QED
  BY <1>1, <1>2, <1>3, PTL DEF MCSpec

(***************************************************************************)
(* When the medium thread reports, every cycle is in the log under its own *)
(* name and both of the other threads are suspended, under the same        *)
(* assumption about the ticks (priority_inheritance_test.c:170-190).       *)
(***************************************************************************)
THEOREM InheritanceComplete ==
    ASSUME MaxLate <= 9, MaxPriorities < 34 PROVE MCSpec => []CompleteReport
<1>1. MCInit => Measured
  BY MeasuredInit
<1>2. Measured /\ [MCNext]_mcvars => Measured'
  BY MeasuredNext
<1>3. Measured => CompleteReport
  BY InheritanceReports DEF Measured, CompleteReport, MainFirst
<1>4. QED
  BY <1>1, <1>2, <1>3, PTL DEF MCSpec

(***************************************************************************)
(* While the high thread waits for the mutex the medium one does nothing,  *)
(* because the low one has inherited the level of the high one             *)
(* (priority_inheritance_test.c:143-146).                                  *)
(***************************************************************************)
THEOREM InheritanceExcludes ==
    ASSUME MaxLate <= 9, MaxPriorities < 34 PROVE MCSpec => NoInterference
<1>1. MCInit => Measured
  BY MeasuredInit
<1>2. Measured /\ [MCNext]_mcvars => Measured'
  BY MeasuredNext
<1>3. Measured /\ [MCNext]_mcvars =>
          [build # "throughput" /\ state[0] = "blocked" => pc'[1] = pc[1]]_mcvars
  <2>1. SUFFICES ASSUME Measured, MCNext, build # "throughput", state[0] = "blocked"
                 PROVE  pc'[1] = pc[1]
    OBVIOUS
  <2>2. PICK port \in InheritancePort : build = port /\ Inheritance(port)!Next
    BY <2>1 DEF MCNext, MCTaskStep, MCTick, Inheritance!Next
  <2>3. InheritanceInv(port) /\ MainFirst(port)
    BY <2>1, <2>2 DEF Measured, MainFirst
  <2>4. QED
    BY <2>1, <2>2, <2>3, InheritanceKeepsOut DEF High, Med
<1>4. QED
  BY <1>1, <1>2, <1>3, PTL DEF MCSpec, NoInterference
=============================================================================
