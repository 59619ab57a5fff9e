------------------------ MODULE LockedSectionProofs -------------------------
(***************************************************************************)
(* Proofs about the thread locking and the critical section benchmarks     *)
(* (LockedSection), for every port, section and size of the log.           *)
(*                                                                         *)
(* LockInv is the inductive invariant: where the benchmark thread is tells *)
(* by what it is protected (InsideOf, Raised) and how far the log is       *)
(* (Measured).                                                             *)
(***************************************************************************)
EXTENDS LockedSection, TmLemmas

InSection == pc[Benchmark] \in {"count", "exit"}

\* The benchmark thread is ready from its first statement on.
Alive == pc[Benchmark] # "start" => state[Benchmark] = "ready"

\* The masked or locked section is the one the program counter tells.
InsideOf == inside <=> InSection /\ ~TakesPriority

\* ThreadX's scheduler lock is the priority 0, until the program is stopped.
Raised ==
    TakesPriority /\ ~faulted =>
        /\ state[Benchmark] # "absent" => level[Benchmark] = IF InSection THEN 0 ELSE 5
        /\ InSection => saved_priority = 5
        /\ state[Reporter] # "absent" => level[Reporter] = ReporterPriority

\* The first n entries are the measurements of the first n sections.
Logged(n) == \A i \in Entry : i < n => point[i].name = i /\ point[i].ended = i

\* Either all sections are measured, or the next one is what the counter says.
Measured ==
    IF Port = "Zephyr"
    THEN \/ logIndex >= IterationCount /\ Logged(IterationCount)
         \/ /\ logIndex < IterationCount /\ Logged(logIndex)
            /\ counter = IF pc[Benchmark] \in {"exit", "end"} THEN logIndex + 1 ELSE logIndex
            /\ pc[Benchmark] # "start" => point[logIndex].name = logIndex
    ELSE logIndex = 0

BenchmarkLabels == pc[Benchmark] \in {"start", "enter", "count", "exit", "end"}

LockInv ==
    /\ TypeOK
    /\ KernelInv
    /\ BenchmarkLabels
    /\ Alive
    /\ InsideOf
    /\ Raised
    /\ Measured

-----------------------------------------------------------------------------

LEMMA LockNames ==
    /\ Thread = {0, 1} /\ Main \notin {0, 1} /\ Task = {0, 1, Main}
    /\ Benchmark = 0 /\ Reporter = 1
    /\ 0 \in Level /\ 1 \in Level /\ 2 \in Level /\ 5 \in Level
    /\ IterationCount \in Nat /\ IterationCount >= 1
    /\ IterationCount <= MaxLogEntries /\ MaxLogEntries \in Nat
    /\ IterationCount <= MaxWord - 1 /\ MaxWord \in Nat
  BY TwoThreads, MainAssumption, MaxPrioritiesAssumption, IterationCountAssumption,
     MaxLogEntriesAssumption, MaxWordAssumption
  DEF Task, Benchmark, Reporter, Level

LEMMA LockInit == Init => LockInv
<1> SUFFICES ASSUME Init PROVE LockInv
  OBVIOUS
<1>1. KernelInv /\ \A t \in Thread : state[t] = "absent"
  BY InitKernel DEF Init
<1>2. /\ pc[0] = "start" /\ pc[1] = "sleep" /\ pc[Main] = "initialize"
      /\ pc = [t \in Task |-> pc[t]]
  BY LockNames DEF Init
<1>3. pc \in [Task -> Label]
  BY <1>2, LockNames DEF Label
<1>4. ~inside /\ ~faulted
  BY DEF Init
<1>5. saved_priority = 0 /\ counter = 0 /\ last_counter = 0 /\ calls = 0 /\ logIndex = 0
  BY DEF Init, Clear
<1>6. PmuTypeOK
  BY MaxLogEntriesAssumption DEF Init, Clear, ClearEntry, PmuTypeOK, Name
<1>7. TypeOK
  <2>1. inside \in BOOLEAN /\ faulted \in BOOLEAN
    BY DEF Init
  <2>2. QED
    BY <1>1, <1>3, <1>5, <1>6, <2>1, LockNames DEF TypeOK, KernelInv, Word
<1>8. BenchmarkLabels /\ Alive /\ InsideOf
  BY <1>2, <1>4, LockNames DEF BenchmarkLabels, Alive, InsideOf, InSection
<1>9. Raised
  BY <1>1, <1>2, LockNames DEF Raised, InSection
<1>10. Measured
  BY <1>2, <1>5, LockNames DEF Measured, Logged, Entry
<1>11. QED
  BY <1>1, <1>7, <1>8, <1>9, <1>10 DEF LockInv

\* The parts of TypeOK, one by one.
LEMMA LockTypes ==
    ASSUME LockInv
    PROVE  /\ state \in [Task -> State] /\ level \in [Task -> Level]
           /\ PmuTypeOK /\ calls \in 0 .. 5 /\ pc \in [Task -> Label]
           /\ inside \in BOOLEAN /\ faulted \in BOOLEAN /\ saved_priority \in Level
           /\ counter \in Word /\ last_counter \in Word
<1>1. inside \in BOOLEAN
  BY DEF LockInv, TypeOK
<1>2. faulted \in BOOLEAN
  BY DEF LockInv, TypeOK
<1>3. QED
  BY <1>1, <1>2 DEF LockInv, TypeOK, KernelTypeOK

\* The benchmark thread outside of a masked section has the processor.
LEMMA BenchmarkRuns ==
    ASSUME LockInv, Executes(Benchmark)
    PROVE  /\ ~faulted
           /\ ~inside => Runs(Benchmark)
           /\ state[Benchmark] = "ready"
<1>1. inside => state[Benchmark] = "ready"
  BY LockNames DEF LockInv, InsideOf, InSection, Alive
<1>2. QED
  BY <1>1 DEF Executes, Runs

\* What holds of the benchmark thread after a step that leaves the kernel alone.
LEMMA BenchmarkFrame ==
    ASSUME LockInv, Executes(Benchmark), UNCHANGED <<kernel, calls, last_counter>>,
           NEW label \in {"start", "enter", "count", "exit", "end"},
           pc' = [pc EXCEPT ![Benchmark] = label],
           PmuTypeOK', inside' \in BOOLEAN, faulted' \in BOOLEAN,
           saved_priority' \in Level, counter' \in Word,
           InsideOf', Raised', Measured'
    PROVE  LockInv'
<1>1. KernelInv' /\ UNCHANGED <<state, level, ready>>
  BY SameKernel DEF LockInv, kernel
<1>2. pc'[Benchmark] = label /\ pc' \in [Task -> Label]
  BY LockTypes, LockNames DEF Label
<1>3. calls' \in 0 .. 5 /\ last_counter' \in Word
  BY LockTypes
<1>4. TypeOK'
  BY <1>1, <1>2, <1>3 DEF TypeOK, KernelInv
<1>5. BenchmarkLabels' /\ Alive'
  BY <1>1, <1>2, BenchmarkRuns DEF BenchmarkLabels, Alive
<1>6. QED
  BY <1>1, <1>4, <1>5 DEF LockInv

LEMMA LockStart == ASSUME LockInv, StartMeasurement PROVE LockInv'
<1>1. /\ Executes(Benchmark) /\ pc[0] = "start" /\ pc' = [pc EXCEPT ![Benchmark] = "enter"]
      /\ UNCHANGED <<kernel, calls, saved_priority, counter, last_counter>>
  BY LockNames DEF StartMeasurement, Goto, lock
<1>2. inside' = inside /\ faulted' = faulted
  BY DEF StartMeasurement, lock
<1>3. pc'[0] = "enter"
  BY <1>1, LockTypes, LockNames
<1>4. PmuTypeOK' /\ Measured'
  <2>1. CASE Port = "Zephyr" /\ counter < IterationCount
    <3>1. /\ logIndex' = logIndex
          /\ point' = IF logIndex \in Entry THEN [point EXCEPT ![logIndex].name = counter]
                      ELSE point
      BY <2>1 DEF StartMeasurement, tm_pmu_profile_start
    <3>2. counter \in Nat /\ logIndex \in Nat
      BY LockTypes, LockNames DEF Word, PmuTypeOK
    <3>3. /\ PmuTypeOK'
          /\ \A e \in Entry : e # logIndex => point'[e] = point[e]
          /\ logIndex \in Entry => point'[logIndex].name = counter
      BY <3>1, <3>2, LockTypes DEF PmuTypeOK, Name
    <3>4. CASE logIndex >= IterationCount /\ Logged(IterationCount)
      <4>1. \A e \in Entry : e < IterationCount => point'[e] = point[e]
        BY <3>2, <3>3, <3>4, LockNames DEF Entry
      <4>2. Logged(IterationCount)'
        BY <3>4, <4>1 DEF Logged
      <4>3. QED
        BY <2>1, <3>1, <3>3, <3>4, <4>2 DEF Measured
    <3>5. CASE ~(logIndex >= IterationCount /\ Logged(IterationCount))
      <4>1. logIndex < IterationCount /\ Logged(logIndex) /\ counter = logIndex
        BY <1>1, <2>1, <3>5 DEF LockInv, Measured, Benchmark
      <4>2. logIndex \in Entry
        BY <3>2, <4>1, LockNames DEF Entry
      <4>3. Logged(logIndex)'
        BY <3>1, <3>2, <3>3, <4>1 DEF Logged, Entry
      <4>4. QED
        BY <1>1, <1>3, <2>1, <3>1, <3>3, <4>1, <4>2, <4>3, LockNames DEF Measured
    <3>6. QED
      BY <3>4, <3>5
  <2>2. CASE ~(Port = "Zephyr" /\ counter < IterationCount)
    <3>1. UNCHANGED <<logIndex, point>>
      BY <2>2 DEF StartMeasurement, pmu
    <3>2. PmuTypeOK'
      BY <3>1, LockTypes DEF PmuTypeOK
    <3>3. (Logged(IterationCount)' <=> Logged(IterationCount))
      BY <3>1 DEF Logged
    <3>4. Port = "Zephyr" => logIndex >= IterationCount /\ Logged(IterationCount)
      BY <1>1, <2>2, LockNames DEF LockInv, Measured
    <3>5. QED
      BY <3>1, <3>2, <3>3, <3>4 DEF LockInv, Measured
  <2>3. QED
    BY <2>1, <2>2
<1>5. InsideOf'
  BY <1>1, <1>2, <1>3, LockNames DEF LockInv, InsideOf, InSection, TakesPriority
<1>6. Raised'
  <2>1. UNCHANGED <<state, level>>
    BY <1>1 DEF kernel
  <2>2. QED
    BY <1>1, <1>2, <1>3, <2>1, LockNames DEF LockInv, Raised, InSection, TakesPriority
<1>7. inside' \in BOOLEAN
  BY <1>2, LockTypes
<1>8. faulted' \in BOOLEAN
  BY <1>2, LockTypes
<1>9. saved_priority' \in Level /\ counter' \in Word
  BY <1>1, LockTypes
<1>10. QED
  BY <1>1, <1>4, <1>5, <1>6, <1>7, <1>8, <1>9, BenchmarkFrame

LEMMA LockCount == ASSUME LockInv, Count PROVE LockInv'
<1>1. /\ Executes(Benchmark) /\ pc[0] = "count" /\ pc' = [pc EXCEPT ![Benchmark] = "exit"]
      /\ UNCHANGED <<kernel, calls, saved_priority, last_counter, logIndex, point>>
      /\ counter' = Inc(counter)
  BY LockNames DEF Count, Goto, lock, pmu
<1>2. inside' = inside /\ faulted' = faulted
  BY DEF Count, lock
<1>3. pc'[0] = "exit"
  BY <1>1, LockTypes, LockNames
<1>4. PmuTypeOK' /\ counter' \in Word /\ saved_priority' \in Level
  BY <1>1, LockTypes, IncType DEF PmuTypeOK
<1>5. Measured'
  <2>1. \A n : Logged(n)' <=> Logged(n)
    BY <1>1 DEF Logged
  <2>2. logIndex < IterationCount /\ counter = logIndex => counter' = logIndex + 1
    BY <1>1, LockNames, LockTypes DEF Inc, PmuTypeOK
  <2>3. QED
    BY <1>1, <1>3, <2>1, <2>2, LockNames DEF LockInv, Measured
<1>6. InsideOf'
  BY <1>1, <1>2, <1>3, LockNames DEF LockInv, InsideOf, InSection, TakesPriority
<1>7. Raised'
  <2>1. UNCHANGED <<state, level>>
    BY <1>1 DEF kernel
  <2>2. QED
    BY <1>1, <1>2, <1>3, <2>1, LockNames DEF LockInv, Raised, InSection, TakesPriority
<1>8. inside' \in BOOLEAN
  BY <1>2, LockTypes
<1>9. faulted' \in BOOLEAN
  BY <1>2, LockTypes
<1>10. QED
  BY <1>1, <1>4, <1>5, <1>6, <1>7, <1>8, <1>9, BenchmarkFrame

LEMMA LockEnd == ASSUME LockInv, EndMeasurement PROVE LockInv'
<1>1. /\ Executes(Benchmark) /\ pc[0] = "end" /\ pc' = [pc EXCEPT ![Benchmark] = "start"]
      /\ UNCHANGED <<kernel, calls, saved_priority, counter, last_counter>>
  BY LockNames DEF EndMeasurement, Goto, lock
<1>2. inside' = inside /\ faulted' = faulted
  BY DEF EndMeasurement, lock
<1>3. pc'[0] = "start"
  BY <1>1, LockTypes, LockNames
<1>4. PmuTypeOK' /\ Measured'
  <2>1. counter \in Nat /\ logIndex \in Nat /\ Minus(counter, 1) \in Nat
    <3>1. counter \in Word /\ 1 \in Word /\ logIndex \in 0 .. MaxLogEntries
      BY LockTypes, LockNames DEF Word, PmuTypeOK
    <3>2. Minus(counter, 1) \in Word
      BY <3>1, MinusType
    <3>3. QED
      BY <3>1, <3>2, LockNames DEF Word
  <2>2. CASE Port = "Zephyr" /\ counter < IterationCount + 1 /\ logIndex \in Entry
    <3>1. /\ logIndex' = logIndex + 1
          /\ point' = [point EXCEPT ![logIndex].ended = Minus(counter, 1)]
      BY <2>2 DEF EndMeasurement, tm_pmu_profile_end
    <3>2. logIndex + 1 \in 0 .. MaxLogEntries
      BY <2>1, <2>2, LockNames DEF Entry
    <3>3. /\ PmuTypeOK'
          /\ \A e \in Entry : e # logIndex => point'[e] = point[e]
          /\ point'[logIndex].name = point[logIndex].name
          /\ point'[logIndex].ended = Minus(counter, 1)
      BY <2>1, <2>2, <3>1, <3>2, LockTypes DEF PmuTypeOK, Name
    <3>4. CASE logIndex >= IterationCount /\ Logged(IterationCount)
      <4>1. \A e \in Entry : e < IterationCount => point'[e] = point[e]
        BY <2>1, <3>3, <3>4, LockNames DEF Entry
      <4>2. Logged(IterationCount)'
        BY <3>4, <4>1 DEF Logged
      <4>3. QED
        BY <2>1, <2>2, <3>1, <3>3, <3>4, <4>2, LockNames DEF Measured
    <3>5. CASE ~(logIndex >= IterationCount /\ Logged(IterationCount))
      <4>1. /\ logIndex < IterationCount /\ Logged(logIndex) /\ counter = logIndex + 1
            /\ point[logIndex].name = logIndex
        BY <1>1, <2>2, <3>5, LockNames DEF LockInv, Measured
      <4>2. Minus(counter, 1) = logIndex
        BY <2>1, <4>1 DEF Minus
      <4>3. Logged(logIndex)'
        BY <2>1, <3>1, <3>3, <4>1, <4>2 DEF Logged, Entry
      <4>4. counter' = logIndex'
        BY <1>1, <3>1, <4>1
      <4>5. logIndex' < IterationCount \/ logIndex' = IterationCount
        BY <2>1, <3>1, <4>1, LockNames
      <4>6. QED
        BY <1>3, <2>2, <3>3, <4>3, <4>4, <4>5, LockNames DEF Measured
    <3>6. QED
      BY <3>4, <3>5
  <2>3. CASE ~(Port = "Zephyr" /\ counter < IterationCount + 1 /\ logIndex \in Entry)
    <3>1. UNCHANGED <<logIndex, point>>
      BY <2>3 DEF EndMeasurement, tm_pmu_profile_end, pmu
    <3>2. PmuTypeOK'
      BY <3>1, LockTypes DEF PmuTypeOK
    <3>3. (Logged(IterationCount)' <=> Logged(IterationCount))
      BY <3>1 DEF Logged
    <3>4. logIndex < IterationCount => logIndex \in Entry
      BY <2>1, LockNames DEF Entry
    <3>5. Port = "Zephyr" => logIndex >= IterationCount /\ Logged(IterationCount)
      BY <1>1, <2>1, <2>3, <3>4, LockNames DEF LockInv, Measured
    <3>6. QED
      BY <3>1, <3>2, <3>3, <3>5 DEF LockInv, Measured
  <2>4. QED
    BY <2>2, <2>3
<1>5. InsideOf'
  BY <1>1, <1>2, <1>3, LockNames DEF LockInv, InsideOf, InSection, TakesPriority
<1>6. Raised'
  <2>1. UNCHANGED <<state, level>>
    BY <1>1 DEF kernel
  <2>2. QED
    BY <1>1, <1>2, <1>3, <2>1, LockNames DEF LockInv, Raised, InSection, TakesPriority
<1>7. inside' \in BOOLEAN
  BY <1>2, LockTypes
<1>8. faulted' \in BOOLEAN
  BY <1>2, LockTypes
<1>9. saved_priority' \in Level /\ counter' \in Word
  BY <1>1, LockTypes
<1>10. QED
  BY <1>1, <1>4, <1>5, <1>6, <1>7, <1>8, <1>9, BenchmarkFrame

\* The entry and the exit do not concern the log.
LEMMA MeasuredStays ==
    ASSUME LockInv, UNCHANGED <<logIndex, point, counter>>,
           pc'[Benchmark] \in {"exit", "end"} <=> pc[Benchmark] \in {"exit", "end"},
           pc'[Benchmark] = "start" <=> pc[Benchmark] = "start"
    PROVE  Measured'
  BY DEF LockInv, Measured, Logged

LEMMA LockEnter == ASSUME LockInv, Enter PROVE LockInv'
<1>1. /\ Executes(Benchmark) /\ pc[0] = "enter" /\ pc' = [pc EXCEPT ![0] = "count"]
      /\ UNCHANGED <<calls, counter, last_counter, logIndex, point>>
      /\ ~faulted /\ state[0] = "ready"
  BY LockNames, BenchmarkRuns DEF Enter, Goto, pmu
<1>2. faulted' = faulted
  BY DEF Enter, threadx_suspend_scheduler
<1>3. pc'[0] = "count" /\ (\A t \in Task : t # 0 => pc'[t] = pc[t]) /\ pc' \in [Task -> Label]
  BY <1>1, LockTypes, LockNames DEF Label
<1>4. Measured' /\ PmuTypeOK'
  BY <1>1, <1>3, MeasuredStays, LockTypes, LockNames DEF PmuTypeOK
<1>5. ~inside
  BY <1>1, LockNames DEF LockInv, InsideOf, InSection
<1>6. faulted' \in BOOLEAN
  BY <1>2, LockTypes
<1>7. CASE ~TakesPriority
  <2>1. inside' /\ UNCHANGED <<kernel, saved_priority>>
    BY <1>7 DEF Enter
  <2>2. InsideOf'
    BY <1>3, <1>7, <2>1, LockNames DEF InsideOf, InSection, TakesPriority
  <2>3. Raised'
    BY <1>7 DEF Raised, TakesPriority
  <2>4. inside' \in BOOLEAN
    BY <1>7 DEF Enter
  <2>5. saved_priority' \in Level /\ counter' \in Word
    BY <1>1, <2>1, LockTypes
  <2>6. QED
    BY <1>1, <1>4, <1>6, <2>1, <2>2, <2>3, <2>4, <2>5, LockNames, BenchmarkFrame
<1>8. CASE TakesPriority
  <2>1. saved_priority' = level[0] /\ ChangeLevel(0, 0) /\ inside' = inside
    BY <1>8, LockNames DEF Enter, threadx_suspend_scheduler
  <2>2. Runs(0) /\ 0 \in Task
    BY <1>1, <1>5, BenchmarkRuns, LockNames
  <2>3. /\ level[0] = 5 /\ (state[1] # "absent" => level[1] = ReporterPriority)
    BY <1>1, <1>8, LockNames DEF LockInv, Raised, InSection
  <2>4. KernelInv'
    BY <2>1, <2>2, <2>3, LockNames, ChangeLevelKernel DEF LockInv
  <2>5. state' = state /\ level'[0] = 0 /\ level'[1] = level[1]
    BY <2>1, LockTypes, LockNames DEF ChangeLevel
  <2>6. inside' \in BOOLEAN
    BY <2>1, LockTypes
  <2>7. TypeOK'
    <3>1. calls' \in 0 .. 5 /\ counter' \in Word /\ last_counter' \in Word /\ saved_priority' \in Level
      BY <1>1, <2>1, <2>3, LockTypes, LockNames
    <3>2. QED
      BY <1>3, <1>4, <1>6, <2>4, <2>6, <3>1 DEF TypeOK, KernelInv
  <2>8. BenchmarkLabels' /\ Alive'
    BY <1>1, <1>3, <2>5, LockNames DEF BenchmarkLabels, Alive
  <2>9. InsideOf'
    BY <1>5, <1>8, <2>1 DEF InsideOf, TakesPriority
  <2>10. Raised'
    BY <1>3, <2>1, <2>3, <2>5, LockNames DEF Raised, InSection
  <2>11. QED
    BY <1>4, <2>4, <2>7, <2>8, <2>9, <2>10 DEF LockInv
<1>9. QED
  BY <1>7, <1>8

LEMMA LockExit == ASSUME LockInv, Exit PROVE LockInv'
<1>1. /\ Executes(Benchmark) /\ pc[0] = "exit" /\ pc' = [pc EXCEPT ![0] = "end"]
      /\ UNCHANGED <<calls, counter, last_counter, logIndex, point>>
      /\ ~faulted /\ state[0] = "ready"
  BY LockNames, BenchmarkRuns DEF Exit, Goto, pmu
<1>2. pc'[0] = "end" /\ (\A t \in Task : t # 0 => pc'[t] = pc[t]) /\ pc' \in [Task -> Label]
  BY <1>1, LockTypes, LockNames DEF Label
<1>3. Measured' /\ PmuTypeOK'
  BY <1>1, <1>2, MeasuredStays, LockTypes, LockNames DEF PmuTypeOK
<1>4. CASE ~TakesPriority
  <2>1. ~inside' /\ UNCHANGED <<kernel, saved_priority>>
    BY <1>4 DEF Exit
  <2>2. InsideOf'
    BY <1>2, <1>4, <2>1, LockNames DEF InsideOf, InSection, TakesPriority
  <2>3. Raised'
    BY <1>4 DEF Raised, TakesPriority
  <2>4. inside' \in BOOLEAN
    BY <1>4 DEF Exit
  <2>5. faulted' = faulted
    BY <1>4 DEF Exit
  <2>6. faulted' \in BOOLEAN
    BY <2>5, LockTypes
  <2>7. saved_priority' \in Level /\ counter' \in Word
    BY <1>1, <2>1, LockTypes
  <2>8. QED
    BY <1>1, <1>3, <2>1, <2>2, <2>3, <2>4, <2>6, <2>7, LockNames, BenchmarkFrame
<1>5. CASE TakesPriority
  <2>1. /\ inside' = inside /\ saved_priority' = saved_priority
        /\ \/ ChangeLevel(0, saved_priority) /\ faulted' = faulted
           \/ faulted' = TRUE /\ UNCHANGED kernel
    BY <1>5, LockNames DEF Exit, threadx_resume_scheduler
  <2>2. ~inside
    BY <1>5 DEF LockInv, InsideOf
  <2>3. Runs(0) /\ 0 \in Task
    BY <1>1, <2>2, BenchmarkRuns, LockNames
  <2>4. /\ level[0] = 0 /\ saved_priority = 5
        /\ (state[1] # "absent" => level[1] = ReporterPriority)
    BY <1>1, <1>5, LockNames DEF LockInv, Raised, InSection
  <2>5. inside' \in BOOLEAN
    BY <2>1, LockTypes
  <2>6. faulted' \in BOOLEAN
    BY <2>1, LockTypes
  <2>7. InsideOf'
    BY <2>1, <2>2, <1>5 DEF InsideOf, TakesPriority
  <2>8. saved_priority' \in Level /\ counter' \in Word
    BY <1>1, <2>1, LockTypes
  <2>9. CASE faulted' = TRUE /\ UNCHANGED kernel
    <3>1. Raised'
      BY <2>9 DEF Raised
    <3>2. QED
      BY <1>1, <1>3, <2>5, <2>6, <2>7, <2>8, <2>9, <3>1, LockNames, BenchmarkFrame
  <2>10. CASE ChangeLevel(0, saved_priority)
    <3>1. KernelInv'
      BY <2>3, <2>4, <2>10, LockNames, ChangeLevelKernel DEF LockInv
    <3>2. state' = state /\ level'[0] = 5 /\ level'[1] = level[1]
      BY <2>4, <2>10, LockTypes, LockNames DEF ChangeLevel
    <3>3. TypeOK'
      <4>1. calls' \in 0 .. 5 /\ last_counter' \in Word
        BY <1>1, LockTypes
      <4>2. QED
        BY <1>2, <1>3, <2>5, <2>6, <2>8, <3>1, <4>1 DEF TypeOK, KernelInv
    <3>4. BenchmarkLabels' /\ Alive'
      BY <1>1, <1>2, <3>2, LockNames DEF BenchmarkLabels, Alive
    <3>5. Raised'
      BY <1>2, <2>4, <3>2, LockNames DEF Raised, InSection
    <3>6. QED
      BY <1>3, <2>7, <3>1, <3>3, <3>4, <3>5 DEF LockInv
  <2>11. QED
    BY <2>1, <2>9, <2>10
<1>6. QED
  BY <1>4, <1>5

-----------------------------------------------------------------------------
(* The other tasks.                                                        *)

\* A step that is not one of the benchmark thread's.
LEMMA OtherFrame ==
    ASSUME LockInv, KernelInv',
           UNCHANGED <<logIndex, point, inside, saved_priority, faulted, counter>>,
           pc'[0] = pc[0], pc' \in [Task -> Label], calls' \in 0 .. 5, last_counter' \in Word,
           state[0] = "ready" => state'[0] = "ready",
           Raised'
    PROVE  LockInv'
<1>1. inside' \in BOOLEAN
  BY LockTypes
<1>2. faulted' \in BOOLEAN
  BY LockTypes
<1>3. TypeOK'
  <2>1. PmuTypeOK' /\ saved_priority' \in Level /\ counter' \in Word
    BY LockTypes DEF PmuTypeOK
  <2>2. QED
    BY <1>1, <1>2, <2>1 DEF TypeOK, KernelInv
<1>4. BenchmarkLabels' /\ Alive'
  BY LockNames DEF LockInv, BenchmarkLabels, Alive
<1>5. InsideOf'
  BY LockNames DEF LockInv, InsideOf, InSection, TakesPriority
<1>6. Measured'
  BY MeasuredStays, LockNames
<1>7. QED
  BY <1>3, <1>4, <1>5, <1>6 DEF LockInv

LEMMA LockInitialize == ASSUME LockInv, Initialize PROVE LockInv'
<1>1. /\ Executes(Main) /\ calls' = calls + 1 /\ calls \in 0 .. 4
      /\ UNCHANGED <<logIndex, point, pc, saved_priority, counter, last_counter>>
  BY LockTypes DEF Initialize, pmu, lock
<1>2. inside' = inside /\ faulted' = faulted
  BY DEF Initialize, lock
<1>3. Main \in Task /\ Main # 0 /\ Main # 1
  BY LockNames
<1>4. ~inside /\ Runs(Main) /\ ~faulted
  BY <1>1, <1>3, LockNames DEF Executes
<1>5. state[Main] = "ready"
  BY <1>4 DEF Runs
<1>6. /\ pc' \in [Task -> Label] /\ calls' \in 0 .. 5 /\ last_counter' \in Word
      /\ state \in [Task -> State] /\ level \in [Task -> Level]
      /\ 0 \in Task /\ 1 \in Task
  BY <1>1, LockTypes, LockNames
<1>7. ASSUME KernelInv', state[0] = "ready" => state'[0] = "ready",
             Port = "ThreadX" =>
                 /\ state'[0] # "absent" =>
                       \/ level'[0] = 5 /\ state[0] = "absent"
                       \/ level'[0] = level[0] /\ state[0] # "absent"
                 /\ state'[1] # "absent" =>
                       \/ level'[1] = ReporterPriority
                       \/ level'[1] = level[1] /\ state[1] # "absent"
      PROVE  LockInv'
  <2>1. Raised'
    <3>1. state[0] = "absent" => ~InSection
      BY LockNames DEF LockInv, Alive, InSection
    <3>2. InSection' <=> InSection
      BY <1>1 DEF InSection
    <3>3. TakesPriority => Port = "ThreadX"
      BY DEF TakesPriority
    <3>4. QED
      BY <1>1, <1>2, <1>7, <3>1, <3>2, <3>3, LockNames DEF LockInv, Raised, TakesPriority
  <2>2. QED
    BY <1>1, <1>2, <1>6, <1>7, <2>1, OtherFrame
<1>8. CASE calls = 0
  <2>1. tm_thread_create(0, 5)
    BY <1>8, LockNames DEF Initialize
  <2>2. /\ KernelInv' /\ state[0] = "absent"
        /\ \A u \in Task : u # 0 => state'[u] = state[u] /\ level'[u] = level[u]
    BY <2>1, LockNames, CreateKernel DEF LockInv
  <2>3. Port = "ThreadX" => level'[0] = 5
    BY <1>6, <2>1 DEF tm_thread_create, threadx_thread_create, AddSuspended
  <2>4. QED
    BY <1>6, <1>7, <2>2, <2>3
<1>9. CASE calls = 1
  <2>1. tm_thread_resume(0)
    BY <1>9, LockNames DEF Initialize
  <2>2. /\ KernelInv' /\ level' = level
        /\ state' = IF state[0] = "suspended" THEN [state EXCEPT ![0] = "ready"] ELSE state
    BY <1>6, <2>1, ResumeKernel DEF LockInv
  <2>3. \A u \in Task : (state'[u] # "absent" => state[u] # "absent")
                        /\ (state[u] = "ready" => state'[u] = "ready")
    BY <1>6, <2>2
  <2>4. QED
    BY <1>6, <1>7, <2>2, <2>3
<1>10. CASE calls = 2
  <2>1. tm_thread_create(1, ReporterPriority)
    BY <1>10, LockNames DEF Initialize
  <2>2. ReporterPriority \in 1 .. 31
    BY PriorityAssumption
  <2>3. /\ KernelInv' /\ state[1] = "absent"
        /\ \A u \in Task : u # 1 => state'[u] = state[u] /\ level'[u] = level[u]
    BY <2>1, <2>2, LockNames, CreateKernel DEF LockInv
  <2>4. Port = "ThreadX" => level'[1] = ReporterPriority
    BY <1>6, <2>1 DEF tm_thread_create, threadx_thread_create, AddSuspended
  <2>5. QED
    BY <1>6, <1>7, <2>3, <2>4
<1>11. CASE calls = 3
  <2>1. tm_thread_resume(1)
    BY <1>11, LockNames DEF Initialize
  <2>2. /\ KernelInv' /\ level' = level
        /\ state' = IF state[1] = "suspended" THEN [state EXCEPT ![1] = "ready"] ELSE state
    BY <1>6, <2>1, ResumeKernel DEF LockInv
  <2>3. \A u \in Task : (state'[u] # "absent" => state[u] # "absent")
                        /\ (state[u] = "ready" => state'[u] = "ready")
    BY <1>6, <2>2
  <2>4. QED
    BY <1>6, <1>7, <2>2, <2>3
<1>12. CASE calls = 4
  <2>1. Block(Main, "done")
    BY <1>12 DEF Initialize, Return
  <2>2. KernelInv'
    BY <1>3, <1>4, <2>1, LeavesFirst DEF LockInv, State
  <2>3. level' = level /\ state'[0] = state[0] /\ state'[1] = state[1]
    BY <1>3, <1>6, <2>1 DEF Block
  <2>4. QED
    BY <1>7, <2>2, <2>3
<1>13. QED
  BY <1>1, <1>8, <1>9, <1>10, <1>11, <1>12

LEMMA LockReporter == ASSUME LockInv, Sleep \/ Wake \/ Report PROVE LockInv'
<1>1. /\ UNCHANGED <<logIndex, point, calls, saved_priority, counter>>
      /\ \/ pc' = pc
         \/ \E label \in Label : pc' = [pc EXCEPT ![1] = label]
  BY LockNames DEF Sleep, Wake, Report, Goto, Label, pmu, lock
<1>2. inside' = inside /\ faulted' = faulted
  BY DEF Sleep, Wake, Report, lock
<1>3. /\ pc' \in [Task -> Label] /\ pc'[0] = pc[0] /\ calls' \in 0 .. 5
      /\ state \in [Task -> State] /\ level \in [Task -> Level]
      /\ 0 \in Task /\ 1 \in Task
  BY <1>1, LockTypes, LockNames
<1>4. last_counter' \in Word
  BY LockTypes DEF Sleep, Wake, Report
<1>5. KernelInv' /\ level' = level /\ state'[0] = state[0] /\ state[1] # "absent"
  <2>1. CASE Sleep
    <3>1. Runs(1) /\ Block(1, "asleep")
      BY <2>1, LockNames DEF Sleep, Executes, tm_thread_sleep
    <3>2. KernelInv'
      BY <1>3, <3>1, LeavesFirst DEF LockInv, State
    <3>3. state[1] = "ready"
      BY <3>1 DEF Runs
    <3>4. QED
      BY <1>3, <3>1, <3>2, <3>3 DEF Block
  <2>2. CASE Wake
    <3>1. state[1] = "asleep" /\ MakeReady(1)
      BY <2>2, LockNames DEF Wake, TickWakes
    <3>2. KernelInv'
      BY <1>3, <3>1, MakeReadyKernel DEF LockInv
    <3>3. QED
      BY <1>3, <3>1, <3>2 DEF MakeReady
  <2>3. CASE Report
    <3>1. UNCHANGED kernel /\ Runs(1)
      BY <2>3, LockNames DEF Report, Executes
    <3>2. KernelInv'
      BY <3>1, SameKernel DEF LockInv
    <3>3. QED
      BY <3>1, <3>2 DEF kernel, Runs
  <2>4. QED
    BY <2>1, <2>2, <2>3
<1>6. Raised'
  BY <1>1, <1>2, <1>3, <1>5, LockNames DEF LockInv, Raised, InSection, TakesPriority
<1>7. QED
  BY <1>1, <1>2, <1>3, <1>4, <1>5, <1>6, OtherFrame

LEMMA LockNext == ASSUME LockInv, [Next]_vars PROVE LockInv'
<1>1. CASE UNCHANGED vars
  <2>1. /\ UNCHANGED <<kernel, logIndex, point, calls, pc, saved_priority, counter, last_counter>>
        /\ inside' = inside /\ faulted' = faulted
    BY <1>1 DEF vars, pmu, lock
  <2>2. KernelInv' /\ UNCHANGED <<state, level>>
    BY <2>1, SameKernel DEF LockInv, kernel
  <2>3. Raised'
    BY <2>1, <2>2 DEF LockInv, Raised, InSection, TakesPriority
  <2>4. pc' \in [Task -> Label] /\ calls' \in 0 .. 5 /\ last_counter' \in Word
    BY <2>1, LockTypes
  <2>5. QED
    BY <2>1, <2>2, <2>3, <2>4, OtherFrame
<1>2. CASE BenchmarkStep
  BY <1>2, LockStart, LockEnter, LockCount, LockExit, LockEnd DEF BenchmarkStep
<1>3. QED
  BY <1>1, <1>2, LockInitialize, LockReporter DEF Next

-----------------------------------------------------------------------------

LEMMA LockLogged == ASSUME LockInv PROVE SectionsLogged
<1> SUFFICES ASSUME NEW i \in 0 .. IterationCount - 1, i < logIndex
             PROVE  point[i] = [name |-> i, ended |-> i]
  BY DEF SectionsLogged, LockInv
<1>1. i \in Entry /\ logIndex \in Nat
  BY LockNames, LockTypes DEF Entry, PmuTypeOK
<1>2. Logged(IterationCount) \/ Logged(logIndex)
  BY <1>1, LockNames DEF LockInv, Measured
<1>3. point[i].name = i /\ point[i].ended = i
  BY <1>1, <1>2, LockNames DEF Logged
<1>4. point[i] \in [name : Name, ended : Name]
  BY <1>1, LockTypes DEF PmuTypeOK
<1>5. QED
  BY <1>3, <1>4

(***************************************************************************)
(* In its section the benchmark thread keeps the processor: the interrupts *)
(* are masked, the scheduler is locked, or on ThreadX no priority is above *)
(* its own.                                                                *)
(***************************************************************************)
LEMMA LockKeepsOut ==
    ASSUME LockInv, Report
    PROVE  pc[Benchmark] \notin {"count", "exit"}
<1> SUFFICES ASSUME InSection PROVE FALSE
  BY DEF InSection
<1>1. ~inside /\ Runs(1) /\ ~faulted
  BY LockNames DEF Report, Executes
<1>2. TakesPriority
  BY <1>1 DEF LockInv, InsideOf
<1>3. state[0] = "ready" /\ state[1] = "ready"
  BY <1>1, LockNames DEF LockInv, Alive, InSection, Runs
<1>4. level[0] = 0 /\ level[1] = ReporterPriority
  BY <1>1, <1>2, <1>3, LockNames DEF LockInv, Raised
<1>5. ~MoreUrgent(level[0], level[1])
  BY <1>1, <1>3, LockNames, RunningIsMostUrgent DEF LockInv
<1>6. Port # "FreeRTOS"
  BY <1>2 DEF TakesPriority
<1>7. ~(0 < ReporterPriority)
  BY <1>4, <1>5, <1>6 DEF MoreUrgent
<1>8. QED
  BY <1>7, PriorityAssumption

(***************************************************************************)
(* The measurements in Zephyr's log belong together, section by section    *)
(* (lock_thread_test.c:71-96), and every variable has its type, on every   *)
(* port.                                                                   *)
(***************************************************************************)
THEOREM LockSectionsLogged == Spec => []SectionsLogged
<1>1. Init => LockInv
  BY LockInit
<1>2. LockInv /\ [Next]_vars => LockInv'
  BY LockNext
<1>3. LockInv => SectionsLogged
  BY LockLogged
<1>4. QED
  BY <1>1, <1>2, <1>3, PTL DEF Spec

(***************************************************************************)
(* No report sees the benchmark thread in its section (the comment of      *)
(* tm_porting_layer_threadx.c:603), on every port and for both services.   *)
(***************************************************************************)
THEOREM LockReportsOutside == Spec => ReportsOutside
<1>1. Init => LockInv
  BY LockInit
<1>2. LockInv /\ [Next]_vars => LockInv'
  BY LockNext
<1>3. LockInv /\ [Next]_vars =>
          [last_counter' # last_counter => pc[Benchmark] \notin {"count", "exit"}]_vars
  <2> SUFFICES ASSUME LockInv, Next, last_counter' # last_counter
               PROVE  pc[Benchmark] \notin {"count", "exit"}
    OBVIOUS
  <2>1. Report
    BY DEF Next, Initialize, BenchmarkStep, StartMeasurement, Enter, Count, Exit,
       EndMeasurement, Sleep, Wake
  <2>2. QED
    BY <2>1, LockKeepsOut
<1>4. QED
  BY <1>1, <1>2, <1>3, PTL DEF Spec, ReportsOutside
=============================================================================
