------------------------- MODULE MCSwitchingProofs --------------------------
(***************************************************************************)
(* Proofs about the two benchmarks of MCSwitching, and about the specific  *)
(* synchronisation benchmark of MCSpecificSync, in the last part.          *)
(*                                                                         *)
(* The task synchronisation benchmark (TaskSync), on every port: SyncInv   *)
(* is its inductive invariant.  Its heart is OneHolder: the token is       *)
(* counted by one of the two semaphores or held by one of the two writers. *)
(* Where it is tells which writer has counted and whether a measurement is *)
(* running, whatever the scheduler does.                                   *)
(***************************************************************************)
EXTENDS MCSwitching, MCSpecificSync, TmLemmas, FiniteSetTheorems

\* A thread is created by its own call of the initialisation.
Created == \A t \in Thread : state[t] # "absent" => calls >= t + 3

AfterWait(t) == IF t = 1 THEN "measure" ELSE "count"

\* Only a writer waits, for its own semaphore, and it is blocked meanwhile.
Waiting ==
    \A t \in Task : wants[t] # None =>
        /\ t \in {1, 2}
        /\ wants[t] = WaitsOn(t)
        /\ state[t] = "blocked"
        /\ pc[t] = AfterWait(t)

WriterLabels == \A t \in {1, 2} : pc[t] \in {"wait", "measure", "count", "put"}

\* What the semaphores count and which writer, if any, has the token.
Token(a, b, holder) ==
    /\ count[SEM_A] = a /\ count[SEM_B] = b
    /\ \A t \in {1, 2} : Holds(t) <=> t = holder

OneHolder ==
    IF calls <= 2
    THEN /\ Token(IF calls = 0 THEN 0 ELSE 1, IF calls = 2 THEN 1 ELSE 0, 0)
         /\ pc[1] = "wait" /\ pc[2] = "wait"
    ELSE Token(1, 0, 0) \/ Token(0, 1, 0) \/ Token(0, 0, 1) \/ Token(0, 0, 2)

\* Task 2 has counted and task 1 has not yet.
Ahead ==
    /\ calls >= 3
    /\ \/ count[SEM_A] = 1
       \/ Holds(2) /\ pc[2] # "count"
       \/ Holds(1) /\ pc[1] # "put"

InTurn == task2_counter = IF Ahead THEN Inc(task1_counter) ELSE task1_counter

\* The measurement of this hand-over has begun and not yet ended.
Measuring ==
    /\ calls >= 3
    /\ \/ count[SEM_A] = 1
       \/ Holds(2) /\ pc[2] = "put"
       \/ Holds(1) /\ pc[1] = "measure"

\* The entries before the current one: what was started was ended under its name.
Matched == \A i \in Entry : i < logIndex => point[i].name \in {NoName, point[i].ended}

Unused == \A i \in Entry : i > logIndex => point[i].name = NoName

\* The current entry.  The wrapped counters start a measurement under name 0
\* that nobody ends; the next start takes its place.
Current ==
    logIndex \in Entry =>
        IF Measuring
        THEN point[logIndex].name =
                IF task2_counter < IterationCount THEN task2_counter ELSE NoName
        ELSE \/ point[logIndex].name = NoName
             \/ /\ point[logIndex].name = 0
                /\ \/ task2_counter = 0
                   \/ task2_counter = 1 /\ Holds(2) /\ pc[2] = "measure"

\* With one iteration name 0 would never be started over.
Log == IterationCount > 1 => Matched /\ Unused /\ Current

SyncInv ==
    /\ TypeOK
    /\ KernelInv
    /\ Created
    /\ Waiting
    /\ WriterLabels
    /\ OneHolder
    /\ InTurn
    /\ Log

-----------------------------------------------------------------------------

LEMMA SyncNames ==
    /\ Thread = {1, 2, 3} /\ Main \notin {1, 2, 3} /\ Task = {1, 2, 3, Main}
    /\ Semaphore = {1, 2} /\ None \notin {1, 2}
    /\ Reporter = 3 /\ SEM_A = 1 /\ SEM_B = 2
  BY ThreeThreads, TwoSemaphores, MainAssumption, NoneAssumption
  DEF Task, Reporter, SEM_A, SEM_B

LEMMA SyncStart == Init => SyncInv
<1> SUFFICES ASSUME Init PROVE SyncInv
  OBVIOUS
<1>1. KernelInv /\ \A t \in Thread : state[t] = "absent"
  BY InitKernel DEF Init
<1>2. calls = 0 /\ pc[1] = "wait" /\ pc[2] = "wait" /\ pc \in [Task -> Label]
  <2>1. /\ pc[1] = "wait" /\ pc[2] = "wait" /\ pc[3] = "sleep" /\ pc[Main] = "initialize"
        /\ calls = 0 /\ pc = [t \in Task |-> pc[t]]
    BY SyncNames DEF Init
  <2>2. QED
    BY <2>1, SyncNames DEF Label
<1>3. count = [s \in Semaphore |-> 0] /\ wants = [t \in Task |-> None]
  BY DEF Init, SemaphoreInit
<1>4. TypeOK
  <2>1. SemaphoreTypeOK
    BY <1>3 DEF SemaphoreTypeOK
  <2>2. PmuTypeOK
    BY MaxLogEntriesAssumption DEF Init, Clear, ClearEntry, PmuTypeOK, Name
  <2>3. {task1_counter, task2_counter, last_total} \subseteq Word
    BY MaxWordAssumption DEF Init, Word
  <2>4. once \in BOOLEAN
    BY DEF Init
  <2>5. QED
    BY <1>1, <1>2, <1>3, <2>1, <2>2, <2>3, <2>4 DEF TypeOK, KernelInv
<1>5. Created /\ Waiting /\ WriterLabels
  BY <1>1, <1>2, <1>3 DEF Created, Waiting, WriterLabels
<1>6. OneHolder
  BY <1>2, <1>3, SyncNames DEF OneHolder, Token, Holds
<1>7. InTurn
  BY <1>2 DEF InTurn, Ahead, Init
<1>8. Log
  BY MaxLogEntriesAssumption DEF Init, Clear, ClearEntry, Log, Matched, Unused, Current,
     Entry, Measuring
<1>9. QED
  BY <1>1, <1>4, <1>5, <1>6, <1>7, <1>8 DEF SyncInv

\* What a step leaves of the token when it does not concern it.
LEMMA TokenStays ==
    ASSUME SyncInv, UNCHANGED <<count, wants, logIndex, point, task1_counter, task2_counter>>,
           pc'[1] = pc[1], pc'[2] = pc[2],
           calls' = calls \/ (calls >= 3 /\ calls' >= 3 /\ calls' \in Nat)
    PROVE  OneHolder' /\ InTurn' /\ Log'
<1>1. calls \in Nat
  BY DEF SyncInv, TypeOK
<1>2. /\ (calls' <= 2) <=> (calls <= 2)
      /\ calls <= 2 => calls' = calls
      /\ (calls' >= 3) <=> (calls >= 3)
  BY <1>1
<1>3. \A t \in {1, 2} : Holds(t)' <=> Holds(t)
  BY DEF Holds
<1>4. OneHolder'
  BY <1>2, <1>3 DEF SyncInv, OneHolder, Token, SEM_A, SEM_B
<1>5. (Ahead' <=> Ahead) /\ (Measuring' <=> Measuring)
  BY <1>2, <1>3 DEF Ahead, Measuring, SEM_A
<1>6. QED
  BY <1>3, <1>4, <1>5 DEF SyncInv, InTurn, Log, Matched, Unused, Current

LEMMA RunningThread ==
    ASSUME SyncInv, NEW t \in Thread, Runs(t)
    PROVE  t \in Task /\ state[t] = "ready" /\ calls >= t + 3 /\ wants[t] = None
<1>1. t \in Task /\ state[t] = "ready"
  BY DEF Runs, Task
<1>2. QED
  BY <1>1 DEF SyncInv, Created, Waiting

\* A writer that runs and does not wait has the token.
LEMMA RunningHolder ==
    ASSUME SyncInv, NEW t \in {1, 2}, Runs(t), pc[t] # "wait"
    PROVE  /\ calls >= 3 /\ calls \in Nat
           /\ count[SEM_A] = 0 /\ count[SEM_B] = 0
           /\ \A u \in {1, 2} : Holds(u) <=> u = t
<1>1. wants[t] = None /\ calls >= 3 /\ calls \in Nat
  BY SyncNames, RunningThread DEF SyncInv, TypeOK
<1>2. Holds(t)
  BY <1>1 DEF Holds, SyncInv, WriterLabels
<1>3. QED
  BY <1>1, <1>2 DEF SyncInv, OneHolder, Token

\* A step of the kernel that leaves the blocked tasks alone.
LEMMA WaitingStays ==
    ASSUME SyncInv, wants' = wants,
           \A t \in Task : state[t] = "blocked" => state'[t] = "blocked" /\ pc'[t] = pc[t]
    PROVE  Waiting'
  BY DEF SyncInv, Waiting, WaitsOn, AfterWait

LEMMA CreatedStays ==
    ASSUME SyncInv, calls' \in Nat, calls' >= calls,
           \A t \in Thread :
               state'[t] # "absent" => state[t] # "absent" \/ calls' >= t + 3
    PROVE  Created'
<1>1. calls \in Nat /\ \A t \in Thread : t \in Nat
  BY SyncNames DEF SyncInv, TypeOK
<1>2. QED
  BY <1>1 DEF SyncInv, Created

LEMMA SyncInitialize == ASSUME SyncInv, Initialize PROVE SyncInv'
<1>1. /\ Runs(Main) /\ calls' = calls + 1 /\ calls \in 0 .. 9 /\ calls \in Nat
      /\ UNCHANGED <<logIndex, point, pc, task1_counter, task2_counter, last_total, once>>
  BY DEF Initialize, SyncInv, TypeOK, pmu, counters, report
<1>2. Main \in Task /\ state[Main] = "ready"
  BY <1>1 DEF Task, Runs
<1>3. WriterLabels'
  BY <1>1 DEF SyncInv, WriterLabels
<1>4. ASSUME UNCHANGED <<wants>>, SemaphoreTypeOK', KernelInv',
             \A t \in Task : state[t] = "blocked" => state'[t] = "blocked",
             \A t \in Thread : state'[t] # "absent" => state[t] # "absent" \/ calls' >= t + 3,
             OneHolder' /\ InTurn' /\ Log'
      PROVE  SyncInv'
  <2>1. TypeOK'
    BY <1>1, <1>4 DEF SyncInv, TypeOK, KernelInv, PmuTypeOK
  <2>2. Waiting'
    BY <1>1, <1>4, WaitingStays
  <2>3. Created'
    BY <1>1, <1>4, CreatedStays
  <2>4. QED
    BY <1>3, <1>4, <2>1, <2>2, <2>3 DEF SyncInv
<1>5. CASE calls <= 2 /\ UNCHANGED kernel
  <2>1. KernelInv' /\ state' = state
    BY <1>5, SameKernel DEF SyncInv, kernel
  <2>2. /\ pc[1] = "wait" /\ pc[2] = "wait" /\ count \in [Semaphore -> Nat]
        /\ count[1] = (IF calls = 0 THEN 0 ELSE 1) /\ count[2] = (IF calls = 2 THEN 1 ELSE 0)
    BY <1>5, SyncNames DEF SyncInv, OneHolder, Token, TypeOK, SemaphoreTypeOK
  <2>3. /\ wants' = wants /\ count' \in [Semaphore -> Nat]
        /\ count'[1] = IF calls = 2 THEN 0 ELSE 1
        /\ count'[2] = IF calls = 0 THEN 0 ELSE 1
    <3>1. CASE calls = 0 \/ calls = 1
      <4>1. wants' = wants /\ count' = [count EXCEPT ![calls + 1] = 1]
        BY <1>1, <3>1 DEF Initialize, tm_semaphore_create
      <4>2. QED
        BY <2>2, <3>1, <4>1, SyncNames
    <3>2. CASE calls = 2
      <4>1. wants' = wants /\ count' = [count EXCEPT ![1] = @ - 1]
        BY <1>1, <2>2, <3>2, SyncNames DEF Initialize, tm_semaphore_get
      <4>2. QED
        BY <2>2, <3>2, <4>1, SyncNames
    <3>3. QED
      BY <1>1, <1>5, <3>1, <3>2
  <2>4. SemaphoreTypeOK'
    BY <2>3 DEF SyncInv, TypeOK, SemaphoreTypeOK
  <2>5. \A t \in {1, 2} : ~Holds(t) /\ ~Holds(t)'
    BY <1>1, <2>2 DEF Holds
  <2>6. OneHolder'
    BY <1>1, <1>5, <2>2, <2>3, <2>5, SyncNames DEF OneHolder, Token
  <2>7. ~Ahead /\ ~Ahead' /\ ~Measuring /\ ~Measuring'
    BY <1>1, <1>5, <2>3, <2>5, SyncNames DEF Ahead, Measuring
  <2>8. InTurn' /\ Log'
    BY <1>1, <2>5, <2>7 DEF SyncInv, InTurn, Log, Matched, Unused, Current
  <2>9. QED
    BY <1>4, <2>1, <2>3, <2>4, <2>6, <2>8
<1>6. CASE calls >= 3 /\ UNCHANGED semaphores
  <2>1. wants' = wants /\ SemaphoreTypeOK'
    BY <1>6 DEF semaphores, SyncInv, TypeOK, SemaphoreTypeOK
  <2>2. OneHolder' /\ InTurn' /\ Log'
    BY <1>1, <1>6, TokenStays DEF semaphores
  <2>3. CASE calls \in 3 .. 5
    <3>1. PICK t \in Thread : t = calls - 2
      BY <2>3, SyncNames
    <3>2. tm_thread_create(t, <<4, 5, 1>>[t])
      BY <2>3, <3>1 DEF Initialize
    <3>3. <<4, 5, 1>>[t] \in 1 .. 31
      BY SyncNames
    <3>4. /\ KernelInv' /\ state[t] = "absent"
          /\ \A u \in Task : u # t => state'[u] = state[u]
      BY <3>2, <3>3, CreateKernel DEF SyncInv
    <3>5. \A u \in Thread : state'[u] # "absent" => state[u] # "absent" \/ calls' >= u + 3
      BY <1>1, <3>1, <3>4, SyncNames
    <3>6. \A u \in Task : state[u] = "blocked" => state'[u] = "blocked"
      BY <3>4
    <3>7. QED
      BY <1>4, <2>1, <2>2, <3>4, <3>5, <3>6
  <2>4. CASE calls \in 6 .. 8
    <3>1. PICK t \in Thread : t = calls - 5
      BY <2>4, SyncNames
    <3>2. tm_thread_resume(t) /\ t \in Task
      BY <2>4, <3>1 DEF Initialize, Task
    <3>3. KernelInv' /\ state' = IF state[t] = "suspended" THEN [state EXCEPT ![t] = "ready"]
                                 ELSE state
      BY <3>2, ResumeKernel DEF SyncInv
    <3>4. \A u \in Task : /\ state[u] = "blocked" => state'[u] = "blocked"
                          /\ state'[u] # "absent" => state[u] # "absent"
      BY <3>2, <3>3 DEF SyncInv, KernelInv, KernelTypeOK
    <3>5. QED
      BY <1>4, <2>1, <2>2, <3>3, <3>4 DEF Task
  <2>5. CASE calls = 9
    <3>1. Block(Main, "done")
      BY <2>5 DEF Initialize, Return
    <3>2. KernelInv'
      BY <1>1, <1>2, <3>1, LeavesFirst DEF SyncInv, State
    <3>3. \A u \in Task : /\ state[u] = "blocked" => state'[u] = "blocked"
                          /\ u # Main => state'[u] = state[u]
      BY <1>2, <3>1 DEF Block, SyncInv, KernelInv, KernelTypeOK
    <3>4. \A u \in Thread : u \in Task /\ u # Main
      BY SyncNames
    <3>5. QED
      BY <1>4, <2>1, <2>2, <3>2, <3>3, <3>4
  <2>6. QED
    BY <1>1, <1>6, <2>3, <2>4, <2>5
<1>7. QED
  BY <1>1, <1>5, <1>6 DEF Initialize

-----------------------------------------------------------------------------
(* The reporter.                                                           *)

LEMMA SyncReporter == ASSUME SyncInv, Sleep \/ Wake \/ Report PROVE SyncInv'
<1>1. Reporter \in Task /\ Reporter = 3 /\ 1 # Reporter /\ 2 # Reporter
  BY SyncNames
<1>2. /\ UNCHANGED <<count, wants, logIndex, point, calls, task1_counter, task2_counter>>
      /\ pc'[1] = pc[1] /\ pc'[2] = pc[2] /\ pc' \in [Task -> Label]
      /\ \A t \in Task : t # Reporter => pc'[t] = pc[t]
  <2>1. UNCHANGED <<count, wants, logIndex, point, calls, task1_counter, task2_counter>>
    BY DEF Sleep, Wake, Report, semaphores, pmu, counters
  <2>2. pc' = pc \/ \E label \in Label : pc' = [pc EXCEPT ![Reporter] = label]
    BY DEF Sleep, Wake, Report, Goto, Label
  <2>3. 1 \in Task /\ 2 \in Task /\ pc \in [Task -> Label]
    BY SyncNames DEF SyncInv, TypeOK
  <2>4. QED
    BY <1>1, <2>1, <2>2, <2>3
<1>3. /\ KernelInv'
      /\ \A t \in Task : t # Reporter => state'[t] = state[t]
      /\ state[Reporter] # "absent"
  <2>1. CASE Sleep
    <3>1. Runs(Reporter) /\ Block(Reporter, "asleep")
      BY <2>1 DEF Sleep, tm_thread_sleep
    <3>2. KernelInv'
      BY <1>1, <3>1, LeavesFirst DEF SyncInv, State
    <3>3. QED
      BY <1>1, <3>1, <3>2 DEF Runs, Block, SyncInv, KernelInv, KernelTypeOK
  <2>2. CASE Wake
    <3>1. state[Reporter] = "asleep" /\ MakeReady(Reporter)
      BY <2>2 DEF Wake, TickWakes
    <3>2. KernelInv'
      BY <1>1, <3>1, MakeReadyKernel DEF SyncInv
    <3>3. QED
      BY <1>1, <3>1, <3>2 DEF MakeReady, SyncInv, KernelInv, KernelTypeOK
  <2>3. CASE Report
    <3>1. UNCHANGED kernel /\ Runs(Reporter)
      BY <2>3 DEF Report
    <3>2. QED
      BY <2>3, <3>1, SameKernel DEF SyncInv, kernel, Runs
  <2>4. QED
    BY <2>1, <2>2, <2>3
<1>4. wants[Reporter] = None
  BY <1>1 DEF SyncInv, Waiting
<1>5. Waiting'
  <2> SUFFICES ASSUME NEW t \in Task, wants'[t] # None
               PROVE  /\ t \in {1, 2} /\ wants'[t] = WaitsOn(t)
                      /\ state'[t] = "blocked" /\ pc'[t] = AfterWait(t)
    BY DEF Waiting
  <2>1. t # Reporter
    BY <1>2, <1>4
  <2>2. QED
    BY <1>2, <1>3, <2>1 DEF SyncInv, Waiting
<1>6. Created'
  <2>1. \A t \in Thread : state'[t] # "absent" => state[t] # "absent"
    BY <1>3 DEF Task
  <2>2. QED
    BY <1>2, <2>1 DEF SyncInv, Created
<1>7. TypeOK'
  <2>1. last_total' \in Word /\ once' \in BOOLEAN
    <3>1. CASE Report
      <4>1. last_total' \in Word
        BY <3>1, PlusType DEF Report, SyncInv, TypeOK
      <4>2. once' \in BOOLEAN
        BY <3>1 DEF Report
      <4>3. QED
        BY <4>1, <4>2
    <3>2. CASE Sleep \/ Wake
      <4>1. last_total' = last_total /\ once' = once
        BY <3>2 DEF Sleep, Wake, report
      <4>2. last_total' \in Word
        BY <4>1 DEF SyncInv, TypeOK
      <4>3. once' \in BOOLEAN
        BY <4>1 DEF SyncInv, TypeOK
      <4>4. QED
        BY <4>2, <4>3
    <3>3. QED
      BY <3>1, <3>2
  <2>2. SemaphoreTypeOK' /\ PmuTypeOK' /\ calls' \in 0 .. 10
    BY <1>2 DEF SyncInv, TypeOK, SemaphoreTypeOK, PmuTypeOK
  <2>3. task1_counter' \in Word /\ task2_counter' \in Word
    BY <1>2 DEF SyncInv, TypeOK
  <2>4. QED
    BY <1>2, <1>3, <2>1, <2>2, <2>3 DEF TypeOK, KernelInv
<1>8. WriterLabels'
  BY <1>2 DEF SyncInv, WriterLabels
<1>9. OneHolder' /\ InTurn' /\ Log'
  BY <1>2, TokenStays
<1>10. QED
  BY <1>3, <1>5, <1>6, <1>7, <1>8, <1>9 DEF SyncInv

-----------------------------------------------------------------------------
(* The writers.                                                            *)

\* A step of a writer that does not touch the kernel and the semaphores.
LEMMA WriterFrame ==
    ASSUME SyncInv, NEW t \in {1, 2}, Runs(t), NEW label \in Label \ {"initialize", "sleep", "report"},
           pc' = [pc EXCEPT ![t] = label],
           UNCHANGED <<kernel, semaphores, calls, last_total, once>>,
           PmuTypeOK', task1_counter' \in Word, task2_counter' \in Word
    PROVE  /\ TypeOK' /\ KernelInv' /\ Created' /\ Waiting' /\ WriterLabels'
           /\ pc'[t] = label /\ \A u \in Task : u # t => pc'[u] = pc[u]
<1>1. t \in Thread /\ t \in Task
  BY SyncNames
<1>2. pc'[t] = label /\ \A u \in Task : u # t => pc'[u] = pc[u]
  BY <1>1 DEF SyncInv, TypeOK
<1>3. UNCHANGED <<state, level, ready, count, wants>>
  BY DEF kernel, semaphores
<1>4. KernelInv'
  BY SameKernel DEF SyncInv
<1>5. TypeOK'
  <2>1. pc' \in [Task -> Label] /\ SemaphoreTypeOK' /\ calls' \in 0 .. 10
    BY <1>3 DEF SyncInv, TypeOK, SemaphoreTypeOK
  <2>2. last_total' \in Word
    BY DEF SyncInv, TypeOK
  <2>3. once' \in BOOLEAN
    BY DEF SyncInv, TypeOK
  <2>4. QED
    BY <1>4, <2>1, <2>2, <2>3 DEF TypeOK, KernelInv
<1>6. Created'
  BY <1>3 DEF SyncInv, Created
<1>7. state[t] # "blocked"
  BY DEF Runs
<1>8. Waiting'
  BY <1>2, <1>3, <1>7, WaitingStays
<1>9. WriterLabels'
  BY <1>2, SyncNames DEF SyncInv, WriterLabels, Label
<1>10. QED
  BY <1>2, <1>4, <1>5, <1>6, <1>8, <1>9

\* What the calls of the profile log do to its entries.
LEMMA StartEffect ==
    ASSUME PmuTypeOK, NEW name \in Nat, tm_pmu_profile_start(name)
    PROVE  /\ PmuTypeOK' /\ logIndex' = logIndex
           /\ logIndex \in Entry => point'[logIndex].name = name
           /\ \A i \in Entry : i # logIndex => point'[i] = point[i]
  BY DEF PmuTypeOK, tm_pmu_profile_start, Name

LEMMA EndEffect ==
    ASSUME PmuTypeOK, NEW name \in Nat, tm_pmu_profile_end(name)
    PROVE  /\ PmuTypeOK'
           /\ \A i \in Entry : i # logIndex => point'[i] = point[i]
           /\ logIndex \in Entry => /\ logIndex' = logIndex + 1
                                    /\ point'[logIndex].name = point[logIndex].name
                                    /\ point'[logIndex].ended = name
           /\ logIndex \notin Entry => UNCHANGED <<logIndex, point>>
<1>1. CASE logIndex \in Entry
  <2>1. point' = [point EXCEPT ![logIndex].ended = name] /\ logIndex' = logIndex + 1
    BY <1>1 DEF tm_pmu_profile_end
  <2>2. logIndex \in Nat /\ logIndex + 1 \in 0 .. MaxLogEntries
    BY <1>1, MaxLogEntriesAssumption DEF Entry
  <2>3. QED
    BY <1>1, <2>1, <2>2 DEF PmuTypeOK, Name
<1>2. CASE logIndex \notin Entry
  BY <1>2 DEF PmuTypeOK, tm_pmu_profile_end, pmu
<1>3. QED
  BY <1>1, <1>2

LEMMA EntryRange ==
    ASSUME PmuTypeOK
    PROVE  /\ logIndex \in Nat /\ \A i \in Entry : i \in Nat
           /\ logIndex \notin Entry => \A i \in Entry : i < logIndex
  BY MaxLogEntriesAssumption DEF PmuTypeOK, Entry

LEMMA SyncEndMeasurement == ASSUME SyncInv, EndMeasurement PROVE SyncInv'
<1>1. /\ Runs(1) /\ pc[1] = "measure" /\ pc' = [pc EXCEPT ![1] = "count"]
      /\ UNCHANGED <<kernel, semaphores, calls, task1_counter, task2_counter, last_total, once>>
      /\ task1_counter \in Word /\ task2_counter \in Word /\ PmuTypeOK
  BY DEF EndMeasurement, Goto, counters, report, SyncInv, TypeOK
<1>2. /\ PmuTypeOK'
      /\ \A i \in Entry : i # logIndex => point'[i] = point[i]
      /\ IF task1_counter < IterationCount /\ logIndex \in Entry
         THEN /\ logIndex' = logIndex + 1
              /\ point'[logIndex].name = point[logIndex].name
              /\ point'[logIndex].ended = task1_counter + 1
         ELSE UNCHANGED <<logIndex, point>>
  <2>1. CASE task1_counter < IterationCount
    <3>1. tm_pmu_profile_end(task1_counter + 1) /\ task1_counter + 1 \in Nat
      BY <1>1, <2>1, MaxWordAssumption DEF EndMeasurement, Word
    <3>2. QED
      BY <1>1, <2>1, <3>1, EndEffect
  <2>2. CASE ~(task1_counter < IterationCount)
    BY <1>1, <2>2 DEF EndMeasurement, pmu, PmuTypeOK
  <2>3. QED
    BY <2>1, <2>2
<1>3. /\ TypeOK' /\ KernelInv' /\ Created' /\ Waiting' /\ WriterLabels'
      /\ pc'[1] = "count" /\ pc'[2] = pc[2]
  <2>1. "count" \in Label \ {"initialize", "sleep", "report"} /\ 2 \in Task /\ 1 \in {1, 2}
    BY SyncNames DEF Label
  <2>2. PmuTypeOK' /\ task1_counter' \in Word /\ task2_counter' \in Word
    BY <1>1, <1>2
  <2>3. /\ TypeOK' /\ KernelInv' /\ Created' /\ Waiting' /\ WriterLabels'
        /\ pc'[1] = "count" /\ \A u \in Task : u # 1 => pc'[u] = pc[u]
    BY <1>1, <2>1, <2>2, WriterFrame
  <2>4. QED
    BY <2>1, <2>3
<1>4. /\ calls >= 3 /\ count[SEM_A] = 0 /\ count[SEM_B] = 0 /\ calls' = calls
      /\ Holds(1) /\ ~Holds(2) /\ UNCHANGED <<count, wants>> /\ calls \in Nat
  BY <1>1, RunningHolder DEF semaphores
<1>5. Holds(1)' /\ ~Holds(2)'
  BY <1>3, <1>4 DEF Holds
<1>6. OneHolder'
  BY <1>4, <1>5 DEF OneHolder, Token, SEM_A, SEM_B
<1>7. Ahead /\ Ahead' /\ Measuring /\ ~Measuring'
  BY <1>1, <1>3, <1>4, <1>5 DEF Ahead, Measuring, SEM_A
<1>8. InTurn' /\ task2_counter = Inc(task1_counter)
  BY <1>1, <1>7 DEF SyncInv, InTurn
<1>9. Log'
  <2> SUFFICES ASSUME IterationCount > 1 PROVE Matched' /\ Unused' /\ Current'
    BY DEF Log
  <2>1. Matched /\ Unused /\ Current /\ logIndex \in Nat /\ \A i \in Entry : i \in Nat
    BY <1>1, EntryRange DEF SyncInv, Log
  <2>2. CASE task1_counter < IterationCount /\ logIndex \in Entry
    <3>1. task2_counter = task1_counter + 1 /\ task2_counter \in Nat
      BY <1>1, <1>8, <2>2, IterationCountAssumption, MaxWordAssumption DEF Inc, Word
    <3>2. point[logIndex].name \in {NoName, task2_counter}
      BY <1>7, <2>1, <2>2 DEF Current
    <3>3. Matched'
      BY <1>2, <2>1, <2>2, <3>1, <3>2 DEF Matched
    <3>4. Unused' /\ Current'
      BY <1>2, <1>7, <2>1, <2>2 DEF Unused, Current
    <3>5. QED
      BY <3>3, <3>4
  <2>3. CASE ~(task1_counter < IterationCount) /\ logIndex \in Entry
    <3>1. task2_counter = 0 \/ ~(task2_counter < IterationCount)
      BY <1>1, <1>8, <2>3, IterationCountAssumption, MaxWordAssumption DEF Inc, Word
    <3>2. point[logIndex].name = NoName \/ (point[logIndex].name = 0 /\ task2_counter = 0)
      BY <1>7, <2>1, <2>3, <3>1 DEF Current
    <3>3. QED
      BY <1>1, <1>2, <1>7, <2>1, <2>3, <3>2 DEF Matched, Unused, Current
  <2>4. CASE logIndex \notin Entry
    BY <1>2, <2>1, <2>4 DEF Matched, Unused, Current
  <2>5. QED
    BY <2>2, <2>3, <2>4
<1>10. QED
  BY <1>3, <1>6, <1>8, <1>9 DEF SyncInv

LEMMA SyncStartMeasurement == ASSUME SyncInv, StartMeasurement PROVE SyncInv'
<1>1. /\ Runs(2) /\ pc[2] = "measure" /\ pc' = [pc EXCEPT ![2] = "put"]
      /\ UNCHANGED <<kernel, semaphores, calls, task1_counter, task2_counter, last_total, once>>
      /\ task1_counter \in Word /\ task2_counter \in Word /\ PmuTypeOK
  BY DEF StartMeasurement, Goto, counters, report, SyncInv, TypeOK
<1>2. /\ PmuTypeOK' /\ logIndex' = logIndex
      /\ \A i \in Entry : i # logIndex => point'[i] = point[i]
      /\ IF task2_counter < IterationCount
         THEN logIndex \in Entry => point'[logIndex].name = task2_counter
         ELSE point' = point
  <2>1. CASE task2_counter < IterationCount
    <3>1. tm_pmu_profile_start(task2_counter) /\ task2_counter \in Nat
      BY <1>1, <2>1, MaxWordAssumption DEF StartMeasurement, Word
    <3>2. QED
      BY <1>1, <2>1, <3>1, StartEffect
  <2>2. CASE ~(task2_counter < IterationCount)
    BY <1>1, <2>2 DEF StartMeasurement, pmu, PmuTypeOK
  <2>3. QED
    BY <2>1, <2>2
<1>3. /\ TypeOK' /\ KernelInv' /\ Created' /\ Waiting' /\ WriterLabels'
      /\ pc'[2] = "put" /\ pc'[1] = pc[1]
  <2>1. "put" \in Label \ {"initialize", "sleep", "report"} /\ 1 \in Task /\ 2 \in {1, 2}
    BY SyncNames DEF Label
  <2>2. PmuTypeOK' /\ task1_counter' \in Word /\ task2_counter' \in Word
    BY <1>1, <1>2
  <2>3. /\ TypeOK' /\ KernelInv' /\ Created' /\ Waiting' /\ WriterLabels'
        /\ pc'[2] = "put" /\ \A u \in Task : u # 2 => pc'[u] = pc[u]
    BY <1>1, <2>1, <2>2, WriterFrame
  <2>4. QED
    BY <2>1, <2>3
<1>4. /\ calls >= 3 /\ count[SEM_A] = 0 /\ count[SEM_B] = 0 /\ calls' = calls
      /\ Holds(2) /\ ~Holds(1) /\ UNCHANGED <<count, wants>> /\ calls \in Nat
  BY <1>1, RunningHolder DEF semaphores
<1>5. Holds(2)' /\ ~Holds(1)'
  BY <1>3, <1>4 DEF Holds
<1>6. OneHolder'
  BY <1>4, <1>5 DEF OneHolder, Token, SEM_A, SEM_B
<1>7. Ahead /\ Ahead' /\ ~Measuring /\ Measuring'
  BY <1>1, <1>3, <1>4, <1>5 DEF Ahead, Measuring, SEM_A
<1>8. InTurn'
  BY <1>1, <1>7 DEF SyncInv, InTurn
<1>9. Log'
  <2> SUFFICES ASSUME IterationCount > 1 PROVE Matched' /\ Unused' /\ Current'
    BY DEF Log
  <2>1. Matched /\ Unused /\ Current /\ logIndex \in Nat /\ \A i \in Entry : i \in Nat
    BY <1>1, EntryRange DEF SyncInv, Log
  <2>2. Matched' /\ Unused'
    BY <1>2, <2>1 DEF Matched, Unused
  <2>3. CASE task2_counter < IterationCount
    <3>1. logIndex \in Entry => point'[logIndex].name = task2_counter
      BY <1>2, <2>3
    <3>2. task2_counter' = task2_counter /\ logIndex' = logIndex
      BY <1>1, <1>2
    <3>3. QED
      BY <1>7, <2>2, <2>3, <3>1, <3>2 DEF Current
  <2>4. CASE ~(task2_counter < IterationCount)
    <3>1. task2_counter # 0 /\ task2_counter # 1
      BY <1>1, <2>4, IterationCountAssumption, MaxWordAssumption DEF Word
    <3>2. logIndex \in Entry => point[logIndex].name = NoName
      BY <1>7, <2>1, <3>1 DEF Current
    <3>3. QED
      BY <1>1, <1>2, <1>7, <2>2, <2>4, <3>2 DEF Current
  <2>5. QED
    BY <2>2, <2>3, <2>4
<1>10. QED
  BY <1>3, <1>6, <1>8, <1>9 DEF SyncInv

LEMMA SyncCount1 == ASSUME SyncInv, Count1 PROVE SyncInv'
<1>1. /\ Runs(1) /\ pc[1] = "count" /\ pc' = [pc EXCEPT ![1] = "put"]
      /\ UNCHANGED <<kernel, semaphores, calls, task2_counter, last_total, once>>
      /\ UNCHANGED <<logIndex, point>>
      /\ task1_counter' = Inc(task1_counter)
      /\ task1_counter \in Word /\ task2_counter \in Word /\ PmuTypeOK
  BY DEF Count1, Goto, pmu, report, SyncInv, TypeOK
<1>2. /\ TypeOK' /\ KernelInv' /\ Created' /\ Waiting' /\ WriterLabels'
      /\ pc'[1] = "put" /\ pc'[2] = pc[2]
  <2>1. "put" \in Label \ {"initialize", "sleep", "report"} /\ 2 \in Task /\ 1 \in {1, 2}
    BY SyncNames DEF Label
  <2>2. PmuTypeOK' /\ task1_counter' \in Word /\ task2_counter' \in Word
    BY <1>1, IncType DEF PmuTypeOK
  <2>3. /\ TypeOK' /\ KernelInv' /\ Created' /\ Waiting' /\ WriterLabels'
        /\ pc'[1] = "put" /\ \A u \in Task : u # 1 => pc'[u] = pc[u]
    BY <1>1, <2>1, <2>2, WriterFrame
  <2>4. QED
    BY <2>1, <2>3
<1>3. /\ calls >= 3 /\ count[SEM_A] = 0 /\ count[SEM_B] = 0 /\ calls' = calls
      /\ Holds(1) /\ ~Holds(2) /\ UNCHANGED <<count, wants>> /\ calls \in Nat
  BY <1>1, RunningHolder DEF semaphores
<1>4. Holds(1)' /\ ~Holds(2)'
  BY <1>2, <1>3 DEF Holds
<1>5. OneHolder'
  BY <1>3, <1>4 DEF OneHolder, Token, SEM_A, SEM_B
<1>6. Ahead /\ ~Ahead' /\ ~Measuring /\ ~Measuring'
  BY <1>1, <1>2, <1>3, <1>4 DEF Ahead, Measuring, SEM_A
<1>7. InTurn'
  BY <1>1, <1>6 DEF SyncInv, InTurn
<1>8. Log'
  BY <1>1, <1>3, <1>6 DEF SyncInv, Log, Matched, Unused, Current
<1>9. QED
  BY <1>2, <1>5, <1>7, <1>8 DEF SyncInv

LEMMA SyncCount2 == ASSUME SyncInv, Count2 PROVE SyncInv'
<1>1. /\ Runs(2) /\ pc[2] = "count" /\ pc' = [pc EXCEPT ![2] = "measure"]
      /\ UNCHANGED <<kernel, semaphores, calls, task1_counter, last_total, once>>
      /\ UNCHANGED <<logIndex, point>>
      /\ task2_counter' = Inc(task2_counter)
      /\ task1_counter \in Word /\ task2_counter \in Word /\ PmuTypeOK
  BY DEF Count2, Goto, pmu, report, SyncInv, TypeOK
<1>2. /\ TypeOK' /\ KernelInv' /\ Created' /\ Waiting' /\ WriterLabels'
      /\ pc'[2] = "measure" /\ pc'[1] = pc[1]
  <2>1. "measure" \in Label \ {"initialize", "sleep", "report"} /\ 1 \in Task /\ 2 \in {1, 2}
    BY SyncNames DEF Label
  <2>2. PmuTypeOK' /\ task1_counter' \in Word /\ task2_counter' \in Word
    BY <1>1, IncType DEF PmuTypeOK
  <2>3. /\ TypeOK' /\ KernelInv' /\ Created' /\ Waiting' /\ WriterLabels'
        /\ pc'[2] = "measure" /\ \A u \in Task : u # 2 => pc'[u] = pc[u]
    BY <1>1, <2>1, <2>2, WriterFrame
  <2>4. QED
    BY <2>1, <2>3
<1>3. /\ calls >= 3 /\ count[SEM_A] = 0 /\ count[SEM_B] = 0 /\ calls' = calls
      /\ Holds(2) /\ ~Holds(1) /\ UNCHANGED <<count, wants>> /\ calls \in Nat
  BY <1>1, RunningHolder DEF semaphores
<1>4. Holds(2)' /\ ~Holds(1)'
  BY <1>2, <1>3 DEF Holds
<1>5. OneHolder'
  BY <1>3, <1>4 DEF OneHolder, Token, SEM_A, SEM_B
<1>6. ~Ahead /\ Ahead' /\ ~Measuring /\ ~Measuring'
  BY <1>1, <1>2, <1>3, <1>4 DEF Ahead, Measuring, SEM_A
<1>7. InTurn'
  BY <1>1, <1>6 DEF SyncInv, InTurn
<1>8. Log'
  <2> SUFFICES ASSUME IterationCount > 1 PROVE Matched' /\ Unused' /\ Current'
    BY DEF Log
  <2>1. Matched' /\ Unused' /\ Current
    BY <1>1 DEF SyncInv, Log, Matched, Unused
  <2>2. task2_counter = 0 => task2_counter' = 1
    BY <1>1, MaxWordAssumption DEF Inc
  <2>3. logIndex \in Entry =>
            \/ point[logIndex].name = NoName
            \/ point[logIndex].name = 0 /\ task2_counter = 0
    BY <1>1, <1>6, <2>1 DEF Current
  <2>4. QED
    BY <1>1, <1>2, <1>4, <1>6, <2>1, <2>2, <2>3 DEF Current
<1>9. QED
  BY <1>2, <1>5, <1>7, <1>8 DEF SyncInv

\* The token has moved, but no counter and no measurement is concerned.
LEMMA TurnStays ==
    ASSUME SyncInv, UNCHANGED <<logIndex, point, task1_counter, task2_counter>>,
           Ahead' <=> Ahead, Measuring' <=> Measuring,
           (Holds(2) /\ pc[2] = "measure") => (Holds(2)' /\ pc'[2] = "measure")
    PROVE  InTurn' /\ Log'
  BY DEF SyncInv, InTurn, Log, Matched, Unused, Current

LEMMA SyncWait == ASSUME SyncInv, NEW t \in {1, 2}, Wait(t) PROVE SyncInv'
<1> DEFINE s == WaitsOn(t)
           u == 3 - t
<1>1. /\ Runs(t) /\ pc[t] = "wait" /\ tm_semaphore_wait(t, s)
      /\ pc' = [pc EXCEPT ![t] = AfterWait(t)]
      /\ UNCHANGED <<logIndex, point, calls, task1_counter, task2_counter, last_total, once>>
  BY DEF Wait, Goto, AfterWait, pmu, counters, report
<1>2. /\ t \in Thread /\ t \in Task /\ u \in {1, 2} /\ u # t /\ u \in Task
      /\ s \in Semaphore /\ s = t /\ {1, 2} = {t, u}
      /\ AfterWait(t) \in {"measure", "count"} /\ AfterWait(t) \in Label
  BY SyncNames DEF WaitsOn, AfterWait, Label
<1>3. state[t] = "ready" /\ calls >= 3 /\ wants[t] = None /\ calls \in Nat
  BY <1>1, <1>2, SyncNames, RunningThread DEF SyncInv, TypeOK
<1>4. pc'[t] = AfterWait(t) /\ (\A v \in Task : v # t => pc'[v] = pc[v]) /\ pc' \in [Task -> Label]
  BY <1>1, <1>2 DEF SyncInv, TypeOK
<1>5. ~Holds(t) /\ count \in [Semaphore -> Nat] /\ wants \in [Task -> Semaphore \cup {None}]
  BY <1>1 DEF Holds, SyncInv, TypeOK, SemaphoreTypeOK
<1>6. Token(1, 0, 0) \/ Token(0, 1, 0) \/ Token(0, 0, u)
  BY <1>2, <1>3, <1>5 DEF SyncInv, OneHolder, Token
<1>7. /\ KernelInv' /\ SemaphoreTypeOK'
      /\ \A v \in Task : v # t => state'[v] = state[v] /\ wants'[v] = wants[v]
      /\ \/ state' = state /\ wants'[t] = None
         \/ state'[t] = "blocked" /\ wants'[t] = s
  <2>1. CASE count[s] > 0
    <3>1. count' = [count EXCEPT ![s] = @ - 1] /\ UNCHANGED <<kernel, wants>>
      BY <1>1, <2>1 DEF tm_semaphore_wait
    <3>2. KernelInv'
      BY <3>1, SameKernel DEF SyncInv
    <3>3. SemaphoreTypeOK'
      BY <1>2, <1>5, <2>1, <3>1 DEF SemaphoreTypeOK
    <3>4. QED
      BY <1>3, <3>1, <3>2, <3>3 DEF kernel
  <2>2. CASE ~(count[s] > 0)
    <3>1. Block(t, "blocked") /\ wants' = [wants EXCEPT ![t] = s] /\ count' = count
      BY <1>1, <2>2 DEF tm_semaphore_wait
    <3>2. KernelInv'
      BY <1>1, <1>2, <3>1, LeavesFirst DEF SyncInv, State
    <3>3. SemaphoreTypeOK'
      BY <1>2, <1>5, <3>1 DEF SemaphoreTypeOK
    <3>4. QED
      BY <1>2, <1>5, <3>1, <3>2, <3>3 DEF Block, SyncInv, KernelInv, KernelTypeOK
  <2>3. QED
    BY <2>1, <2>2
<1>8. TypeOK'
  <2>1. last_total' \in Word /\ task1_counter' \in Word /\ task2_counter' \in Word
    BY <1>1 DEF SyncInv, TypeOK
  <2>2. once' \in BOOLEAN
    BY <1>1 DEF SyncInv, TypeOK
  <2>3. PmuTypeOK' /\ calls' \in 0 .. 10
    BY <1>1 DEF SyncInv, TypeOK, PmuTypeOK
  <2>4. QED
    BY <1>4, <1>7, <2>1, <2>2, <2>3 DEF TypeOK, KernelInv
<1>9. Created'
  <2>1. \A v \in Thread : state'[v] # "absent" => state[v] # "absent"
    BY <1>2, <1>3, <1>7 DEF Task
  <2>2. QED
    BY <1>1, <2>1 DEF SyncInv, Created
<1>10. Waiting'
  <2> SUFFICES ASSUME NEW v \in Task, wants'[v] # None
               PROVE  /\ v \in {1, 2} /\ wants'[v] = WaitsOn(v)
                      /\ state'[v] = "blocked" /\ pc'[v] = AfterWait(v)
    BY DEF Waiting
  <2>1. CASE v = t
    BY <1>4, <1>7, <2>1
  <2>2. CASE v # t
    BY <1>4, <1>7, <2>2 DEF SyncInv, Waiting
  <2>3. QED
    BY <2>1, <2>2
<1>11. WriterLabels'
  BY <1>2, <1>4 DEF SyncInv, WriterLabels
<1>12. Holds(u)' <=> Holds(u)
  BY <1>2, <1>4, <1>7 DEF Holds
<1>13. CASE count[s] > 0
  <2>1. count' = [count EXCEPT ![s] = @ - 1] /\ wants' = wants
    BY <1>1, <1>13 DEF tm_semaphore_wait
  <2>2. Holds(t)'
    BY <1>2, <1>3, <1>4, <2>1 DEF Holds
  <2>3. count[s] = 1 /\ count'[s] = 0 /\ count'[u] = 0 /\ count[u] = 0 /\ ~Holds(u) /\ ~Holds(u)'
    BY <1>2, <1>5, <1>6, <1>12, <1>13, <2>1, SyncNames DEF Token
  <2>4. OneHolder'
    BY <1>1, <1>2, <1>3, <2>2, <2>3, SyncNames DEF OneHolder, Token
  <2>5. (Ahead' <=> Ahead) /\ (Measuring' <=> Measuring)
    <3>1. CASE t = 1
      BY <1>1, <1>2, <1>3, <1>4, <1>5, <2>2, <2>3, <3>1 DEF Ahead, Measuring, SEM_A, AfterWait
    <3>2. CASE t = 2
      BY <1>1, <1>2, <1>3, <1>4, <1>5, <2>2, <2>3, <3>2 DEF Ahead, Measuring, SEM_A, AfterWait
    <3>3. QED
      BY <3>1, <3>2
  <2>6. ~Holds(2)
    BY <1>2, <1>5, <2>3
  <2>7. InTurn' /\ Log'
    BY <1>1, <2>5, <2>6, TurnStays
  <2>8. QED
    BY <1>7, <1>8, <1>9, <1>10, <1>11, <2>4, <2>7 DEF SyncInv
<1>14. CASE ~(count[s] > 0)
  <2>1. count' = count /\ wants' = [wants EXCEPT ![t] = s]
    BY <1>1, <1>14 DEF tm_semaphore_wait
  <2>2. ~Holds(t)'
    BY <1>2, <1>5, <2>1, NoneAssumption DEF Holds
  <2>3. \A v \in {1, 2} : Holds(v)' <=> Holds(v)
    BY <1>2, <1>5, <1>12, <2>2
  <2>4. OneHolder'
    BY <1>1, <1>3, <2>1, <2>3 DEF SyncInv, OneHolder, Token, SEM_A, SEM_B
  <2>5. (Ahead' <=> Ahead) /\ (Measuring' <=> Measuring)
    BY <1>1, <1>2, <1>4, <1>5, <2>1, <2>3 DEF Ahead, Measuring, SEM_A
  <2>6. (Holds(2) /\ pc[2] = "measure") => (Holds(2)' /\ pc'[2] = "measure")
    BY <1>2, <1>4, <1>5, <2>3
  <2>7. InTurn' /\ Log'
    BY <1>1, <2>5, <2>6, TurnStays
  <2>8. QED
    BY <1>7, <1>8, <1>9, <1>10, <1>11, <2>4, <2>7 DEF SyncInv
<1>15. QED
  BY <1>13, <1>14

\* The holder of the token finds its other semaphore empty, so that in every
\* port a put gives the semaphore.
LEMMA SyncPut == ASSUME SyncInv, NEW t \in {1, 2}, Put(t) PROVE SyncInv'
<1> DEFINE s == Puts(t)
           u == 3 - t
<1>1. /\ Runs(t) /\ pc[t] = "put" /\ pc' = [pc EXCEPT ![t] = "wait"]
      /\ UNCHANGED <<logIndex, point, calls, task1_counter, task2_counter, last_total, once>>
  BY DEF Put, Goto, pmu, counters, report
<1>2. /\ t \in Thread /\ t \in Task /\ u \in {1, 2} /\ u # t /\ u \in Task /\ u \in Thread
      /\ s \in Semaphore /\ s = u /\ WaitsOn(u) = s /\ {1, 2} = {t, u}
      /\ "wait" \in Label
  BY SyncNames DEF Puts, WaitsOn, Label
<1>3. state[t] = "ready" /\ wants[t] = None
  BY <1>1, <1>2, RunningThread
<1>4. /\ calls >= 3 /\ calls \in Nat /\ count[SEM_A] = 0 /\ count[SEM_B] = 0
      /\ Holds(t) /\ ~Holds(u)
  BY <1>1, <1>2, RunningHolder
<1>5. /\ pc'[t] = "wait" /\ (\A v \in Task : v # t => pc'[v] = pc[v])
      /\ pc' \in [Task -> Label] /\ ~Holds(t)'
  BY <1>1, <1>2 DEF SyncInv, TypeOK, Holds
<1>6. count \in [Semaphore -> Nat] /\ wants \in [Task -> Semaphore \cup {None}]
  BY DEF SyncInv, TypeOK, SemaphoreTypeOK
<1>7. Give(s)
  BY <1>2, <1>4, SyncNames, PortAssumption
  DEF Put, tm_semaphore_put, freertos_semaphore_put, threadx_semaphore_put,
      zephyr_semaphore_put
<1>8. ASSUME KernelInv', SemaphoreTypeOK', Waiting', OneHolder',
             \A v \in Thread : state'[v] # "absent" => state[v] # "absent",
             Ahead' <=> Ahead, Measuring' <=> Measuring
      PROVE  SyncInv'
  <2>1. last_total' \in Word /\ task1_counter' \in Word /\ task2_counter' \in Word
    BY <1>1 DEF SyncInv, TypeOK
  <2>2. once' \in BOOLEAN
    BY <1>1 DEF SyncInv, TypeOK
  <2>3. PmuTypeOK' /\ calls' \in 0 .. 10
    BY <1>1 DEF SyncInv, TypeOK, PmuTypeOK
  <2>4. TypeOK'
    BY <1>5, <1>8, <2>1, <2>2, <2>3 DEF TypeOK, KernelInv
  <2>5. Created'
    BY <1>1, <1>8 DEF SyncInv, Created
  <2>6. WriterLabels'
    BY <1>2, <1>5 DEF SyncInv, WriterLabels
  <2>7. ~(Holds(2) /\ pc[2] = "measure")
    BY <1>1, <1>2, <1>4
  <2>8. InTurn' /\ Log'
    BY <1>1, <1>8, <2>7, TurnStays
  <2>9. QED
    BY <1>8, <2>4, <2>5, <2>6, <2>8 DEF SyncInv
<1>9. CASE Waiter(s) = {}
  <2>1. count' = [count EXCEPT ![s] = @ + 1] /\ UNCHANGED <<kernel, wants>>
    BY <1>7, <1>9 DEF Give
  <2>2. KernelInv' /\ state' = state
    BY <2>1, SameKernel DEF SyncInv, kernel
  <2>3. SemaphoreTypeOK' /\ count'[s] = 1 /\ count'[t] = 0
    BY <1>2, <1>4, <1>6, <2>1, SyncNames DEF SemaphoreTypeOK
  <2>4. Waiting'
    BY <1>3, <1>5, <2>1, <2>2, WaitingStays
  <2>5. ~Holds(u)'
    BY <1>2, <1>4, <1>5, <2>1 DEF Holds
  <2>6. OneHolder'
    BY <1>1, <1>2, <1>4, <1>5, <2>3, <2>5, SyncNames DEF OneHolder, Token
  <2>7. (Ahead' <=> Ahead) /\ (Measuring' <=> Measuring)
    <3>1. CASE t = 1
      BY <1>1, <1>2, <1>4, <1>5, <2>3, <2>5, <3>1 DEF Ahead, Measuring, SEM_A
    <3>2. CASE t = 2
      BY <1>1, <1>2, <1>4, <1>5, <2>3, <2>5, <3>2 DEF Ahead, Measuring, SEM_A
    <3>3. QED
      BY <3>1, <3>2
  <2>8. QED
    BY <1>8, <2>2, <2>3, <2>4, <2>6, <2>7
<1>10. CASE Waiter(s) # {}
  <2>1. PICK w \in Waiter(s) : MakeReady(w) /\ wants' = [wants EXCEPT ![w] = None] /\ count' = count
    BY <1>7, <1>10 DEF Give
  <2>2. w \in Task /\ wants[w] = s
    BY DEF Waiter
  <2>3. w \in {1, 2} /\ WaitsOn(w) = s /\ state[w] = "blocked" /\ pc[w] = AfterWait(w)
    BY <1>2, <2>2, NoneAssumption DEF SyncInv, Waiting
  <2>4. w = u
    BY <1>2, <2>3 DEF WaitsOn, SEM_A, SEM_B
  <2>5. KernelInv' /\ state' = [state EXCEPT ![w] = "ready"]
    BY <2>1, <2>2, <2>3, MakeReadyKernel DEF SyncInv, MakeReady
  <2>6. SemaphoreTypeOK'
    BY <1>6, <2>1, <2>2 DEF SemaphoreTypeOK
  <2>7. wants'[u] = None /\ pc'[u] = AfterWait(u)
    BY <1>2, <1>5, <1>6, <2>1, <2>3, <2>4
  <2>8. Holds(u)'
    BY <1>2, <2>7 DEF Holds, AfterWait
  <2>9. OneHolder'
    BY <1>1, <1>2, <1>4, <1>5, <2>1, <2>8, SyncNames DEF OneHolder, Token
  <2>10. Waiting'
    <3> SUFFICES ASSUME NEW v \in Task, wants'[v] # None
                 PROVE  /\ v \in {1, 2} /\ wants'[v] = WaitsOn(v)
                        /\ state'[v] = "blocked" /\ pc'[v] = AfterWait(v)
      BY DEF Waiting
    <3>1. v # u /\ wants'[v] = wants[v] /\ v # t
      BY <1>2, <1>3, <1>6, <2>1, <2>4, <2>7
    <3>2. state \in [Task -> State]
      BY DEF SyncInv, KernelInv, KernelTypeOK
    <3>3. state'[v] = state[v] /\ pc'[v] = pc[v]
      BY <1>5, <2>4, <2>5, <3>1, <3>2
    <3>4. QED
      BY <3>1, <3>3 DEF SyncInv, Waiting
  <2>11. (Ahead' <=> Ahead) /\ (Measuring' <=> Measuring)
    <3>1. CASE t = 1
      BY <1>1, <1>2, <1>4, <1>5, <2>1, <2>7, <2>8, <3>1 DEF Ahead, Measuring, SEM_A, AfterWait
    <3>2. CASE t = 2
      BY <1>1, <1>2, <1>4, <1>5, <2>1, <2>7, <2>8, <3>2 DEF Ahead, Measuring, SEM_A, AfterWait
    <3>3. QED
      BY <3>1, <3>2
  <2>12. \A v \in Thread : state'[v] # "absent" => state[v] # "absent"
    BY <2>2, <2>3, <2>5 DEF SyncInv, KernelInv, KernelTypeOK, Task
  <2>13. QED
    BY <1>8, <2>5, <2>6, <2>9, <2>10, <2>11, <2>12
<1>11. QED
  BY <1>9, <1>10

LEMMA SyncNext == ASSUME SyncInv, [Next]_vars PROVE SyncInv'
<1>1. CASE UNCHANGED vars
  <2>1. UNCHANGED <<kernel, count, wants, logIndex, point, calls, pc, task1_counter,
                    task2_counter, last_total, once>>
    BY <1>1 DEF vars, semaphores, pmu, counters, report
  <2>2. KernelInv' /\ UNCHANGED <<state, level, ready>>
    BY <2>1, SameKernel DEF SyncInv, kernel
  <2>3. OneHolder' /\ InTurn' /\ Log'
    BY <2>1, TokenStays
  <2>4. Created' /\ Waiting' /\ WriterLabels'
    BY <2>1, <2>2 DEF SyncInv, Created, Waiting, WriterLabels
  <2>5. TypeOK'
    BY <2>1, <2>2 DEF SyncInv, TypeOK, KernelInv, SemaphoreTypeOK, PmuTypeOK
  <2>6. QED
    BY <2>2, <2>3, <2>4, <2>5 DEF SyncInv
<1>2. CASE Initialize
  BY <1>2, SyncInitialize
<1>3. CASE WriterStep
  BY <1>3, SyncWait, SyncPut, SyncEndMeasurement, SyncCount1, SyncCount2,
     SyncStartMeasurement DEF WriterStep
<1>4. CASE Sleep \/ Wake \/ Report
  BY <1>4, SyncReporter
<1>5. QED
  BY <1>1, <1>2, <1>3, <1>4 DEF Next

-----------------------------------------------------------------------------
(* What SyncInv says of the properties the run checks.                     *)

\* Threads that hold the token are writers, and at most one does.
LEMMA SyncOneToken == ASSUME SyncInv PROVE OneToken
<1> SUFFICES ASSUME calls >= 3
             PROVE  count[SEM_A] + count[SEM_B] + Cardinality({t \in Thread : Holds(t)}) = 1
  BY DEF OneToken
<1> DEFINE S == {t \in Thread : Holds(t)}
<1>1. ~(calls <= 2)
  BY DEF SyncInv, TypeOK
<1>2. \A t \in Thread : Holds(t) => t \in {1, 2}
  BY DEF Holds
<1>3. CASE Token(1, 0, 0) \/ Token(0, 1, 0)
  <2>1. S = {}
    BY <1>2, <1>3 DEF Token
  <2>2. Cardinality(S) = 0
    BY <2>1, FS_EmptySet
  <2>3. QED
    BY <1>3, <2>2 DEF Token
<1>4. ASSUME NEW h \in {1, 2}, Token(0, 0, h) PROVE Cardinality(S) = 1
  <2>1. S = {h}
    BY <1>2, <1>4, SyncNames DEF Token
  <2>2. QED
    BY <2>1, FS_Singleton
<1>5. QED
  BY <1>1, <1>3, <1>4 DEF SyncInv, OneHolder, Token

LEMMA SyncPrintsMatch == ASSUME SyncInv, IterationCount > 1 PROVE PrintsMatch
<1> SUFFICES ASSUME NEW n \in 0 .. IterationCount - 1, Found(n) # {}
             PROVE  point[Printed(n)].ended = n
  BY DEF PrintsMatch
<1>1. Found(n) \in SUBSET Nat
  BY MaxLogEntriesAssumption DEF Found, Entry
<1>2. \E m \in Found(n) : \A k \in Found(n) : m <= k
  BY <1>1, LeastExists
<1>3. Printed(n) \in Found(n)
  BY <1>2 DEF Printed
<1>4. /\ Printed(n) \in Entry /\ Printed(n) < logIndex
      /\ point[Printed(n)].name = n
  BY <1>3 DEF Found
<1>5. n # NoName
  BY NoNameAssumption, IterationCountAssumption
<1>6. QED
  BY <1>4, <1>5 DEF SyncInv, Log, Matched

-----------------------------------------------------------------------------

(***************************************************************************)
(* The writers never have more or less than one token between them, on     *)
(* every port (task_synchronization.c:163-169, with the semaphores of      *)
(* tm_porting_layer_*.c).                                                  *)
(***************************************************************************)
THEOREM SyncTokenKept == Spec => [](TypeOK /\ OneToken)
<1>1. Init => SyncInv
  BY SyncStart
<1>2. SyncInv /\ [Next]_vars => SyncInv'
  BY SyncNext
<1>3. SyncInv => TypeOK /\ OneToken
  BY SyncOneToken DEF SyncInv
<1>4. QED
  BY <1>1, <1>2, <1>3, PTL DEF Spec

(***************************************************************************)
(* Whatever the report prints under a name was started and ended under it  *)
(* (task_synchronization.c:131-138), for every number of iterations above  *)
(* one and however often the counters wrap.                                *)
(***************************************************************************)
THEOREM SyncPrints == ASSUME IterationCount > 1 PROVE Spec => []PrintsMatch
<1>1. Init => SyncInv
  BY SyncStart
<1>2. SyncInv /\ [Next]_vars => SyncInv'
  BY SyncNext
<1>3. SyncInv => PrintsMatch
  BY SyncPrintsMatch
<1>4. QED
  BY <1>1, <1>2, <1>3, PTL DEF Spec

-----------------------------------------------------------------------------
(* The context switching benchmark, on the ports whose thread numbering    *)
(* lets the main task finish the initialisation first.  Its heart is the   *)
(* list of the pair: who comes first in it, and which of its statements    *)
(* the first executes next, decide the counters and the log.               *)

\* The priorities of the tasks that exist.
Ranks ==
    /\ level[Main] = 1
    /\ \A t \in Thread : state[t] # "absent" => level[t] = <<5, 5, 2>>[t]

\* The main task runs until it has created and resumed the pair.
Started ==
    /\ calls <= 6 => state[Main] = "ready"
    /\ \A t \in {1, 2} : state[t] = IF calls < t THEN "absent"
                                    ELSE IF calls < t + 3 THEN "suspended"
                                    ELSE "ready"

\* The first n entries are the measurements of the first n names.
Complete(n) == \A i \in Entry : i < n => point[i].name = i + 1 /\ point[i].ended = i + 1

\* The measurement of the current name has begun.
Opened ==
    /\ Switch!CurrentName > 0 /\ logIndex = Switch!CurrentName - 1
    /\ Complete(logIndex) /\ point[logIndex].name = Switch!CurrentName

\* It has ended, or it is the last, which never ends.
Closed ==
    IF global_pmu_index # 0
    THEN logIndex = Switch!CurrentName /\ Complete(logIndex)
    ELSE Opened

HighFirst ==
    \/ calls <= 3 /\ ready[5] = << >>
    \/ calls = 4 /\ ready[5] = <<1>>
    \/ calls >= 5 /\ ready[5] = <<1, 2>>

HighsTurn ==
    /\ HighFirst /\ pc[2] = "measure"
    /\ \/ pc[1] = "count" /\ counter[1] = counter[2] /\ Closed
       \/ pc[1] = "measure" /\ counter[1] = Inc(counter[2]) /\ Closed /\ calls = 7
       \/ pc[1] = "relinquish" /\ counter[1] = Inc(counter[2]) /\ Opened /\ calls = 7

LowsTurn ==
    /\ calls = 7 /\ ready[5] = <<2, 1>> /\ pc[1] = "count"
    /\ \/ pc[2] = "measure" /\ counter[1] = Inc(counter[2]) /\ Opened
       \/ pc[2] = "count" /\ counter[1] = Inc(counter[2]) /\ Closed
       \/ pc[2] = "relinquish" /\ counter[1] = counter[2] /\ Closed

SwitchLabel == {"initialize", "count", "measure", "relinquish", "sleep", "report"}

\* Switch!TypeOK in the names of this module.
SwitchTypeOK ==
    /\ KernelTypeOK /\ PmuTypeOK
    /\ calls \in 0 .. 7
    /\ pc \in [Task -> SwitchLabel]
    /\ global_pmu_index \in 0 .. SwitchIterations
    /\ counter \in [{1, 2} -> Word]
    /\ last_count \in Word
    /\ pmu_done \in BOOLEAN

ReporterLabels == pc[3] \in {"sleep", "report"}

SwitchInv ==
    /\ SwitchTypeOK
    /\ KernelInv
    /\ Ranks
    /\ Started
    /\ ReporterLabels
    /\ HighsTurn \/ LowsTurn

\* The services the benchmark calls are those of TmThreads and PmuLog.
LEMMA SwitchServices ==
    ASSUME NEW t, NEW n
    PROVE  /\ Switch!Runs(t) <=> Runs(t)
           /\ Switch!tm_thread_create(t, n) <=> tm_thread_create(t, n)
           /\ Switch!tm_thread_resume(t) <=> tm_thread_resume(t)
           /\ Switch!Return(t) <=> Return(t)
           /\ Switch!tm_thread_relinquish(t) <=> tm_thread_relinquish(t)
           /\ Switch!tm_thread_sleep(t) <=> tm_thread_sleep(t)
           /\ Switch!TickWakes(t) <=> TickWakes(t)
           /\ Switch!Inc(n) = Inc(n)
<1>1. Switch!Runs(t) <=> Runs(t)
  BY DEF Switch!Runs, Runs, Switch!MoreUrgent, MoreUrgent, Switch!Level, Level
<1>2. Switch!MakeReady(t) <=> MakeReady(t)
  BY DEF Switch!MakeReady, MakeReady
<1>3. Switch!tm_thread_create(t, n) <=> tm_thread_create(t, n)
  BY DEF Switch!tm_thread_create, Switch!freertos_thread_create, Switch!threadx_thread_create,
     Switch!zephyr_thread_create, Switch!AddReady, Switch!AddSuspended,
     tm_thread_create, freertos_thread_create, threadx_thread_create,
     zephyr_thread_create, AddReady, AddSuspended
<1>4. Switch!tm_thread_resume(t) <=> tm_thread_resume(t)
  BY <1>2 DEF Switch!tm_thread_resume, tm_thread_resume, Switch!kernel, kernel
<1>5. Switch!Return(t) <=> Return(t)
  BY DEF Switch!Return, Return, Switch!Block, Block
<1>6. Switch!tm_thread_relinquish(t) <=> tm_thread_relinquish(t)
  BY DEF Switch!tm_thread_relinquish, tm_thread_relinquish
<1>7. Switch!tm_thread_sleep(t) <=> tm_thread_sleep(t)
  BY DEF Switch!tm_thread_sleep, tm_thread_sleep, Switch!Block, Block
<1>8. Switch!TickWakes(t) <=> TickWakes(t)
  BY <1>2 DEF Switch!TickWakes, TickWakes
<1>9. Switch!Inc(n) = Inc(n)
  BY DEF Switch!Inc, Inc
<1>10. QED
  BY <1>1, <1>3, <1>4, <1>5, <1>6, <1>7, <1>8, <1>9

LEMMA SwitchStart ==
    /\ Switch!KernelInit <=> KernelInit
    /\ Switch!Clear <=> Clear
    /\ Switch!KernelTypeOK <=> KernelTypeOK
    /\ Switch!PmuTypeOK <=> PmuTypeOK
    /\ Switch!KernelTypeOK' <=> KernelTypeOK'
    /\ Switch!PmuTypeOK' <=> PmuTypeOK'
    /\ Switch!Word = Word /\ Switch!Task = Task
<1>1. Switch!Task = Task /\ Switch!Level = Level /\ Switch!State = State
  BY DEF Switch!Task, Task, Switch!Level, Level, Switch!State, State
<1>2. Switch!Entry = Entry /\ Switch!Name = Name
  BY DEF Switch!Entry, Entry, Switch!Name, Name
<1>3. Switch!Word = Word
  BY DEF Switch!Word, Word
<1>4. Switch!KernelInit <=> KernelInit
  BY <1>1 DEF Switch!KernelInit, Switch!rtos_main_freertos, Switch!rtos_main_threadx,
     Switch!rtos_main_zephyr, Switch!StartedWith,
     KernelInit, rtos_main_freertos, rtos_main_threadx, rtos_main_zephyr, StartedWith
<1>5. Switch!Clear <=> Clear
  BY <1>2 DEF Switch!Clear, Clear, Switch!ClearEntry, ClearEntry
<1>6. (Switch!KernelTypeOK <=> KernelTypeOK) /\ (Switch!KernelTypeOK' <=> KernelTypeOK')
  BY <1>1 DEF Switch!KernelTypeOK, KernelTypeOK
<1>7. (Switch!PmuTypeOK <=> PmuTypeOK) /\ (Switch!PmuTypeOK' <=> PmuTypeOK')
  BY <1>2 DEF Switch!PmuTypeOK, PmuTypeOK
<1>8. QED
  BY <1>1, <1>3, <1>4, <1>5, <1>6, <1>7

LEMMA SwitchNames ==
    /\ Thread = {1, 2, 3} /\ Main \notin {1, 2, 3} /\ Task = {1, 2, 3, Main}
    /\ SwitchIterations \in Nat /\ SwitchIterations >= 1
    /\ SwitchIterations <= MaxLogEntries /\ MaxLogEntries \in Nat
    /\ Switch!High = 1 /\ Switch!Low = 2 /\ Switch!Reporter = 3
    /\ 1 \in Level /\ 2 \in Level /\ 5 \in Level
  BY SwitchConfiguration, MainAssumption, MaxWordAssumption, MaxLogEntriesAssumption,
     MaxPrioritiesAssumption
  DEF Switch!Configuration, Task, Level, Switch!High, Switch!Low, Switch!Reporter

LEMMA SwitchTypes ==
    /\ Switch!TypeOK <=> SwitchTypeOK
    /\ Switch!TypeOK' <=> SwitchTypeOK'
<1>1. Switch!TypeOK <=> SwitchTypeOK
  BY SwitchStart
  DEF Switch!TypeOK, SwitchTypeOK, SwitchLabel, Switch!Label, Switch!High, Switch!Low
<1>2. Switch!TypeOK' <=> SwitchTypeOK'
  BY SwitchStart
  DEF Switch!TypeOK, SwitchTypeOK, SwitchLabel, Switch!Label, Switch!High, Switch!Low
<1>3. QED
  BY <1>1, <1>2

LEMMA SwitchInit ==
    ASSUME Port # "FreeRTOS", Switch!Init
    PROVE  SwitchInv
<1>1. KernelInv /\ \A t \in Thread : state[t] = "absent"
  BY SwitchStart, InitKernel DEF Switch!Init
<1>2. StartedWith(1) /\ Clear
  BY SwitchStart, PortAssumption
  DEF Switch!Init, KernelInit, rtos_main_threadx, rtos_main_zephyr
<1>3. level[Main] = 1 /\ state[Main] = "ready" /\ ready[5] = << >>
  BY <1>2, SwitchNames DEF StartedWith
<1>4. /\ pc[1] = "count" /\ pc[2] = "measure" /\ pc[3] = "sleep" /\ pc[Main] = "initialize"
      /\ pc = [t \in Task |-> pc[t]]
      /\ counter[1] = 0 /\ counter[2] = 0 /\ counter \in [{1, 2} -> {0}]
      /\ calls = 0 /\ global_pmu_index = SwitchIterations /\ last_count = 0
  BY SwitchNames, SwitchStart DEF Switch!Init
<1>5. pmu_done = FALSE
  BY DEF Switch!Init
<1>6. logIndex = 0 /\ PmuTypeOK
  BY <1>2, MaxLogEntriesAssumption DEF Clear, ClearEntry, PmuTypeOK, Name
<1>7. SwitchTypeOK
  <2>1. pc \in [Task -> SwitchLabel]
    BY <1>4, SwitchNames DEF SwitchLabel
  <2>2. counter \in [{1, 2} -> Word] /\ last_count \in Word
    BY <1>4, MaxWordAssumption DEF Word
  <2>3. global_pmu_index \in 0 .. SwitchIterations
    BY <1>4, SwitchNames
  <2>4. calls \in 0 .. 7 /\ KernelTypeOK
    BY <1>1, <1>4 DEF KernelInv
  <2>5. pmu_done \in BOOLEAN
    BY <1>5
  <2>6. QED
    BY <1>6, <2>1, <2>2, <2>3, <2>4, <2>5 DEF SwitchTypeOK
<1>8. Ranks /\ Started
  BY <1>1, <1>3, <1>4, SwitchNames DEF Ranks, Started
<1>9. Closed
  BY <1>4, <1>6, SwitchNames DEF Closed, Complete, Entry, Switch!CurrentName
<1>10. HighsTurn
  BY <1>3, <1>4, <1>9 DEF HighsTurn, HighFirst
<1>11. QED
  BY <1>1, <1>4, <1>7, <1>8, <1>10 DEF SwitchInv, ReporterLabels

\* Whoever of the pair runs comes after the initialisation and first in the list.
LEMMA PairRuns ==
    ASSUME Port # "FreeRTOS", SwitchInv, NEW t \in {1, 2}, Runs(t)
    PROVE  /\ calls = 7 /\ level[t] = 5 /\ state[t] = "ready"
           /\ t = 1 => HighsTurn /\ ready[5] = <<1, 2>>
           /\ t = 2 => LowsTurn
<1>1. t \in Thread /\ t \in Task /\ Main \in Task /\ calls \in 0 .. 7
  BY SwitchNames DEF SwitchInv, SwitchTypeOK
<1>2. state[t] = "ready" /\ level[t] = 5 /\ level[Main] = 1
  BY <1>1 DEF Runs, SwitchInv, Ranks
<1>3. calls = 7
  <2>1. state[Main] = "ready" => ~MoreUrgent(1, 5)
    BY <1>1, <1>2, RunningIsMostUrgent DEF SwitchInv
  <2>2. QED
    BY <1>1, <2>1 DEF MoreUrgent, SwitchInv, Started
<1>4. ready[5][1] = t
  BY <1>1, <1>2, RunningIsFirst DEF SwitchInv
<1>5. /\ HighsTurn => ready[5] = <<1, 2>>
      /\ LowsTurn => ready[5] = <<2, 1>>
  BY <1>3 DEF HighsTurn, HighFirst, LowsTurn
<1>6. /\ ready[5] = <<1, 2>> => t = 1
      /\ ready[5] = <<2, 1>> => t = 2
  BY <1>4
<1>7. QED
  BY <1>2, <1>3, <1>5, <1>6 DEF SwitchInv

\* A step of the pair that does not call the kernel.
LEMMA PairFrame ==
    ASSUME SwitchInv, UNCHANGED <<kernel, calls, last_count, pmu_done>>,
           PmuTypeOK', global_pmu_index' \in 0 .. SwitchIterations,
           counter' \in [{1, 2} -> Word],
           NEW t \in {1, 2}, NEW label \in {"count", "measure", "relinquish"},
           pc' = [pc EXCEPT ![t] = label],
           HighsTurn' \/ LowsTurn'
    PROVE  SwitchInv'
<1>1. KernelInv' /\ UNCHANGED <<state, level, ready>>
  BY SameKernel DEF SwitchInv, kernel
<1>2. Ranks' /\ Started'
  BY <1>1 DEF SwitchInv, Ranks, Started
<1>3. SwitchTypeOK'
  <2>1. pc' \in [Task -> SwitchLabel]
    BY DEF SwitchInv, SwitchTypeOK, SwitchLabel
  <2>2. calls' \in 0 .. 7 /\ last_count' \in Word
    BY DEF SwitchInv, SwitchTypeOK
  <2>3. pmu_done' \in BOOLEAN
    BY DEF SwitchInv, SwitchTypeOK
  <2>4. QED
    BY <1>1, <2>1, <2>2, <2>3 DEF KernelInv, SwitchTypeOK
<1>4. ReporterLabels'
  BY SwitchNames DEF SwitchInv, SwitchTypeOK, ReporterLabels
<1>5. QED
  BY <1>1, <1>2, <1>3, <1>4 DEF SwitchInv

\* What a step leaves of the turn when it does not concern it.
LEMMA TurnKept ==
    ASSUME SwitchInv, HighsTurn \/ LowsTurn,
           UNCHANGED <<logIndex, point, global_pmu_index, counter>>,
           pc'[1] = pc[1], pc'[2] = pc[2],
           calls' # calls => HighFirst' /\ HighFirst /\ calls # 7,
           calls' = calls => ready'[5] = ready[5]
    PROVE  HighsTurn' \/ LowsTurn'
<1>1. /\ Complete(logIndex)' <=> Complete(logIndex)
      /\ Switch!CurrentName' = Switch!CurrentName
  BY DEF Complete, Switch!CurrentName
<1>2. (Opened' <=> Opened) /\ (Closed' <=> Closed)
  BY <1>1 DEF Opened, Closed
<1>3. CASE calls' = calls
  BY <1>2, <1>3 DEF HighsTurn, HighFirst, LowsTurn
<1>4. CASE calls' # calls
  BY <1>2, <1>4 DEF HighsTurn, LowsTurn
<1>5. QED
  BY <1>3, <1>4

LEMMA PairCount == ASSUME Port # "FreeRTOS", SwitchInv, NEW t, Switch!Count(t) PROVE SwitchInv'
<1>1. /\ t \in {1, 2} /\ Runs(t) /\ pc[t] = "count"
      /\ counter' = [counter EXCEPT ![t] = Inc(@)]
      /\ pc' = [pc EXCEPT ![t] = IF t = 1 THEN "measure" ELSE "relinquish"]
      /\ UNCHANGED <<kernel, calls, last_count, pmu_done>>
      /\ UNCHANGED <<logIndex, point, global_pmu_index>>
  BY SwitchServices, SwitchNames
  DEF Switch!Count, Switch!Goto, Switch!kernel, kernel, Switch!pmu, Switch!report
<1>2. /\ pc \in [Task -> SwitchLabel]
      /\ counter \in [{1, 2} -> Word] /\ PmuTypeOK
      /\ global_pmu_index \in 0 .. SwitchIterations
  BY DEF SwitchInv, SwitchTypeOK
<1>3. counter[t] \in Word /\ Inc(counter[t]) \in Word
  BY <1>1, <1>2, IncType
<1>4. counter' \in [{1, 2} -> Word] /\ PmuTypeOK' /\ global_pmu_index' \in 0 .. SwitchIterations
  BY <1>1, <1>2, <1>3 DEF PmuTypeOK
<1>5. (Opened' <=> Opened) /\ (Closed' <=> Closed)
  BY <1>1 DEF Opened, Closed, Complete, Switch!CurrentName
<1>6. 1 \in Task /\ 2 \in Task /\ ready' = ready
  BY <1>1, SwitchNames DEF kernel
<1>7. HighsTurn' \/ LowsTurn'
  <2>1. CASE t = 1
    <3>1. HighsTurn /\ calls = 7 /\ ready[5] = <<1, 2>>
      BY <1>1, <2>1, PairRuns
    <3>2. /\ pc'[1] = "measure" /\ pc'[2] = pc[2]
          /\ counter'[1] = Inc(counter[1]) /\ counter'[2] = counter[2]
      BY <1>1, <1>2, <1>6, <2>1
    <3>3. QED
      BY <1>1, <1>5, <1>6, <2>1, <3>1, <3>2 DEF HighsTurn, HighFirst
  <2>2. CASE t = 2
    <3>1. LowsTurn
      BY <1>1, <2>2, PairRuns
    <3>2. /\ pc'[2] = "relinquish" /\ pc'[1] = pc[1]
          /\ counter'[2] = Inc(counter[2]) /\ counter'[1] = counter[1]
      BY <1>1, <1>2, <1>6, <2>2
    <3>3. QED
      BY <1>1, <1>5, <1>6, <2>2, <3>1, <3>2 DEF LowsTurn
  <2>3. QED
    BY <1>1, <2>1, <2>2
<1>8. PICK label \in {"count", "measure", "relinquish"} : pc' = [pc EXCEPT ![t] = label]
  BY <1>1
<1>9. QED
  BY <1>1, <1>4, <1>7, <1>8, PairFrame

LEMMA PairStart == ASSUME Port # "FreeRTOS", SwitchInv, Switch!StartMeasurement PROVE SwitchInv'
<1>1. /\ Runs(1) /\ pc[1] = "measure" /\ pc' = [pc EXCEPT ![1] = "relinquish"]
      /\ UNCHANGED <<kernel, calls, last_count, pmu_done, counter>>
      /\ HighsTurn /\ calls = 7 /\ ready[5] = <<1, 2>>
  <2>1. Runs(1)
    BY SwitchServices, SwitchNames DEF Switch!StartMeasurement
  <2>2. QED
    BY <2>1, PairRuns, SwitchNames
    DEF Switch!StartMeasurement, Switch!Goto, Switch!kernel, kernel, Switch!report
<1>2. /\ pc \in [Task -> SwitchLabel] /\ PmuTypeOK /\ counter \in [{1, 2} -> Word]
      /\ global_pmu_index \in 0 .. SwitchIterations
  BY DEF SwitchInv, SwitchTypeOK
<1>3. /\ 1 \in Task /\ 2 \in Task /\ ready' = ready
      /\ SwitchIterations \in Nat /\ SwitchIterations <= MaxLogEntries /\ MaxLogEntries \in Nat
  BY <1>1, SwitchNames DEF kernel
<1>4. pc'[1] = "relinquish" /\ pc'[2] = "measure" /\ counter[1] = Inc(counter[2]) /\ Closed
  BY <1>1, <1>2, <1>3 DEF HighsTurn
<1>5. /\ PmuTypeOK' /\ global_pmu_index' \in 0 .. SwitchIterations /\ Opened'
  <2>1. CASE global_pmu_index = 0
    <3>1. UNCHANGED <<logIndex, point, global_pmu_index>>
      BY <2>1 DEF Switch!StartMeasurement, Switch!pmu
    <3>2. QED
      BY <1>2, <1>4, <2>1, <3>1 DEF Closed, Opened, Complete, Switch!CurrentName, PmuTypeOK
  <2>2. CASE global_pmu_index # 0
    <3>1. /\ global_pmu_index' = global_pmu_index - 1 /\ logIndex' = logIndex
          /\ point' = IF logIndex \in Entry
                      THEN [point EXCEPT ![logIndex].name = Switch!CurrentName']
                      ELSE point
      BY <2>2 DEF Switch!StartMeasurement, Switch!tm_pmu_profile_start, Switch!Entry, Entry
    <3>2. /\ global_pmu_index' \in 0 .. SwitchIterations
          /\ Switch!CurrentName' = logIndex + 1 /\ Complete(logIndex)
          /\ logIndex \in Nat /\ logIndex + 1 \in Nat /\ logIndex < SwitchIterations
      BY <1>2, <1>3, <1>4, <2>2, <3>1 DEF Closed, Switch!CurrentName
    <3>3. logIndex \in Entry
      BY <1>3, <3>2 DEF Entry
    <3>4. /\ PmuTypeOK' /\ point'[logIndex].name = logIndex + 1
          /\ \A e \in Entry : e # logIndex => point'[e] = point[e]
      BY <1>2, <3>1, <3>2, <3>3 DEF PmuTypeOK, Name
    <3>5. Complete(logIndex)'
      BY <3>1, <3>2, <3>4 DEF Complete, Entry
    <3>6. QED
      BY <3>1, <3>2, <3>4, <3>5 DEF Opened
  <2>3. QED
    BY <2>1, <2>2
<1>6. HighsTurn'
  BY <1>1, <1>3, <1>4, <1>5 DEF HighsTurn, HighFirst
<1>7. counter' \in [{1, 2} -> Word]
  BY <1>1, <1>2
<1>8. QED
  BY <1>1, <1>5, <1>6, <1>7, PairFrame

LEMMA PairEnd == ASSUME Port # "FreeRTOS", SwitchInv, Switch!EndMeasurement PROVE SwitchInv'
<1>1. /\ Runs(2) /\ pc[2] = "measure" /\ pc' = [pc EXCEPT ![2] = "count"]
      /\ UNCHANGED <<kernel, calls, last_count, pmu_done, counter, global_pmu_index>>
      /\ LowsTurn
  <2>1. Runs(2)
    BY SwitchServices, SwitchNames DEF Switch!EndMeasurement
  <2>2. QED
    BY <2>1, PairRuns, SwitchNames
    DEF Switch!EndMeasurement, Switch!Goto, Switch!kernel, kernel, Switch!report
<1>2. /\ pc \in [Task -> SwitchLabel] /\ PmuTypeOK /\ counter \in [{1, 2} -> Word]
      /\ global_pmu_index \in 0 .. SwitchIterations
  BY DEF SwitchInv, SwitchTypeOK
<1>3. /\ 1 \in Task /\ 2 \in Task /\ ready' = ready
      /\ SwitchIterations \in Nat /\ SwitchIterations <= MaxLogEntries /\ MaxLogEntries \in Nat
  BY <1>1, SwitchNames DEF kernel
<1>4. pc'[2] = "count" /\ pc'[1] = "count" /\ counter[1] = Inc(counter[2]) /\ Opened
  BY <1>1, <1>2, <1>3 DEF LowsTurn
<1>5. PmuTypeOK' /\ Closed'
  <2>1. CASE global_pmu_index = 0
    <3>1. UNCHANGED <<logIndex, point, global_pmu_index>>
      BY <1>1, <2>1 DEF Switch!EndMeasurement, Switch!pmu
    <3>2. QED
      BY <1>2, <1>4, <2>1, <3>1 DEF Closed, Opened, Complete, Switch!CurrentName, PmuTypeOK
  <2>2. CASE global_pmu_index # 0
    <3>1. /\ Switch!CurrentName = logIndex + 1 /\ Switch!CurrentName' = Switch!CurrentName
          /\ logIndex \in Nat /\ logIndex + 1 \in 0 .. MaxLogEntries
          /\ Complete(logIndex) /\ point[logIndex].name = logIndex + 1
      BY <1>1, <1>2, <1>3, <1>4 DEF Opened, Switch!CurrentName
    <3>2. logIndex \in Entry
      BY <1>3, <3>1 DEF Entry
    <3>3. /\ point' = [point EXCEPT ![logIndex].ended = logIndex + 1]
          /\ logIndex' = logIndex + 1
      BY <2>2, <3>1, <3>2
      DEF Switch!EndMeasurement, Switch!tm_pmu_profile_end, Switch!Entry, Entry
    <3>4. /\ PmuTypeOK' /\ point'[logIndex].name = logIndex + 1
          /\ point'[logIndex].ended = logIndex + 1
          /\ \A e \in Entry : e # logIndex => point'[e] = point[e]
      BY <1>2, <3>1, <3>2, <3>3 DEF PmuTypeOK, Name
    <3>5. Complete(logIndex)'
      BY <1>3, <3>1, <3>3, <3>4 DEF Complete, Entry
    <3>6. QED
      BY <1>1, <2>2, <3>1, <3>3, <3>4, <3>5 DEF Closed
  <2>3. QED
    BY <2>1, <2>2
<1>6. LowsTurn'
  BY <1>1, <1>3, <1>4, <1>5 DEF LowsTurn
<1>7. counter' \in [{1, 2} -> Word] /\ global_pmu_index' \in 0 .. SwitchIterations
  BY <1>1, <1>2
<1>8. QED
  BY <1>1, <1>5, <1>6, <1>7, PairFrame

LEMMA FirstGoesLast ==
    ASSUME NEW a \in Task, NEW b \in Task
    PROVE  Append(Tail(<<a, b>>), a) = <<b, a>>
<1> DEFINE q == <<a, b>>
           p == Tail(q)
           r == Append(p, a)
<1>1. q \in Seq(Task) /\ Len(q) = 2 /\ q[1] = a /\ q[2] = b
  OBVIOUS
<1>2. <<b, a>> \in Seq(Task) /\ Len(<<b, a>>) = 2 /\ <<b, a>>[1] = b /\ <<b, a>>[2] = a
  OBVIOUS
<1> HIDE DEF q
<1>3. /\ p \in Seq(Task) /\ Len(p) = Len(q) - 1
      /\ \A i \in 1 .. Len(q) - 1 : p[i] = q[i + 1]
  BY <1>1, TailElements
<1> HIDE DEF p
<1>4. Len(p) = 1 /\ p[1] = b
  BY <1>1, <1>3
<1>5. /\ r \in Seq(Task) /\ Len(r) = Len(p) + 1 /\ r[Len(p) + 1] = a
      /\ \A i \in 1 .. Len(p) : r[i] = p[i]
  BY <1>3, AppendElements
<1> HIDE DEF r
<1>6. Len(r) = 2 /\ r[1] = b /\ r[2] = a
  BY <1>4, <1>5
<1>7. \A i \in 1 .. Len(r) : r[i] = <<b, a>>[i]
  BY <1>2, <1>6
<1>8. r = <<b, a>>
  BY <1>2, <1>5, <1>6, <1>7, SeqEqual
<1>9. QED
  BY <1>8 DEF q, p, r

LEMMA PairRelinquish ==
    ASSUME Port # "FreeRTOS", SwitchInv, NEW t \in Thread, Switch!Relinquish(t)
    PROVE  SwitchInv'
<1>1. /\ Runs(t) /\ pc[t] = "relinquish" /\ tm_thread_relinquish(t) /\ t \in Task
      /\ pc' = [pc EXCEPT ![t] = IF t = 1 THEN "count" ELSE "measure"]
      /\ UNCHANGED <<calls, last_count, pmu_done, counter, global_pmu_index, logIndex, point>>
  BY SwitchServices, SwitchNames
  DEF Switch!Relinquish, Switch!Goto, Switch!pmu, Switch!report, Task
<1>2. /\ pc \in [Task -> SwitchLabel] /\ PmuTypeOK /\ counter \in [{1, 2} -> Word]
      /\ global_pmu_index \in 0 .. SwitchIterations /\ calls \in 0 .. 7 /\ last_count \in Word
  BY DEF SwitchInv, SwitchTypeOK
<1>3. pmu_done' \in BOOLEAN
  BY <1>1 DEF SwitchInv, SwitchTypeOK
<1>4. KernelInv' /\ UNCHANGED <<state, level>>
  BY <1>1, RelinquishKernel DEF SwitchInv, tm_thread_relinquish
<1>5. SwitchTypeOK'
  <2>1. pc' \in [Task -> SwitchLabel]
    BY <1>1, <1>2 DEF SwitchLabel
  <2>2. /\ PmuTypeOK' /\ counter' \in [{1, 2} -> Word] /\ KernelTypeOK'
        /\ global_pmu_index' \in 0 .. SwitchIterations /\ calls' \in 0 .. 7
        /\ last_count' \in Word
    BY <1>1, <1>2, <1>4 DEF PmuTypeOK, KernelInv
  <2>3. QED
    BY <1>3, <2>1, <2>2 DEF SwitchTypeOK
<1>6. Ranks' /\ Started'
  BY <1>1, <1>4 DEF SwitchInv, Ranks, Started
<1>7. (Opened' <=> Opened) /\ (Closed' <=> Closed)
  BY <1>1 DEF Opened, Closed, Complete, Switch!CurrentName
<1>8. 1 \in Task /\ 2 \in Task /\ 5 \in Level /\ t \in {1, 2, 3}
  BY SwitchNames
<1>9. ReporterLabels'
  <2>1. t # 3 /\ 3 \in Task
    BY <1>1, SwitchNames DEF SwitchInv, ReporterLabels
  <2>2. QED
    BY <1>1, <1>2, <2>1 DEF SwitchInv, ReporterLabels
<1>10. HighsTurn' \/ LowsTurn'
  <2>1. CASE t = 1
    <3>1. HighsTurn /\ calls = 7 /\ ready[5] = <<1, 2>> /\ level[1] = 5
      BY <1>1, <2>1, PairRuns
    <3>2. ready'[5] = Append(Tail(<<1, 2>>), 1)
      BY <1>1, <1>8, <2>1, <3>1 DEF tm_thread_relinquish, SwitchInv, KernelInv, KernelTypeOK
    <3>3. Append(Tail(<<1, 2>>), 1) = <<2, 1>>
      BY <1>8, FirstGoesLast
    <3>4. pc'[1] = "count" /\ pc'[2] = pc[2]
      BY <1>1, <1>2, <1>8, <2>1
    <3>5. LowsTurn'
      BY <1>1, <1>7, <2>1, <3>1, <3>2, <3>3, <3>4 DEF HighsTurn, LowsTurn
    <3>6. QED
      BY <3>5
  <2>2. CASE t = 2
    <3>1. LowsTurn /\ level[2] = 5
      BY <1>1, <2>2, PairRuns
    <3>2. ready'[5] = Append(Tail(<<2, 1>>), 2)
      BY <1>1, <1>8, <2>2, <3>1
      DEF tm_thread_relinquish, LowsTurn, SwitchInv, KernelInv, KernelTypeOK
    <3>3. Append(Tail(<<2, 1>>), 2) = <<1, 2>>
      BY <1>8, FirstGoesLast
    <3>4. pc'[2] = "measure" /\ pc'[1] = pc[1]
      BY <1>1, <1>2, <1>8, <2>2
    <3>5. HighsTurn'
      BY <1>1, <1>7, <2>2, <3>1, <3>2, <3>3, <3>4 DEF HighsTurn, HighFirst, LowsTurn
    <3>6. QED
      BY <3>5
  <2>3. CASE t = 3
    <3>1. pc[3] # "relinquish"
      BY DEF SwitchInv, ReporterLabels
    <3>2. QED
      BY <1>1, <2>3, <3>1
  <2>4. QED
    BY <1>8, <2>1, <2>2, <2>3
<1>11. QED
  BY <1>4, <1>5, <1>6, <1>9, <1>10 DEF SwitchInv

LEMMA SecondJoins ==
    ASSUME NEW a \in Task, NEW b \in Task
    PROVE  Append(<<a>>, b) = <<a, b>>
<1> DEFINE p == <<a>>
           r == Append(p, b)
<1>1. p \in Seq(Task) /\ Len(p) = 1 /\ p[1] = a
  OBVIOUS
<1>2. <<a, b>> \in Seq(Task) /\ Len(<<a, b>>) = 2 /\ <<a, b>>[1] = a /\ <<a, b>>[2] = b
  OBVIOUS
<1> HIDE DEF p
<1>3. /\ r \in Seq(Task) /\ Len(r) = Len(p) + 1 /\ r[Len(p) + 1] = b
      /\ \A i \in 1 .. Len(p) : r[i] = p[i]
  BY <1>1, AppendElements
<1> HIDE DEF r
<1>4. Len(r) = 2 /\ r[1] = a /\ r[2] = b
  BY <1>1, <1>3
<1>5. \A i \in 1 .. Len(r) : r[i] = <<a, b>>[i]
  BY <1>2, <1>4
<1>6. r = <<a, b>>
  BY <1>2, <1>3, <1>4, <1>5, SeqEqual
<1>7. QED
  BY <1>6 DEF p, r

LEMMA SwitchInitialize ==
    ASSUME Port # "FreeRTOS", SwitchInv, Switch!Initialize
    PROVE  SwitchInv'
<1>1. /\ Runs(Main) /\ calls' = calls + 1 /\ calls \in 0 .. 6 /\ calls \in Nat
      /\ UNCHANGED <<logIndex, point, pc, global_pmu_index, counter, last_count, pmu_done>>
      /\ \/ calls < 3 /\ tm_thread_create(calls + 1, <<5, 5, 2>>[calls + 1])
         \/ calls \in 3 .. 5 /\ tm_thread_resume(calls - 2)
         \/ calls = 6 /\ Return(Main)
  BY SwitchServices DEF Switch!Initialize, Switch!pmu, Switch!report, SwitchInv, SwitchTypeOK
<1>2. Main \in Task /\ state[Main] = "ready" /\ level[Main] = 1
  BY <1>1 DEF Task, Runs, SwitchInv, Ranks
<1>3. /\ pc \in [Task -> SwitchLabel] /\ PmuTypeOK /\ counter \in [{1, 2} -> Word]
      /\ global_pmu_index \in 0 .. SwitchIterations /\ last_count \in Word
  BY DEF SwitchInv, SwitchTypeOK
<1>4. pmu_done' \in BOOLEAN
  BY <1>1 DEF SwitchInv, SwitchTypeOK
<1>5. HighFirst /\ calls # 7
  BY <1>1 DEF SwitchInv, HighsTurn, LowsTurn
<1>6. ASSUME KernelInv', Ranks', Started', HighFirst' PROVE SwitchInv'
  <2>1. SwitchTypeOK'
    <3>1. calls' \in 0 .. 7 /\ PmuTypeOK' /\ KernelTypeOK'
      BY <1>1, <1>3, <1>6 DEF PmuTypeOK, KernelInv
    <3>2. QED
      BY <1>1, <1>3, <1>4, <3>1 DEF SwitchTypeOK
  <2>2. ReporterLabels'
    BY <1>1 DEF SwitchInv, ReporterLabels
  <2>3. HighsTurn' \/ LowsTurn'
    BY <1>1, <1>5, <1>6, TurnKept DEF SwitchInv
  <2>4. QED
    BY <1>6, <2>1, <2>2, <2>3 DEF SwitchInv
<1>7. /\ state \in [Task -> State] /\ level \in [Task -> Level] /\ ready \in [Level -> Seq(Task)]
      /\ 1 \in Level /\ 2 \in Level /\ 5 \in Level
      /\ Thread = {1, 2, 3} /\ Main \notin {1, 2, 3} /\ Task = {1, 2, 3, Main}
  BY SwitchNames DEF SwitchInv, KernelInv, KernelTypeOK
<1>8. CASE calls < 3
  <2>1. PICK t \in Thread : t = calls + 1
    BY <1>1, <1>7, <1>8
  <2>2. tm_thread_create(t, <<5, 5, 2>>[t])
    BY <1>1, <1>8, <2>1
  <2>3. <<5, 5, 2>>[t] \in 1 .. 31 /\ t \in Task /\ t # Main
    BY <1>7
  <2>4. KernelInv'
    BY <2>2, <2>3, CreateKernel DEF SwitchInv
  <2>5. /\ state[t] = "absent" /\ state' = [state EXCEPT ![t] = "suspended"]
        /\ level' = [level EXCEPT ![t] = <<5, 5, 2>>[t]] /\ ready' = ready
    BY <2>2, PortAssumption
    DEF tm_thread_create, threadx_thread_create, zephyr_thread_create, AddSuspended
  <2>6. Ranks'
    BY <1>2, <1>7, <2>3, <2>5 DEF SwitchInv, Ranks
  <2>7. Started'
    <3>1. state'[Main] = "ready" /\ calls' <= 6
      BY <1>1, <1>2, <1>7, <1>8, <2>3, <2>5
    <3>2. \A u \in {1, 2} : state'[u] = IF u = t THEN "suspended" ELSE state[u]
      BY <1>7, <2>5
    <3>3. \A u \in {1, 2} : state'[u] = IF calls' < u THEN "absent"
                                        ELSE IF calls' < u + 3 THEN "suspended"
                                        ELSE "ready"
      BY <1>1, <1>8, <2>1, <3>2 DEF SwitchInv, Started
    <3>4. QED
      BY <3>1, <3>3 DEF Started
  <2>8. HighFirst'
    BY <1>1, <1>5, <1>8, <2>5 DEF HighFirst
  <2>9. QED
    BY <1>6, <2>4, <2>6, <2>7, <2>8
<1>9. CASE calls \in 3 .. 5
  <2>1. PICK t \in Thread : t = calls - 2
    BY <1>1, <1>7, <1>9
  <2>2. tm_thread_resume(t) /\ t \in Task /\ t # Main
    BY <1>1, <1>7, <1>9, <2>1
  <2>3. /\ KernelInv' /\ level' = level
        /\ state' = IF state[t] = "suspended" THEN [state EXCEPT ![t] = "ready"] ELSE state
    BY <2>2, ResumeKernel DEF SwitchInv
  <2>4. Ranks'
    BY <1>7, <2>2, <2>3 DEF SwitchInv, Ranks
  <2>5. t \in {1, 2} => state[t] = "suspended" /\ level[t] = 5
    BY <1>7, <1>9, <2>1 DEF SwitchInv, Started, Ranks
  <2>6. Started'
    <3>1. state'[Main] = "ready" /\ calls' <= 6
      BY <1>1, <1>2, <1>7, <1>9, <2>2, <2>3
    <3>2. \A u \in {1, 2} : state'[u] = IF u = t THEN "ready" ELSE state[u]
      BY <1>7, <2>3, <2>5
    <3>3. \A u \in {1, 2} : state'[u] = IF calls' < u THEN "absent"
                                        ELSE IF calls' < u + 3 THEN "suspended"
                                        ELSE "ready"
      BY <1>1, <1>9, <2>1, <3>2 DEF SwitchInv, Started
    <3>4. QED
      BY <3>1, <3>3 DEF Started
  <2>7. HighFirst'
    <3>1. CASE t \in {1, 2}
      <4>1. MakeReady(t)
        BY <2>2, <2>5, <3>1 DEF tm_thread_resume
      <4>2. ready'[5] = Append(ready[5], t)
        BY <1>7, <2>5, <3>1, <4>1 DEF MakeReady
      <4>3. CASE t = 1
        <5>1. calls = 3 /\ calls' = 4 /\ ready[5] = << >>
          BY <1>1, <1>5, <2>1, <4>3 DEF HighFirst
        <5>2. Append(<< >>, 1) = <<1>>
          BY <1>7, Singleton
        <5>3. QED
          BY <4>2, <4>3, <5>1, <5>2 DEF HighFirst
      <4>4. CASE t = 2
        <5>1. calls = 4 /\ calls' = 5 /\ ready[5] = <<1>>
          BY <1>1, <1>5, <2>1, <4>4 DEF HighFirst
        <5>2. Append(<<1>>, 2) = <<1, 2>>
          BY <1>7, SecondJoins
        <5>3. QED
          BY <4>2, <4>4, <5>1, <5>2 DEF HighFirst
      <4>5. QED
        BY <3>1, <4>3, <4>4
    <3>2. CASE t = 3
      <4>1. calls = 5 /\ calls' = 6 /\ ready[5] = <<1, 2>>
        BY <1>1, <1>5, <2>1, <3>2 DEF HighFirst
      <4>2. state[3] = "suspended" => level[3] = 2
        BY <1>7 DEF SwitchInv, Ranks
      <4>3. ready'[5] = ready[5]
        BY <1>7, <2>2, <3>2, <4>2 DEF tm_thread_resume, MakeReady, kernel
      <4>4. QED
        BY <4>1, <4>3 DEF HighFirst
    <3>3. QED
      BY <1>7, <3>1, <3>2
  <2>8. QED
    BY <1>6, <2>3, <2>4, <2>6, <2>7
<1>10. CASE calls = 6
  <2>1. Block(Main, "done")
    BY <1>1, <1>10 DEF Return
  <2>2. KernelInv'
    BY <1>1, <1>2, <2>1, LeavesFirst DEF SwitchInv, State
  <2>3. /\ level' = level /\ ready'[5] = ready[5]
        /\ \A u \in Thread : state'[u] = state[u]
    BY <1>2, <1>7, <2>1 DEF Block
  <2>4. Ranks'
    BY <2>3 DEF SwitchInv, Ranks
  <2>5. Started'
    BY <1>1, <1>7, <1>10, <2>3 DEF SwitchInv, Started
  <2>6. HighFirst'
    BY <1>1, <1>5, <1>10, <2>3 DEF HighFirst
  <2>7. QED
    BY <1>6, <2>2, <2>4, <2>5, <2>6
<1>11. QED
  BY <1>1, <1>8, <1>9, <1>10

\* The reporter is in another list than the pair.
LEMMA SwitchReporter ==
    ASSUME Port # "FreeRTOS", SwitchInv,
           Switch!Sleep \/ (Wake /\ UNCHANGED switchvars) \/ Switch!Report
    PROVE  SwitchInv'
<1>1. /\ state \in [Task -> State] /\ level \in [Task -> Level] /\ ready \in [Level -> Seq(Task)]
      /\ 2 \in Level /\ 5 \in Level /\ Reporter = 3 /\ Switch!Reporter = 3
      /\ Thread = {1, 2, 3} /\ Main \notin {1, 2, 3} /\ Task = {1, 2, 3, Main}
      /\ calls \in 0 .. 7 /\ PmuTypeOK /\ counter \in [{1, 2} -> Word]
      /\ global_pmu_index \in 0 .. SwitchIterations /\ pc \in [Task -> SwitchLabel]
  BY SwitchNames DEF SwitchInv, SwitchTypeOK, KernelInv, KernelTypeOK, Reporter
<1>2. /\ UNCHANGED <<logIndex, point, calls, global_pmu_index, counter>>
      /\ \/ pc' = pc
         \/ \E label \in {"sleep", "report"} : pc' = [pc EXCEPT ![3] = label]
  BY <1>1 DEF Switch!Sleep, Wake, Switch!Report, Switch!Goto, Switch!pmu, Switch!report,
     pmu, switchvars
<1>3. pc' \in [Task -> SwitchLabel] /\ pc'[1] = pc[1] /\ pc'[2] = pc[2] /\ ReporterLabels'
  BY <1>1, <1>2 DEF SwitchLabel, SwitchInv, ReporterLabels
<1>4. last_count' \in Word /\ pmu_done' \in BOOLEAN
  <2>1. CASE Switch!Report
    <3>1. last_count' = Switch!Plus(counter[1], counter[2])
      BY <2>1, SwitchNames DEF Switch!Report
    <3>2. Switch!Plus(counter[1], counter[2]) = Plus(counter[1], counter[2])
      BY DEF Switch!Plus, Plus
    <3>3. last_count' \in Word
      BY <1>1, <3>1, <3>2, PlusType
    <3>4. pmu_done' \in BOOLEAN
      BY <2>1 DEF Switch!Report
    <3>5. QED
      BY <3>3, <3>4
  <2>2. CASE Switch!Sleep \/ (Wake /\ UNCHANGED switchvars)
    <3>1. last_count' = last_count
      BY <2>2 DEF Switch!Sleep, Switch!report, switchvars
    <3>2. pmu_done' = pmu_done
      BY <2>2 DEF Switch!Sleep, Switch!report, switchvars
    <3>3. last_count' \in Word
      BY <3>1 DEF SwitchInv, SwitchTypeOK
    <3>4. pmu_done' \in BOOLEAN
      BY <3>2 DEF SwitchInv, SwitchTypeOK
    <3>5. QED
      BY <3>3, <3>4
  <2>3. QED
    BY <2>1, <2>2
<1>5. /\ KernelInv' /\ level' = level /\ ready'[5] = ready[5]
      /\ \A u \in Task : u # 3 => state'[u] = state[u]
      /\ state[3] # "absent"
  <2>1. state[3] # "absent" => level[3] = 2
    BY <1>1 DEF SwitchInv, Ranks
  <2>2. CASE Switch!Sleep
    <3>1. Runs(3) /\ Block(3, "asleep")
      BY <2>2, SwitchServices, SwitchNames DEF Switch!Sleep, tm_thread_sleep
    <3>2. KernelInv'
      BY <1>1, <3>1, LeavesFirst DEF SwitchInv, State
    <3>3. state[3] = "ready"
      BY <3>1 DEF Runs
    <3>4. QED
      BY <1>1, <2>1, <3>1, <3>2, <3>3 DEF Block
  <2>3. CASE Wake
    <3>1. state[3] = "asleep" /\ MakeReady(3)
      BY <1>1, <2>3 DEF Wake, TickWakes
    <3>2. KernelInv'
      BY <1>1, <3>1, MakeReadyKernel DEF SwitchInv
    <3>3. QED
      BY <1>1, <2>1, <3>1, <3>2 DEF MakeReady
  <2>4. CASE Switch!Report
    <3>1. UNCHANGED kernel /\ Runs(3)
      BY <2>4, SwitchServices, SwitchNames DEF Switch!Report, Switch!kernel, kernel
    <3>2. KernelInv'
      BY <3>1, SameKernel DEF SwitchInv
    <3>3. QED
      BY <3>1, <3>2 DEF kernel, Runs
  <2>5. QED
    BY <2>2, <2>3, <2>4
<1>6. SwitchTypeOK'
  <2>1. PmuTypeOK' /\ KernelTypeOK'
    BY <1>1, <1>2, <1>5 DEF PmuTypeOK, KernelInv
  <2>2. QED
    BY <1>1, <1>2, <1>3, <1>4, <2>1 DEF SwitchTypeOK
<1>7. Ranks' /\ Started'
  BY <1>1, <1>2, <1>5 DEF SwitchInv, Ranks, Started
<1>8. HighsTurn' \/ LowsTurn'
  BY <1>2, <1>3, <1>5, TurnKept DEF SwitchInv
<1>9. QED
  BY <1>3, <1>5, <1>6, <1>7, <1>8 DEF SwitchInv

LEMMA SwitchPair ==
    ASSUME Port # "FreeRTOS", SwitchInv, Switch!SwitchStep
    PROVE  SwitchInv'
  BY PairCount, PairRelinquish, PairStart, PairEnd DEF Switch!SwitchStep

LEMMA SwitchStutters ==
    ASSUME SwitchInv, UNCHANGED <<vars, switchvars>>
    PROVE  SwitchInv'
<1>1. /\ UNCHANGED <<kernel, logIndex, point, calls, pc, global_pmu_index, counter>>
      /\ UNCHANGED <<last_count, pmu_done>>
  BY DEF vars, switchvars, pmu
<1>2. KernelInv' /\ UNCHANGED <<state, level, ready>>
  BY <1>1, SameKernel DEF SwitchInv, kernel
<1>3. SwitchTypeOK'
  <2>1. pmu_done' \in BOOLEAN
    BY <1>1 DEF SwitchInv, SwitchTypeOK
  <2>2. QED
    BY <1>1, <1>2, <2>1 DEF SwitchInv, SwitchTypeOK, KernelInv, PmuTypeOK
<1>4. Ranks' /\ Started' /\ ReporterLabels'
  BY <1>1, <1>2 DEF SwitchInv, Ranks, Started, ReporterLabels
<1>5. HighsTurn' \/ LowsTurn'
  BY <1>1, <1>2, TurnKept DEF SwitchInv
<1>6. QED
  BY <1>2, <1>3, <1>4, <1>5 DEF SwitchInv

\* In both turns every finished entry has one name, one more than its index.
LEMMA SwitchEntries ==
    ASSUME SwitchInv
    PROVE  /\ Complete(logIndex)
           /\ Switch!CurrentName \in 0 .. SwitchIterations
           /\ logIndex \in {Switch!CurrentName, Switch!CurrentName - 1}
<1>1. global_pmu_index \in 0 .. SwitchIterations /\ SwitchIterations \in Nat
  BY SwitchNames DEF SwitchInv, SwitchTypeOK
<1>2. QED
  BY <1>1 DEF SwitchInv, HighsTurn, LowsTurn, Opened, Closed, Switch!CurrentName

LEMMA SwitchLogs == ASSUME SwitchInv PROVE Switch!SwitchesLogged
<1> SUFFICES ASSUME NEW n \in 1 .. Switch!CurrentName - 1
             PROVE  Switch!Found(n) # {} /\ point[Switch!Printed(n)].ended = n
  BY DEF Switch!SwitchesLogged
<1>1. Switch!Found(n) = Found(n) /\ Switch!Printed(n) = Printed(n)
  BY DEF Switch!Found, Found, Switch!Printed, Printed, Switch!Entry, Entry
<1>2. /\ Switch!CurrentName \in Nat /\ Switch!CurrentName <= MaxLogEntries
      /\ MaxLogEntries \in Nat /\ n \in Nat
      /\ logIndex \in {Switch!CurrentName, Switch!CurrentName - 1}
  BY SwitchEntries, SwitchNames
<1>3. n - 1 \in Entry /\ n - 1 < logIndex
  BY <1>2 DEF Entry
<1>4. n - 1 \in Found(n)
  BY <1>2, <1>3, SwitchEntries DEF Complete, Found
<1>5. Found(n) \in SUBSET Nat
  BY MaxLogEntriesAssumption DEF Found, Entry
<1>6. \E m \in Found(n) : \A k \in Found(n) : m <= k
  BY <1>4, <1>5, LeastExists
<1>7. Printed(n) \in Found(n)
  BY <1>6 DEF Printed
<1>8. QED
  BY <1>1, <1>4, <1>7, SwitchEntries DEF Found, Complete

LEMMA SwitchPrints == ASSUME SwitchInv PROVE PrintsMatch
<1> SUFFICES ASSUME NEW n \in 0 .. IterationCount - 1, Found(n) # {}
             PROVE  point[Printed(n)].ended = n
  BY DEF PrintsMatch
<1>1. Found(n) \in SUBSET Nat
  BY MaxLogEntriesAssumption DEF Found, Entry
<1>2. \E m \in Found(n) : \A k \in Found(n) : m <= k
  BY <1>1, LeastExists
<1>3. Printed(n) \in Found(n)
  BY <1>2 DEF Printed
<1>4. QED
  BY <1>3, SwitchEntries DEF Found, Complete

-----------------------------------------------------------------------------
(* The two builds together.                                                *)

MCInv ==
    \/ build = "semaphores" /\ SyncInv
    \/ build = "relinquish" /\ SwitchInv

LEMMA BuildInit == ASSUME Port # "FreeRTOS", MCInit PROVE MCInv
  BY SyncStart, SwitchInit DEF MCInit, MCInv

LEMMA BuildNext == ASSUME Port # "FreeRTOS", MCInv, [MCNext]_mcvars PROVE MCInv'
<1>1. build' = build
  BY DEF MCNext, MCMainStep, MCPairStep, MCWake, mcvars
<1>2. CASE build = "semaphores"
  <2>1. SyncInv
    BY <1>2 DEF MCInv
  <2>2. Next \/ UNCHANGED vars
    BY <1>2 DEF MCNext, MCMainStep, MCPairStep, MCWake, mcvars, Next
  <2>3. QED
    BY <1>1, <1>2, <2>1, <2>2, SyncNext DEF MCInv
<1>3. CASE build = "relinquish"
  <2>1. SwitchInv
    BY <1>3 DEF MCInv
  <2>2. \/ Switch!Initialize
        \/ Switch!Sleep \/ (Wake /\ UNCHANGED switchvars) \/ Switch!Report
        \/ Switch!SwitchStep
        \/ UNCHANGED <<vars, switchvars>>
    BY <1>3 DEF MCNext, MCMainStep, MCPairStep, MCWake, mcvars
  <2>3. SwitchInv'
    BY <2>1, <2>2, SwitchInitialize, SwitchReporter, SwitchPair, SwitchStutters
  <2>4. QED
    BY <1>1, <1>3, <2>3 DEF MCInv
<1>4. QED
  BY <1>2, <1>3 DEF MCInv

(***************************************************************************)
(* The token of the task synchronisation benchmark is kept, and the        *)
(* variables of both benchmarks have their types                           *)
(* (task_synchronization.c:163-169).                                       *)
(***************************************************************************)
THEOREM BuildTokenKept == ASSUME Port # "FreeRTOS" PROVE MCSpec => []TokenKept
<1>1. MCInit => MCInv
  BY BuildInit
<1>2. MCInv /\ [MCNext]_mcvars => MCInv'
  BY BuildNext
<1>3. MCInv => TokenKept
  BY SyncOneToken, SwitchTypes DEF MCInv, TokenKept, MCTypeOK, SyncInv, SwitchInv
<1>4. QED
  BY <1>1, <1>2, <1>3, PTL DEF MCSpec

(***************************************************************************)
(* Every yield of the context switching test but the running one is in the *)
(* log under its own name, for every number of iterations the log has      *)
(* room for (context_switching_test.c:39-44, 56-59).                       *)
(***************************************************************************)
THEOREM BuildSwitchesLogged == ASSUME Port # "FreeRTOS" PROVE MCSpec => []SwitchesLogged
<1>1. MCInit => MCInv
  BY BuildInit
<1>2. MCInv /\ [MCNext]_mcvars => MCInv'
  BY BuildNext
<1>3. MCInv => SwitchesLogged
  BY SwitchLogs DEF MCInv, SwitchesLogged
<1>4. QED
  BY <1>1, <1>2, <1>3, PTL DEF MCSpec

(***************************************************************************)
(* The report prints under a name what was started and ended under it, in  *)
(* both benchmarks.                                                        *)
(***************************************************************************)
THEOREM BuildPrintsMatch ==
    ASSUME Port # "FreeRTOS", IterationCount > 1
    PROVE  MCSpec => []PrintsMatch
<1>1. MCInit => MCInv
  BY BuildInit
<1>2. MCInv /\ [MCNext]_mcvars => MCInv'
  BY BuildNext
<1>3. MCInv => PrintsMatch
  BY SyncPrintsMatch, SwitchPrints DEF MCInv
<1>4. QED
  BY <1>1, <1>2, <1>3, PTL DEF MCSpec

-----------------------------------------------------------------------------
(* The turns of the pair.                                                  *)

\* The counters in the order of the turns, as in PairTakesTurns.
PairCounter == IF build = "semaphores" THEN <<task2_counter, task1_counter>> ELSE counter

LEMMA TwoCounters ==
    ASSUME NEW a, NEW b, NEW c
    PROVE  /\ <<a, b>>[1] = a /\ <<a, b>>[2] = b
           /\ <<0, 0>> = [t \in 1 .. 2 |-> 0]
           /\ <<c, b>> = [<<a, b>> EXCEPT ![1] = c]
           /\ <<a, c>> = [<<a, b>> EXCEPT ![2] = c]
<1>1. <<a, b>>[1] = a /\ <<a, b>>[2] = b
  OBVIOUS
<1>2. <<0, 0>> = [t \in 1 .. 2 |-> 0]
  OBVIOUS
<1>3. <<c, b>> = [<<a, b>> EXCEPT ![1] = c]
  OBVIOUS
<1>4. <<a, c>> = [<<a, b>> EXCEPT ![2] = c]
  OBVIOUS
<1>5. QED
  BY <1>1, <1>2, <1>3, <1>4

LEMMA TurnsStart == ASSUME MCInit PROVE Turns!Init
<1>1. CASE build = "semaphores" /\ Init
  BY <1>1, TwoCounters DEF Turns!Init, Init
<1>2. CASE build = "relinquish" /\ Switch!Init
  BY <1>2, SwitchNames DEF Turns!Init, Switch!Init
<1>3. QED
  BY <1>1, <1>2 DEF MCInit

\* A count of a writer is the count of its turn.
LEMMA SyncTurn ==
    ASSUME SyncInv, build = "semaphores", build' = build, [Next]_vars
    PROVE  Turns!Next \/ UNCHANGED PairCounter
<1>1. PairCounter = <<task2_counter, task1_counter>> /\ PairCounter' = <<task2_counter', task1_counter'>>
  BY DEF PairCounter
<1>2. CASE Count1
  <2>1. /\ task1_counter' = Inc(task1_counter) /\ task2_counter' = task2_counter
        /\ Runs(1) /\ pc[1] = "count"
    BY <1>2 DEF Count1
  <2>2. calls >= 3 /\ Holds(1)
    BY <2>1, RunningHolder
  <2>3. task2_counter = Inc(task1_counter)
    BY <2>1, <2>2 DEF SyncInv, InTurn, Ahead
  <2>4. Turns!Count(2)
    BY <2>1, <2>3, <1>1, TwoCounters DEF Turns!Count, Turns!Inc, Inc
  <2>5. QED
    BY <2>4 DEF Turns!Next
<1>3. CASE Count2
  <2>1. /\ task2_counter' = Inc(task2_counter) /\ task1_counter' = task1_counter
        /\ Runs(2) /\ pc[2] = "count"
    BY <1>3 DEF Count2
  <2>2. count[SEM_A] = 0 /\ Holds(2) /\ ~Holds(1)
    BY <2>1, RunningHolder
  <2>3. task2_counter = task1_counter
    BY <2>1, <2>2 DEF SyncInv, InTurn, Ahead
  <2>4. Turns!Count(1)
    BY <2>1, <2>3, <1>1, TwoCounters DEF Turns!Count, Turns!Inc, Inc
  <2>5. QED
    BY <2>4 DEF Turns!Next
<1>4. CASE ~Count1 /\ ~Count2
  <2>1. UNCHANGED <<task1_counter, task2_counter>>
    BY <1>4
    DEF Next, Initialize, WriterStep, Wait, Put, EndMeasurement, StartMeasurement, Sleep,
        Wake, Report, vars, counters
  <2>2. QED
    BY <1>1, <2>1
<1>5. QED
  BY <1>2, <1>3, <1>4

LEMMA SwitchTurn ==
    ASSUME Port # "FreeRTOS", SwitchInv, build = "relinquish", build' = build,
           \/ Switch!Initialize
           \/ Switch!Sleep \/ (Wake /\ UNCHANGED switchvars) \/ Switch!Report
           \/ Switch!SwitchStep
           \/ UNCHANGED <<vars, switchvars>>
    PROVE  Turns!Next \/ UNCHANGED PairCounter
<1>1. PairCounter = counter /\ PairCounter' = counter'
  BY DEF PairCounter
<1>2. ASSUME NEW t \in Thread, Switch!Count(t) PROVE Turns!Next
  <2>1. /\ t \in {1, 2} /\ Runs(t) /\ pc[t] = "count"
        /\ counter' = [counter EXCEPT ![t] = Inc(@)]
    BY <1>2, SwitchServices, SwitchNames DEF Switch!Count
  <2>2. CASE t = 1
    <3>1. counter[1] = counter[2]
      BY <2>1, <2>2, PairRuns DEF HighsTurn
    <3>2. Turns!Count(1)
      <4>1. counter' = [counter EXCEPT ![1] = Turns!Inc(@)]
        BY <2>1, <2>2 DEF Turns!Inc, Inc
      <4>2. /\ \A u \in 1 .. 2 : u < 1 => counter[u] = Turns!Inc(counter[1])
            /\ \A u \in 1 .. 2 : u > 1 => counter[u] = counter[1]
        BY <3>1
      <4>3. QED
        BY <4>1, <4>2 DEF Turns!Count
    <3>3. QED
      BY <3>2 DEF Turns!Next
  <2>3. CASE t = 2
    <3>1. counter[1] = Inc(counter[2])
      BY <2>1, <2>3, PairRuns DEF LowsTurn
    <3>2. Turns!Count(2)
      BY <2>1, <2>3, <3>1 DEF Turns!Count, Turns!Inc, Inc
    <3>3. QED
      BY <3>2 DEF Turns!Next
  <2>4. QED
    BY <2>1, <2>2, <2>3
<1>3. CASE \A t \in Thread : ~Switch!Count(t)
  <2>1. counter' = counter
    BY <1>3
    DEF Switch!Initialize, Switch!Sleep, switchvars, Switch!Report, Switch!SwitchStep,
        Switch!Relinquish, Switch!StartMeasurement, Switch!EndMeasurement
  <2>2. QED
    BY <1>1, <2>1
<1>4. QED
  BY <1>2, <1>3

LEMMA TurnsStep ==
    ASSUME Port # "FreeRTOS", MCInv, [MCNext]_mcvars
    PROVE  Turns!Next \/ UNCHANGED PairCounter
<1>1. build' = build
  BY DEF MCNext, MCMainStep, MCPairStep, MCWake, mcvars
<1>2. CASE build = "semaphores"
  <2>1. Next \/ UNCHANGED vars
    BY <1>2 DEF MCNext, MCMainStep, MCPairStep, MCWake, mcvars, Next
  <2>2. QED
    BY <1>1, <1>2, <2>1, SyncTurn DEF MCInv
<1>3. CASE build = "relinquish"
  <2>1. \/ Switch!Initialize
        \/ Switch!Sleep \/ (Wake /\ UNCHANGED switchvars) \/ Switch!Report
        \/ Switch!SwitchStep
        \/ UNCHANGED <<vars, switchvars>>
    BY <1>3 DEF MCNext, MCMainStep, MCPairStep, MCWake, mcvars
  <2>2. QED
    BY <1>1, <1>3, <2>1, SwitchTurn DEF MCInv
<1>4. QED
  BY <1>2, <1>3 DEF MCInv

(***************************************************************************)
(* The safety part of PairTakesTurns: both pairs implement Rounds.  Task 2 *)
(* counts before task 1 (task_synchronization.c:168-173) and the high      *)
(* before the low task (context_switching_test.c:44, 61) in every round,   *)
(* whatever the reporter and the wrapping of the counters do.              *)
(***************************************************************************)
THEOREM BuildTakesTurns ==
    ASSUME Port # "FreeRTOS"
    PROVE  MCSpec => Turns!Init /\ [][Turns!Next]_PairCounter
<1>1. MCInit => MCInv
  BY BuildInit
<1>2. MCInv /\ [MCNext]_mcvars => MCInv'
  BY BuildNext
<1>3. MCInit => Turns!Init
  BY TurnsStart
<1>4. MCInv /\ [MCNext]_mcvars => [Turns!Next]_PairCounter
  BY TurnsStep
<1>5. QED
  BY <1>1, <1>2, <1>3, <1>4, PTL DEF MCSpec

-----------------------------------------------------------------------------
(* The specific synchronisation benchmark.                                 *)

SpecificTask == {0, 1, Main}
SpecificLevel == 0 .. 32

OnFreeRTOS(b) == b \in {"shipped", "FreeRTOS"}

\* The waiting thread is 0, the signaling one 1.
SpecificOwn(b) ==
    [t \in SpecificTask |-> IF t = Main THEN IF OnFreeRTOS(b) THEN 30 ELSE 1
                            ELSE IF t = 0 THEN IF OnFreeRTOS(b) THEN 28 ELSE 5
                            ELSE IF OnFreeRTOS(b) THEN 23 ELSE 10]

SpecificKernel(b) == FixedLevels(SpecificTask, SpecificLevel, SpecificOwn(b))

SpecificLabel == {"initialize", "wait", "wait end", "count", "signal", "sleep", "report"}

SpecificTypes ==
    /\ count \in [0 .. 1 -> Nat]
    /\ wants \in [SpecificTask -> {0, 1, None}]
    /\ signals \in Nat
    /\ handle \in SpecificTask \cup {NoTask}
    /\ pollers \subseteq SpecificTask
    /\ sync_calls \in 0 .. 9
    /\ sync_pc \in [SpecificTask -> SpecificLabel]
    /\ synchronozation_counter \in Word /\ last_counter \in Word /\ signaled \in Word

\* The initialisation, while the main task is ready and nobody else runs.
Preparing(b) ==
    /\ sync_calls < 9 /\ (b # "shipped" => sync_calls >= 3)
    /\ sync_pc[Main] = "initialize" /\ state[Main] = "ready"
    /\ state[0] = IF sync_calls <= 5 THEN "absent"
                  ELSE IF OnFreeRTOS(b) \/ sync_calls = 8 THEN "ready" ELSE "suspended"
    /\ state[1] = IF sync_calls <= 6 THEN "absent"
                  ELSE IF OnFreeRTOS(b) THEN "ready" ELSE "suspended"
    /\ sync_pc[0] = "wait"
    /\ wants = [t \in SpecificTask |-> None] /\ pollers = {}
    /\ sync_calls >= 1 /\ b = "shipped" => count[0] = 1
    /\ signals = IF b = "ThreadX" /\ sync_calls >= 5 THEN 1 ELSE 0
    /\ synchronozation_counter = 0 /\ signaled = 0

\* With a semaphore the waiting thread has what it waits for when it is woken.
WaitsForSemaphore ==
    /\ sync_pc[0] \in {"wait", "count"}
    /\ state[0] = "blocked" => sync_pc[0] = "count"
    /\ wants = [t \in SpecificTask |-> IF t = 0 /\ state[0] = "blocked" THEN 0 ELSE None]
    /\ count[0] \in {0, 1} /\ (sync_pc[0] = "count" => count[0] = 0)

\* The native signals are reset by the woken thread or, on ThreadX, for it.
WaitsForSignal(b) ==
    /\ sync_pc[0] \in {"wait", "wait end", "count"}
    /\ state[0] = "blocked" => sync_pc[0] = "wait end"
    /\ pollers = IF state[0] = "blocked" THEN {0} ELSE {}
    /\ state[0] = "blocked" /\ b = "FreeRTOS" => handle = 0
    /\ IF b = "ThreadX" THEN signals \in {0, 1} /\ (sync_pc[0] # "wait" => signals = 0)
       ELSE signals = IF state[0] = "ready" /\ sync_pc[0] = "wait end" THEN 1 ELSE 0

\* A signal that the waiting thread has still to count.
Pending(b) ==
    /\ state[0] = "ready"
    /\ sync_pc[0] # "wait" \/ 1 = (IF b = "shipped" THEN count[0] ELSE signals)

HeadStart(b) == IF b \in {"shipped", "ThreadX"} THEN 1 ELSE 0

Tally(b) ==
    Plus(signaled, HeadStart(b)) =
        IF Pending(b) THEN Inc(synchronozation_counter) ELSE synchronozation_counter

Working(b) ==
    /\ sync_calls = 9
    /\ sync_pc[Main] \in {"sleep", "report"} /\ state[Main] \in {"ready", "asleep"}
    /\ state[0] \in {"ready", "blocked"} /\ state[1] = "ready"
    /\ IF b = "shipped" THEN WaitsForSemaphore ELSE WaitsForSignal(b)
    /\ Tally(b)

SpecificInv(b) ==
    /\ SpecificKernel(b)
    /\ SpecificTypes
    /\ Preparing(b) \/ Working(b)

LEMMA SpecificNames ==
    /\ Main \notin {0, 1} /\ None \notin {0, 1} /\ NoTask \notin SpecificTask
    /\ Build = {"shipped", "FreeRTOS", "ThreadX", "Zephyr"}
    /\ \A b \in Build : Sync(b)!Task = SpecificTask
    /\ \A b \in Build : Sync(b)!Level = SpecificLevel
    /\ \A b \in Build : Sync(b)!State = State
<1>1. /\ Main \notin {0, 1} /\ None \notin {0, 1}
      /\ Build = {"shipped", "FreeRTOS", "ThreadX", "Zephyr"}
  BY SpecificAssumptions DEF Build
<1>2. \A b \in Build : Sync(b)!Task = SpecificTask
  BY DEF Sync!Task, SpecificTask
<1>3. NoTask \notin SpecificTask
  BY <1>1, <1>2, SpecificAssumptions DEF Sync!Configuration, Build
<1>4. QED
  BY <1>1, <1>2, <1>3 DEF Sync!Level, SpecificLevel, Sync!State, State

\* The main task is the most urgent one, then the waiting thread.
LEMMA SpecificLevels ==
    ASSUME NEW b \in Build
    PROVE  /\ SpecificOwn(b) \in [SpecificTask -> SpecificLevel]
           /\ \A t, u \in SpecificTask : t # u => SpecificOwn(b)[t] # SpecificOwn(b)[u]
           /\ \A t \in {0, 1} :
                 Sync(b)!MoreUrgent(SpecificOwn(b)[Main], SpecificOwn(b)[t])
           /\ Sync(b)!MoreUrgent(SpecificOwn(b)[0], SpecificOwn(b)[1])
<1>1. /\ SpecificOwn(b)[Main] = IF OnFreeRTOS(b) THEN 30 ELSE 1
      /\ SpecificOwn(b)[0] = IF OnFreeRTOS(b) THEN 28 ELSE 5
      /\ SpecificOwn(b)[1] = IF OnFreeRTOS(b) THEN 23 ELSE 10
  BY SpecificNames DEF SpecificOwn, SpecificTask
<1>2. /\ SpecificOwn(b) \in [SpecificTask -> SpecificLevel]
      /\ \A t, u \in SpecificTask : t # u => SpecificOwn(b)[t] # SpecificOwn(b)[u]
  BY SpecificNames DEF SpecificOwn, SpecificTask, SpecificLevel
<1>3. QED
  BY <1>1, <1>2, SpecificNames DEF Sync!MoreUrgent, OnFreeRTOS

\* Who runs is ready, and no more urgent task is: a thread runs only when all is
\* prepared, and the signaling one only while the waiting one waits.
LEMMA SpecificTurn ==
    ASSUME NEW b \in Build, SpecificInv(b),
           NEW t \in SpecificTask, Sync(b)!Runs(t)
    PROVE  /\ state[t] = "ready"
           /\ t # Main => Working(b)
           /\ t = 1 => state[0] = "blocked"
<1>1. /\ state[t] = "ready"
      /\ \A l \in SpecificLevel : Sync(b)!MoreUrgent(l, level[t]) => ready[l] = << >>
  BY SpecificNames DEF Sync!Runs
<1>2. ASSUME NEW u \in SpecificTask, state[u] = "ready"
      PROVE  ~Sync(b)!MoreUrgent(SpecificOwn(b)[u], SpecificOwn(b)[t])
  <2>1. FixedLevels(SpecificTask, SpecificLevel, SpecificOwn(b))
    BY DEF SpecificInv, SpecificKernel
  <2>2. /\ level[t] = SpecificOwn(b)[t] /\ ready[SpecificOwn(b)[u]] # << >>
        /\ SpecificOwn(b)[u] \in SpecificLevel
    BY <1>1, <1>2, <2>1, FixedTypes
  <2>3. QED
    BY <1>1, <2>2
<1>3. t # Main => Working(b)
  <2>1. SUFFICES ASSUME t # Main, Preparing(b) PROVE FALSE
    BY DEF SpecificInv
  <2>2. state[Main] = "ready" /\ Main \in SpecificTask /\ t \in {0, 1}
    BY <2>1 DEF Preparing, SpecificTask
  <2>3. QED
    BY <1>2, <2>2, SpecificLevels
<1>4. t = 1 => state[0] = "blocked"
  <2>1. SUFFICES ASSUME t = 1, state[0] = "ready" PROVE FALSE
    BY <1>3, SpecificNames DEF Working
  <2>2. QED
    BY <1>2, <2>1, SpecificLevels DEF SpecificTask
<1>5. QED
  BY <1>1, <1>3, <1>4

\* The running task leaves the processor.
LEMMA SpecificLeaves ==
    ASSUME NEW b \in Build, SpecificInv(b),
           NEW t \in SpecificTask, Sync(b)!Runs(t),
           NEW s \in {"asleep", "blocked"}, Sync(b)!Block(t, s)
    PROVE  SpecificKernel(b)' /\ state' = [state EXCEPT ![t] = s]
<1>1. /\ state' = [state EXCEPT ![t] = s] /\ level' = level
      /\ ready' = [ready EXCEPT ![level[t]] = Tail(@)]
  BY DEF Sync!Block
<1>2. state[t] = "ready" /\ FixedLevels(SpecificTask, SpecificLevel, SpecificOwn(b))
  BY SpecificTurn DEF SpecificInv, SpecificKernel
<1>3. FixedLevels(SpecificTask, SpecificLevel, SpecificOwn(b))'
  BY <1>1, <1>2, FixedLeaves
<1>4. QED
  BY <1>1, <1>3 DEF SpecificKernel

\* A task that was created and is not ready becomes so.
LEMMA SpecificWakes ==
    ASSUME NEW b \in Build, SpecificInv(b),
           NEW t \in SpecificTask, state[t] # "absent", state[t] # "ready",
           Sync(b)!MakeReady(t)
    PROVE  SpecificKernel(b)' /\ state' = [state EXCEPT ![t] = "ready"]
<1>1. /\ state' = [state EXCEPT ![t] = "ready"] /\ level' = level
      /\ ready' = [ready EXCEPT ![level[t]] = Append(@, t)]
  BY DEF Sync!MakeReady
<1>2. FixedLevels(SpecificTask, SpecificLevel, SpecificOwn(b))
  BY DEF SpecificInv, SpecificKernel
<1>3. FixedLevels(SpecificTask, SpecificLevel, SpecificOwn(b))'
  BY <1>1, <1>2, FixedWakes
<1>4. QED
  BY <1>1, <1>3 DEF SpecificKernel

\* A thread is created: FreeRTOS starts it, the others do not.
LEMMA SpecificCreates ==
    ASSUME NEW b \in Build, SpecificInv(b),
           NEW t \in {0, 1}, Sync(b)!tm_thread_create(t, IF t = 0 THEN 5 ELSE 10)
    PROVE  /\ SpecificKernel(b)'
           /\ state' = [state EXCEPT ![t] = IF OnFreeRTOS(b) THEN "ready" ELSE "suspended"]
<1> DEFINE priority == IF t = 0 THEN 5 ELSE 10
<1>1. /\ SpecificOwn(b)[t] = IF OnFreeRTOS(b) THEN 33 - priority ELSE priority
      /\ t \in SpecificTask
  BY SpecificNames DEF SpecificOwn, SpecificTask
<1>2. FixedLevels(SpecificTask, SpecificLevel, SpecificOwn(b))
  BY DEF SpecificInv, SpecificKernel
<1>3. CASE OnFreeRTOS(b)
  <2>1. Sync(b)!freertos_thread_create(t, priority)
    BY <1>3 DEF OnFreeRTOS, Sync!tm_thread_create
  <2>2. Sync(b)!AddReady(t, 33 - priority)
    BY <2>1 DEF Sync!freertos_thread_create
  <2>3. SUFFICES ASSUME NEW l, l = SpecificOwn(b)[t], Sync(b)!AddReady(t, l)
                 PROVE  /\ FixedLevels(SpecificTask, SpecificLevel, SpecificOwn(b))'
                        /\ state' = [state EXCEPT ![t] = "ready"]
    BY <1>1, <1>3, <2>2 DEF SpecificKernel
  <2>4. /\ state' = [state EXCEPT ![t] = "ready"] /\ state[t] # "ready"
        /\ level' = [level EXCEPT ![t] = l] /\ ready' = [ready EXCEPT ![l] = Append(@, t)]
    BY <2>3 DEF Sync!AddReady
  <2>5. QED
    BY <1>1, <1>2, <2>3, <2>4, FixedAddReady
<1>4. CASE ~OnFreeRTOS(b)
  <2>1. Sync(b)!AddSuspended(t, priority)
    BY <1>4, SpecificNames
    DEF OnFreeRTOS, Sync!tm_thread_create, Sync!threadx_thread_create,
        Sync!zephyr_thread_create
  <2>2. SUFFICES ASSUME NEW l, l = SpecificOwn(b)[t], Sync(b)!AddSuspended(t, l)
                 PROVE  /\ FixedLevels(SpecificTask, SpecificLevel, SpecificOwn(b))'
                        /\ state' = [state EXCEPT ![t] = "suspended"]
    BY <1>1, <1>4, <2>1 DEF SpecificKernel
  <2>3. /\ state' = [state EXCEPT ![t] = "suspended"] /\ state[t] # "ready"
        /\ level' = [level EXCEPT ![t] = l] /\ ready' = ready
    BY <2>2 DEF Sync!AddSuspended
  <2>4. QED
    BY <1>1, <1>2, <2>2, <2>3, FixedAddSuspended
<1>5. QED
  BY <1>3, <1>4

LEMMA SpecificStays ==
    ASSUME NEW b \in Build, SpecificInv(b), UNCHANGED <<state, level, ready>>
    PROVE  SpecificKernel(b)'
  BY FixedStays DEF SpecificInv, SpecificKernel

\* A signal is one more to count, and the count one less.
LEMMA TallySteps ==
    ASSUME NEW s \in Word, NEW c \in Word, NEW h \in {0, 1}
    PROVE  /\ Inc(s) \in Word /\ Inc(c) \in Word
           /\ Plus(s, h) = c => Plus(Inc(s), h) = Inc(c)
           /\ Plus(s, h) = c => Minus(Plus(s, h), c) = 0
           /\ Plus(s, h) = Inc(c) => Minus(Plus(s, h), c) = 1
  BY MaxWordAssumption DEF Word, Plus, Inc, Minus

LEMMA SpecificFacts ==
    ASSUME NEW b \in Build, SpecificInv(b)
    PROVE  /\ SpecificKernel(b) /\ SpecificTypes /\ (Preparing(b) \/ Working(b))
           /\ state \in [SpecificTask -> State]
           /\ 0 \in SpecificTask /\ 1 \in SpecificTask /\ Main \in SpecificTask
           /\ Main # 0 /\ Main # 1 /\ NoTask # 0
           /\ sync_calls \in Nat /\ count[0] \in Nat /\ count[1] \in Nat
           /\ signaled \in Word /\ synchronozation_counter \in Word
<1>1. /\ 0 \in SpecificTask /\ 1 \in SpecificTask /\ Main \in SpecificTask
      /\ Main # 0 /\ Main # 1 /\ NoTask # 0
  BY SpecificNames DEF SpecificTask
<1>2. /\ SpecificKernel(b) /\ SpecificTypes /\ (Preparing(b) \/ Working(b))
      /\ state \in [SpecificTask -> State]
  <2>1. SpecificKernel(b) /\ SpecificTypes /\ (Preparing(b) \/ Working(b))
    BY DEF SpecificInv
  <2>2. QED
    BY <2>1, FixedTypes DEF SpecificKernel
<1>3. /\ sync_calls \in Nat /\ count[0] \in Nat /\ count[1] \in Nat
      /\ signaled \in Word /\ synchronozation_counter \in Word
  <2>1. sync_calls \in 0 .. 9 /\ count \in [0 .. 1 -> Nat] /\ 0 \in 0 .. 1 /\ 1 \in 0 .. 1
    BY <1>2 DEF SpecificTypes
  <2>2. signaled \in Word /\ synchronozation_counter \in Word
    BY <1>2 DEF SpecificTypes
  <2>3. QED
    BY <2>1, <2>2
<1>4. QED
  BY <1>1, <1>2, <1>3

LEMMA SpecificInitInv ==
    ASSUME NEW b \in Build, Sync(b)!Init
    PROVE  SpecificInv(b)
<1>1. Main \in SpecificTask /\ 0 \in SpecificLevel
  BY DEF SpecificTask, SpecificLevel
<1>2. /\ state = [t \in SpecificTask |-> IF t = Main THEN "ready" ELSE "absent"]
      /\ level = [t \in SpecificTask |-> IF t = Main THEN SpecificOwn(b)[Main] ELSE 0]
      /\ ready = [k \in SpecificLevel |->
                    IF k = SpecificOwn(b)[Main] THEN <<Main>> ELSE << >>]
  <2>1. SpecificOwn(b)[Main] = IF OnFreeRTOS(b) THEN 30 ELSE 1
    BY <1>1, SpecificNames DEF SpecificOwn
  <2>2. Sync(b)!StartedWith(SpecificOwn(b)[Main])
    BY <2>1, SpecificNames
    DEF Sync!Init, Sync!KernelInit, Sync!rtos_main_freertos,
        Sync!rtos_main_threadx, Sync!rtos_main_zephyr, OnFreeRTOS
  <2>3. QED
    BY <2>2, SpecificNames DEF Sync!StartedWith
<1>3. SpecificKernel(b)
  BY <1>1, <1>2, SpecificLevels, FixedStarts DEF SpecificKernel
<1>4. /\ count = [s \in 0 .. 1 |-> 0] /\ wants = [t \in SpecificTask |-> None]
      /\ signals = 0 /\ handle = NoTask /\ pollers = {}
      /\ sync_calls = IF b = "shipped" THEN 0 ELSE 3
      /\ sync_pc = [t \in SpecificTask |-> IF t = Main THEN "initialize"
                                      ELSE IF t = 0 THEN "wait" ELSE "signal"]
      /\ synchronozation_counter = 0 /\ last_counter = 0 /\ signaled = 0
  <2>1. sync_pc = [t \in SpecificTask |-> IF t = Main THEN "initialize"
                                    ELSE IF t = 0 THEN "wait" ELSE "signal"]
    BY SpecificNames
    DEF Sync!Init, Sync!Waiting, Sync!Signaling, SpecificTask
  <2>2. QED
    BY <2>1, SpecificNames
    DEF Sync!Init, Sync!SemaphoreInit, Sync!SyncInit
<1>5. SpecificTypes
  <2>1. 0 \in Word
    BY MaxWordAssumption DEF Word
  <2>2. QED
    BY <1>4, <2>1, SpecificNames DEF SpecificTypes, SpecificTask, SpecificLabel
<1>6. Preparing(b)
  BY <1>1, <1>2, <1>4, SpecificNames DEF Preparing, SpecificTask
<1>7. QED
  BY <1>3, <1>5, <1>6 DEF SpecificInv

-----------------------------------------------------------------------------
(* Its steps.                                                              *)

LEMMA SpecificCreateSemaphores ==
    ASSUME NEW b \in Build, SpecificInv(b),
           Sync(b)!Initialize, Sync(b)!CreateSemaphores
    PROVE  SpecificInv(b)'
<1>1. /\ Sync(b)!Runs(Main) /\ sync_pc[Main] = "initialize" /\ sync_calls' = sync_calls + 1
      /\ UNCHANGED <<state, level, ready, signals, handle, pollers, wants,
                     synchronozation_counter, last_counter, signaled>>
      /\ sync_calls \in 0 .. 3
      /\ sync_pc' = [sync_pc EXCEPT ![Main] = IF sync_calls' = 9 THEN "sleep" ELSE "initialize"]
  BY DEF Sync!Initialize, Sync!CreateSemaphores, Sync!Goto,
         Sync!kernel, Sync!sync, Sync!tm_semaphore_create,
         Sync!tm_semaphore_get
<1>2. Preparing(b) /\ SpecificTypes /\ sync_pc' = sync_pc
  BY <1>1, SpecificFacts DEF Working, SpecificTypes
<1>3. /\ count' \in [0 .. 1 -> Nat]
      /\ sync_calls = 0 \/ sync_calls = 3 => count'[0] = 1
      /\ sync_calls \in {1, 2} => count'[0] = count[0]
  <2>1. count \in [0 .. 1 -> Nat]
    BY <1>2 DEF SpecificTypes
  <2>2. CASE sync_calls = 2
    <3>1. count' = IF count[1] > 0 THEN [count EXCEPT ![1] = @ - 1] ELSE count
      BY <2>2 DEF Sync!CreateSemaphores, Sync!tm_semaphore_get
    <3>2. QED
      BY <2>1, <2>2, <3>1
  <2>3. CASE sync_calls # 2
    <3>1. count' = [count EXCEPT ![IF sync_calls = 1 THEN 1 ELSE 0] = 1]
      BY <1>1, <2>3 DEF Sync!CreateSemaphores, Sync!tm_semaphore_create
    <3>2. QED
      BY <1>1, <2>1, <2>3, <3>1
  <2>4. QED
    BY <2>2, <2>3
<1>4. SpecificKernel(b)'
  BY <1>1, SpecificStays
<1>5. SpecificTypes'
  <2>1. sync_calls' \in 0 .. 9 /\ signals' \in Nat
    BY <1>1, <1>2, <1>3 DEF SpecificTypes, Preparing
  <2>2. QED
    BY <1>1, <1>2, <1>3, <2>1 DEF SpecificTypes
<1>6. Preparing(b)'
  BY <1>1, <1>2, <1>3 DEF Preparing
<1>7. QED
  BY <1>4, <1>5, <1>6 DEF SpecificInv

LEMMA SpecificInitSync ==
    ASSUME NEW b \in Build, SpecificInv(b),
           Sync(b)!Initialize, sync_calls = 4
    PROVE  SpecificInv(b)'
<1>1. /\ sync_pc[Main] = "initialize" /\ sync_calls' = 5 /\ Sync(b)!init_rtos_sync
      /\ UNCHANGED <<state, level, ready, count, wants,
                     synchronozation_counter, last_counter, signaled>>
      /\ sync_pc' = [sync_pc EXCEPT ![Main] = "initialize"]
  BY DEF Sync!Initialize, Sync!Goto, Sync!kernel,
         Sync!semaphores, Sync!CreateSemaphores, Sync!StartThreads
<1>2. Preparing(b) /\ SpecificTypes /\ sync_pc' = sync_pc /\ signals = 0
  BY <1>1, SpecificFacts DEF Working, SpecificTypes, Preparing
<1>3. UNCHANGED <<handle, pollers>> /\ signals' = IF b = "ThreadX" THEN 1 ELSE 0
  BY <1>1, <1>2, SpecificNames
  DEF Sync!init_rtos_sync, Sync!freertos_init_rtos_sync,
      Sync!threadx_init_rtos_sync, Sync!zephyr_init_rtos_sync
<1>4. SpecificKernel(b)'
  BY <1>1, SpecificStays
<1>5. SpecificTypes'
  <2>1. sync_calls' \in 0 .. 9 /\ signals' \in Nat
    BY <1>1, <1>2, <1>3 DEF SpecificTypes, Preparing
  <2>2. QED
    BY <1>1, <1>2, <1>3, <2>1 DEF SpecificTypes
<1>6. Preparing(b)'
  BY <1>1, <1>2, <1>3 DEF Preparing
<1>7. QED
  BY <1>4, <1>5, <1>6 DEF SpecificInv

\* The last of the four calls starts the work.
LEMMA SpecificStartThreads ==
    ASSUME NEW b \in Build, SpecificInv(b),
           Sync(b)!Initialize, Sync(b)!StartThreads
    PROVE  SpecificInv(b)'
<1>1. /\ sync_pc[Main] = "initialize" /\ sync_calls' = sync_calls + 1 /\ sync_calls \in 5 .. 8
      /\ UNCHANGED <<count, wants, signals, handle, pollers,
                     synchronozation_counter, last_counter, signaled>>
      /\ sync_pc' = [sync_pc EXCEPT ![Main] = IF sync_calls' = 9 THEN "sleep" ELSE "initialize"]
  BY DEF Sync!Initialize, Sync!StartThreads, Sync!Goto,
         Sync!semaphores, Sync!sync
<1>2. /\ Preparing(b) /\ SpecificTypes /\ sync_pc \in [SpecificTask -> SpecificLabel]
      /\ Main # 0 /\ Main # 1 /\ state \in [SpecificTask -> State]
      /\ 0 \in SpecificTask /\ 1 \in SpecificTask /\ Main \in SpecificTask
  BY <1>1, SpecificFacts DEF Working, SpecificTypes
<1>3. /\ SpecificKernel(b)'
      /\ state'[Main] = "ready"
      /\ state'[0] = IF OnFreeRTOS(b) \/ sync_calls >= 7 THEN "ready" ELSE "suspended"
      /\ state'[1] = IF sync_calls = 5 THEN "absent"
                     ELSE IF OnFreeRTOS(b) \/ sync_calls = 8 THEN "ready" ELSE "suspended"
  <2>1. CASE sync_calls = 5
    <3>1. Sync(b)!tm_thread_create(0, IF 0 = 0 THEN 5 ELSE 10)
      BY <2>1 DEF Sync!StartThreads, Sync!Waiting
    <3>2. SpecificKernel(b)'
          /\ state' = [state EXCEPT ![0] = IF OnFreeRTOS(b) THEN "ready" ELSE "suspended"]
      BY <3>1, SpecificCreates
    <3>3. QED
      BY <1>2, <2>1, <3>2 DEF Preparing
  <2>2. CASE sync_calls = 6
    <3>1. Sync(b)!tm_thread_create(1, IF 1 = 0 THEN 5 ELSE 10)
      BY <2>2 DEF Sync!StartThreads, Sync!Signaling
    <3>2. SpecificKernel(b)'
          /\ state' = [state EXCEPT ![1] = IF OnFreeRTOS(b) THEN "ready" ELSE "suspended"]
      BY <3>1, SpecificCreates
    <3>3. QED
      BY <1>2, <2>2, <3>2 DEF Preparing
  <2>3. ASSUME NEW t \in {0, 1}, sync_calls = 7 + t
        PROVE  /\ SpecificKernel(b)'
               /\ state' = [state EXCEPT ![t] = "ready"]
    <3>1. Sync(b)!tm_thread_resume(t)
      BY <2>3 DEF Sync!StartThreads, Sync!Waiting, Sync!Signaling
    <3>2. t \in SpecificTask /\ state[t] = IF OnFreeRTOS(b) THEN "ready" ELSE "suspended"
      BY <1>2, <2>3 DEF Preparing
    <3>3. CASE OnFreeRTOS(b)
      <4>1. UNCHANGED <<state, level, ready>>
        BY <3>1, <3>2, <3>3 DEF Sync!tm_thread_resume, Sync!kernel
      <4>2. QED
        BY <1>2, <3>2, <3>3, <4>1, SpecificStays
    <3>4. CASE ~OnFreeRTOS(b)
      <4>1. Sync(b)!MakeReady(t)
        BY <3>1, <3>2, <3>4 DEF Sync!tm_thread_resume
      <4>2. QED
        BY <3>2, <3>4, <4>1, SpecificWakes
    <3>5. QED
      BY <3>3, <3>4
  <2>4. CASE sync_calls = 7
    <3>1. SpecificKernel(b)' /\ state' = [state EXCEPT ![0] = "ready"]
      BY <2>3, <2>4
    <3>2. QED
      BY <1>2, <2>4, <3>1 DEF Preparing
  <2>5. CASE sync_calls = 8
    <3>1. SpecificKernel(b)' /\ state' = [state EXCEPT ![1] = "ready"]
      BY <2>3, <2>5
    <3>2. QED
      BY <1>2, <2>5, <3>1 DEF Preparing
  <2>6. QED
    BY <1>1, <2>1, <2>2, <2>4, <2>5
<1>4. SpecificTypes'
  <2>1. sync_calls' \in 0 .. 9
    BY <1>1
  <2>2. sync_pc' \in [SpecificTask -> SpecificLabel]
    <3>1. "sleep" \in SpecificLabel /\ "initialize" \in SpecificLabel
      BY DEF SpecificLabel
    <3>2. QED
      BY <1>1, <1>2, <3>1
  <2>3. QED
    BY <1>1, <1>2, <2>1, <2>2 DEF SpecificTypes
<1>5. CASE sync_calls < 8
  <2>1. Preparing(b)'
    BY <1>1, <1>2, <1>3, <1>5 DEF Preparing
  <2>2. QED
    BY <1>3, <1>4, <2>1 DEF SpecificInv
<1>6. CASE sync_calls = 8
  <2>1. /\ sync_pc'[Main] = "sleep" /\ sync_pc'[0] = "wait" /\ sync_calls' = 9
        /\ state'[0] = "ready" /\ state'[1] = "ready"
    BY <1>1, <1>2, <1>3, <1>6 DEF Preparing
  <2>2. /\ wants' = [t \in SpecificTask |-> None] /\ pollers' = {}
        /\ b = "shipped" => count'[0] = 1
        /\ signals' = IF b = "ThreadX" THEN 1 ELSE 0
        /\ synchronozation_counter' = 0 /\ signaled' = 0
    BY <1>1, <1>2, <1>6 DEF Preparing
  <2>3. IF b = "shipped" THEN WaitsForSemaphore' ELSE WaitsForSignal(b)'
    BY <2>1, <2>2 DEF WaitsForSemaphore, WaitsForSignal
  <2>4. Tally(b)'
    <3>1. Pending(b)' <=> b \in {"shipped", "ThreadX"}
      BY <2>1, <2>2 DEF Pending
    <3>2. Plus(0, 0) = 0 /\ Plus(0, 1) = 1 /\ Inc(0) = 1
      BY MaxWordAssumption DEF Plus, Inc
    <3>3. QED
      BY <2>2, <3>1, <3>2 DEF Tally, HeadStart
  <2>5. Working(b)'
    BY <1>3, <2>1, <2>3, <2>4 DEF Working
  <2>6. QED
    BY <1>3, <1>4, <2>5 DEF SpecificInv
<1>7. QED
  BY <1>1, <1>5, <1>6

LEMMA SpecificInitializeInv ==
    ASSUME NEW b \in Build, SpecificInv(b), Sync(b)!Initialize
    PROVE  SpecificInv(b)'
<1>1. \/ Sync(b)!CreateSemaphores
      \/ sync_calls = 4
      \/ Sync(b)!StartThreads
  BY DEF Sync!Initialize
<1>2. QED
  BY <1>1, SpecificCreateSemaphores, SpecificInitSync, SpecificStartThreads

\* Only the thread and what it waits for, or signals, may change.
LEMMA SpecificWorks ==
    ASSUME NEW b \in Build, SpecificInv(b), Working(b),
           SpecificKernel(b)', SpecificTypes',
           UNCHANGED sync_calls, sync_pc'[Main] \in {"sleep", "report"},
           state'[Main] \in {"ready", "asleep"},
           state'[0] \in {"ready", "blocked"}, state'[1] = "ready",
           IF b = "shipped" THEN WaitsForSemaphore' ELSE WaitsForSignal(b)', Tally(b)'
    PROVE  SpecificInv(b)'
  BY DEF SpecificInv, Working

LEMMA SpecificWaitInv ==
    ASSUME NEW b \in Build, SpecificInv(b), Sync(b)!Wait
    PROVE  SpecificInv(b)'
<1>1. /\ Sync(b)!Runs(0) /\ sync_pc[0] = "wait"
      /\ sync_pc' = [sync_pc EXCEPT ![0] = IF b = "shipped" THEN "count" ELSE "wait end"]
      /\ UNCHANGED <<sync_calls, synchronozation_counter, last_counter, signaled>>
  BY DEF Sync!Wait, Sync!Waiting, Sync!Goto
<1>2. /\ Working(b) /\ SpecificTypes /\ state[0] = "ready"
      /\ state \in [SpecificTask -> State] /\ sync_pc \in [SpecificTask -> SpecificLabel]
      /\ 0 \in SpecificTask /\ 1 \in SpecificTask /\ Main \in SpecificTask
      /\ Main # 0 /\ NoTask # 0 /\ count[0] \in Nat
      /\ count \in [0 .. 1 -> Nat] /\ wants \in [SpecificTask -> {0, 1, None}]
  BY <1>1, SpecificFacts, SpecificTurn DEF SpecificTypes
<1>3. /\ sync_pc' \in [SpecificTask -> SpecificLabel]
      /\ sync_pc'[0] = IF b = "shipped" THEN "count" ELSE "wait end"
      /\ sync_pc'[Main] = sync_pc[Main]
  BY <1>1, <1>2 DEF SpecificLabel
<1>4. CASE b = "shipped"
  <2>1. Sync(b)!tm_semaphore_wait(0, 0) /\ UNCHANGED <<signals, handle, pollers>>
    BY <1>4 DEF Sync!Wait, Sync!Waiting, Sync!sync
  <2>2. WaitsForSemaphore /\ wants = [t \in SpecificTask |-> None]
    BY <1>2, <1>4 DEF Working, WaitsForSemaphore
  <2>3. CASE count[0] = 1
    <3>1. /\ UNCHANGED <<state, level, ready, wants>> /\ count' = [count EXCEPT ![0] = 0]
      BY <2>1, <2>3 DEF Sync!tm_semaphore_wait, Sync!kernel
    <3>2. WaitsForSemaphore'
      BY <1>2, <1>3, <1>4, <2>2, <3>1 DEF WaitsForSemaphore
    <3>3. Pending(b) /\ Pending(b)'
      BY <1>1, <1>2, <1>3, <1>4, <2>3, <3>1 DEF Pending
    <3>4. Tally(b)'
      BY <1>1, <1>2, <3>3 DEF Working, Tally
    <3>5. SpecificTypes'
      BY <1>1, <1>2, <1>3, <2>1, <3>1 DEF SpecificTypes
    <3>6. QED
      BY <1>1, <1>2, <1>3, <1>4, <3>1, <3>2, <3>4, <3>5, SpecificStays, SpecificWorks
      DEF Working
  <2>4. CASE count[0] = 0
    <3>1. /\ Sync(b)!Block(0, "blocked") /\ count' = count
          /\ wants' = [wants EXCEPT ![0] = 0]
      BY <1>2, <2>1, <2>4 DEF Sync!tm_semaphore_wait
    <3>2. SpecificKernel(b)' /\ state' = [state EXCEPT ![0] = "blocked"]
      BY <1>1, <1>2, <3>1, SpecificLeaves
    <3>3. state'[0] = "blocked" /\ state'[Main] = state[Main] /\ state'[1] = state[1]
      BY <1>2, <3>2
    <3>4. WaitsForSemaphore'
      BY <1>2, <1>3, <1>4, <2>2, <2>4, <3>1, <3>3 DEF WaitsForSemaphore
    <3>5. ~Pending(b) /\ ~Pending(b)'
      BY <1>1, <1>2, <1>4, <2>4, <3>3 DEF Pending
    <3>6. Tally(b)'
      BY <1>1, <1>2, <3>5 DEF Working, Tally
    <3>7. SpecificTypes'
      BY <1>1, <1>2, <1>3, <2>1, <3>1 DEF SpecificTypes
    <3>8. QED
      BY <1>1, <1>2, <1>3, <1>4, <3>2, <3>3, <3>4, <3>6, <3>7, SpecificWorks DEF Working
  <2>5. QED
    BY <2>2, <2>3, <2>4 DEF WaitsForSemaphore
<1>5. CASE b # "shipped"
  <2>1. Sync(b)!rtos_sync_wait(0) /\ UNCHANGED <<count, wants>>
    BY <1>5 DEF Sync!Wait, Sync!Waiting, Sync!semaphores
  <2>2. /\ handle' = IF b = "FreeRTOS" THEN 0 ELSE handle
        /\ Sync(b)!WaitLeaving(0, IF b = "ThreadX" THEN 0 ELSE signals)
    BY <1>5, <2>1, SpecificNames
    DEF Sync!rtos_sync_wait, Sync!freertos_sync_wait,
        Sync!threadx_sync_wait, Sync!zephyr_sync_wait
  <2>3. WaitsForSignal(b) /\ pollers = {} /\ signals \in {0, 1}
        /\ (signals = 1 => b = "ThreadX")
    <3>1. WaitsForSignal(b)
      BY <1>2, <1>5 DEF Working
    <3>2. pollers = {}
      BY <1>2, <3>1 DEF WaitsForSignal
    <3>3. ASSUME b = "ThreadX" PROVE signals \in {0, 1}
      BY <3>1, <3>3 DEF WaitsForSignal
    <3>4. ASSUME b # "ThreadX" PROVE signals = 0
      <4>1. sync_pc[0] # "wait end"
        BY <1>1
      <4>2. QED
        BY <3>1, <3>4, <4>1 DEF WaitsForSignal
    <3>5. QED
      BY <3>1, <3>2, <3>3, <3>4
  <2>4. CASE signals = 1
    <3>1. UNCHANGED <<state, level, ready, pollers>> /\ signals' = 0 /\ b = "ThreadX"
      BY <2>2, <2>3, <2>4 DEF Sync!WaitLeaving, Sync!kernel
    <3>2. WaitsForSignal(b)'
      BY <1>2, <1>3, <1>5, <2>3, <3>1 DEF WaitsForSignal
    <3>3. Pending(b) /\ Pending(b)'
      BY <1>1, <1>2, <1>3, <1>5, <2>4, <3>1 DEF Pending
    <3>4. Tally(b)'
      BY <1>1, <1>2, <3>3 DEF Working, Tally
    <3>5. SpecificTypes'
      BY <1>1, <1>2, <1>3, <2>1, <2>2, <3>1 DEF SpecificTypes
    <3>6. QED
      BY <1>1, <1>2, <1>3, <1>5, <3>1, <3>2, <3>4, <3>5, SpecificStays, SpecificWorks
      DEF Working
  <2>5. CASE signals = 0
    <3>1. /\ Sync(b)!Block(0, "blocked") /\ signals' = 0 /\ pollers' = {0}
      BY <2>2, <2>3, <2>5 DEF Sync!WaitLeaving
    <3>2. SpecificKernel(b)' /\ state' = [state EXCEPT ![0] = "blocked"]
      BY <1>1, <1>2, <3>1, SpecificLeaves
    <3>3. state'[0] = "blocked" /\ state'[Main] = state[Main] /\ state'[1] = state[1]
      BY <1>2, <3>2
    <3>4. WaitsForSignal(b)'
      BY <1>2, <1>3, <1>5, <2>2, <3>1, <3>3 DEF WaitsForSignal
    <3>5. ~Pending(b) /\ ~Pending(b)'
      BY <1>1, <1>2, <1>5, <2>5, <3>3 DEF Pending
    <3>6. Tally(b)'
      BY <1>1, <1>2, <3>5 DEF Working, Tally
    <3>7. SpecificTypes'
      BY <1>1, <1>2, <1>3, <2>1, <2>2, <3>1 DEF SpecificTypes
    <3>8. QED
      BY <1>1, <1>2, <1>3, <1>5, <3>2, <3>3, <3>4, <3>6, <3>7, SpecificWorks DEF Working
  <2>6. QED
    BY <2>3, <2>4, <2>5
<1>6. QED
  BY <1>4, <1>5

LEMMA SpecificWaitEndInv ==
    ASSUME NEW b \in Build, SpecificInv(b), Sync(b)!WaitEnd
    PROVE  SpecificInv(b)'
<1>1. /\ Sync(b)!Runs(0) /\ sync_pc[0] = "wait end" /\ sync_pc' = [sync_pc EXCEPT ![0] = "count"]
      /\ signals' = IF b = "ThreadX" THEN signals ELSE 0
      /\ UNCHANGED <<state, level, ready, count, wants, handle, pollers, sync_calls,
                     synchronozation_counter, last_counter, signaled>>
  BY SpecificNames
  DEF Sync!WaitEnd, Sync!Waiting, Sync!Goto,
      Sync!rtos_sync_wait_end, Sync!kernel, Sync!semaphores
<1>2. /\ Working(b) /\ SpecificTypes /\ state[0] = "ready"
      /\ sync_pc \in [SpecificTask -> SpecificLabel] /\ 0 \in SpecificTask
      /\ Main \in SpecificTask /\ Main # 0 /\ signals \in Nat
  BY <1>1, SpecificFacts, SpecificTurn DEF SpecificTypes
<1>3. /\ sync_pc' \in [SpecificTask -> SpecificLabel]
      /\ sync_pc'[0] = "count" /\ sync_pc'[Main] = sync_pc[Main]
  BY <1>1, <1>2 DEF SpecificLabel
<1>4. b # "shipped" /\ WaitsForSignal(b)
  BY <1>1, <1>2 DEF Working, WaitsForSemaphore
<1>5. WaitsForSignal(b)'
  BY <1>1, <1>2, <1>3, <1>4 DEF WaitsForSignal
<1>6. Pending(b) /\ Pending(b)'
  BY <1>1, <1>2, <1>3 DEF Pending
<1>7. Tally(b)'
  BY <1>1, <1>2, <1>6 DEF Working, Tally
<1>8. SpecificTypes'
  BY <1>1, <1>2, <1>3 DEF SpecificTypes
<1>9. QED
  BY <1>1, <1>2, <1>3, <1>4, <1>5, <1>7, <1>8, SpecificStays, SpecificWorks DEF Working

\* After the count the next wait has nothing to take.
LEMMA SpecificCountInv ==
    ASSUME NEW b \in Build, SpecificInv(b), Sync(b)!Count
    PROVE  SpecificInv(b)'
<1>1. /\ Sync(b)!Runs(0) /\ sync_pc[0] = "count" /\ sync_pc' = [sync_pc EXCEPT ![0] = "wait"]
      /\ synchronozation_counter' = Inc(synchronozation_counter)
      /\ UNCHANGED <<state, level, ready, count, wants, signals, handle, pollers, sync_calls,
                     last_counter, signaled>>
  BY DEF Sync!Count, Sync!Waiting, Sync!Goto, Sync!Inc,
         Inc, Sync!kernel, Sync!semaphores, Sync!sync
<1>2. /\ Working(b) /\ SpecificTypes /\ state[0] = "ready"
      /\ sync_pc \in [SpecificTask -> SpecificLabel] /\ 0 \in SpecificTask
      /\ Main \in SpecificTask /\ Main # 0 /\ synchronozation_counter \in Word
  BY <1>1, SpecificFacts, SpecificTurn DEF SpecificTypes
<1>3. /\ sync_pc' \in [SpecificTask -> SpecificLabel]
      /\ sync_pc'[0] = "wait" /\ sync_pc'[Main] = sync_pc[Main]
  BY <1>1, <1>2 DEF SpecificLabel
<1>4. IF b = "shipped" THEN WaitsForSemaphore /\ count[0] = 0
      ELSE WaitsForSignal(b) /\ signals = 0
  BY <1>1, <1>2 DEF Working, WaitsForSemaphore, WaitsForSignal
<1>5. IF b = "shipped" THEN WaitsForSemaphore' ELSE WaitsForSignal(b)'
  BY <1>1, <1>2, <1>3, <1>4 DEF WaitsForSemaphore, WaitsForSignal
<1>6. Pending(b) /\ ~Pending(b)'
  BY <1>1, <1>2, <1>3, <1>4 DEF Pending
<1>7. Tally(b)'
  BY <1>1, <1>2, <1>6 DEF Working, Tally, HeadStart
<1>8. SpecificTypes'
  <2>1. synchronozation_counter' \in Word
    BY <1>1, <1>2, IncType
  <2>2. QED
    BY <1>1, <1>2, <1>3, <2>1 DEF SpecificTypes
<1>9. QED
  BY <1>1, <1>2, <1>3, <1>5, <1>7, <1>8, SpecificStays, SpecificWorks DEF Working

\* The signal finds the waiting thread blocked, and nothing left of an earlier one.
LEMMA SpecificSignalInv ==
    ASSUME NEW b \in Build, SpecificInv(b), Sync(b)!Signal
    PROVE  SpecificInv(b)'
<1>1. /\ Sync(b)!Runs(1) /\ signaled' = Inc(signaled)
      /\ UNCHANGED <<sync_calls, sync_pc, synchronozation_counter, last_counter>>
  BY DEF Sync!Signal, Sync!Signaling, Sync!Inc, Inc
<1>2. /\ Working(b) /\ SpecificTypes /\ state[0] = "blocked"
      /\ state \in [SpecificTask -> State] /\ NoTask # 0
      /\ 0 \in SpecificTask /\ 1 \in SpecificTask /\ Main \in SpecificTask
      /\ Main # 0 /\ signaled \in Word /\ synchronozation_counter \in Word
      /\ wants \in [SpecificTask -> {0, 1, None}] /\ signals \in Nat
  BY <1>1, SpecificFacts, SpecificTurn DEF SpecificTypes, SpecificTask
<1>3. /\ IF b = "shipped" THEN WaitsForSemaphore ELSE WaitsForSignal(b)
      /\ ~Pending(b) /\ Plus(signaled, HeadStart(b)) = synchronozation_counter
  BY <1>2 DEF Working, Tally, Pending
<1>4. /\ Sync(b)!MakeReady(0)
      /\ IF b = "shipped"
         THEN /\ wants' = [wants EXCEPT ![0] = None]
              /\ UNCHANGED <<count, signals, handle, pollers>>
         ELSE /\ signals' = IF b = "ThreadX" THEN 0 ELSE 1
              /\ pollers' = {} /\ UNCHANGED <<count, wants, handle>>
  <2>1. CASE b = "shipped"
    <3>1. /\ \E ok \in BOOLEAN : Sync(b)!tm_semaphore_put(0, ok)
          /\ UNCHANGED <<signals, handle, pollers>>
      BY <2>1 DEF Sync!Signal, Sync!sync
    <3>2. /\ wants = [t \in SpecificTask |-> IF t = 0 THEN 0 ELSE None] /\ count[0] = 0
      BY <1>2, <1>3, <2>1 DEF WaitsForSemaphore
    <3>3. Sync(b)!Give(0)
      BY <2>1, <3>1, <3>2
      DEF Sync!tm_semaphore_put, Sync!freertos_semaphore_put
    <3>4. Sync(b)!Waiter(0) = {0}
      BY <3>2, <1>2, SpecificNames DEF Sync!Waiter
    <3>5. QED
      BY <2>1, <3>1, <3>3, <3>4 DEF Sync!Give
  <2>2. CASE b # "shipped"
    <3>1. Sync(b)!rtos_sync_signal /\ UNCHANGED <<count, wants>>
      BY <2>2 DEF Sync!Signal, Sync!semaphores
    <3>2. pollers = {0} /\ signals = 0 /\ (b = "FreeRTOS" => handle = 0)
      BY <1>2, <1>3, <2>2 DEF WaitsForSignal
    <3>3. /\ \E t \in pollers : Sync(b)!Unblock(t)
          /\ handle' = handle
          /\ signals' = IF b = "ThreadX" THEN 0 ELSE 1
      <4>1. handle' = handle
        BY <3>1 DEF Sync!rtos_sync_signal
      <4>2. CASE b = "FreeRTOS"
        <5>1. Sync(b)!freertos_sync_signal
          BY <2>2, <3>1, <4>2 DEF Sync!rtos_sync_signal
        <5>2. handle # NoTask
          BY <1>2, <3>2, <4>2
        <5>3. QED
          BY <3>2, <4>1, <4>2, <5>1, <5>2 DEF Sync!freertos_sync_signal
      <4>3. CASE b = "ThreadX"
        BY <3>1, <3>2, <4>1, <4>3
        DEF Sync!rtos_sync_signal, Sync!threadx_sync_signal, Sync!WakePoller
      <4>4. CASE b = "Zephyr"
        BY <3>1, <3>2, <4>1, <4>4
        DEF Sync!rtos_sync_signal, Sync!zephyr_sync_signal, Sync!WakePoller
      <4>5. QED
        BY <2>2, <4>2, <4>3, <4>4, SpecificNames
    <3>4. Sync(b)!MakeReady(0) /\ pollers' = {}
      BY <3>2, <3>3 DEF Sync!Unblock
    <3>5. QED
      BY <2>2, <3>1, <3>3, <3>4
  <2>3. QED
    BY <2>1, <2>2
<1>5. SpecificKernel(b)' /\ state' = [state EXCEPT ![0] = "ready"]
  BY <1>2, <1>4, SpecificWakes
<1>6. state'[0] = "ready" /\ state'[Main] = state[Main] /\ state'[1] = state[1]
  BY <1>2, <1>5
<1>7. IF b = "shipped" THEN WaitsForSemaphore' ELSE WaitsForSignal(b)'
  <2>1. CASE b = "shipped"
    <3>1. wants' = [t \in SpecificTask |-> None]
      BY <1>2, <1>3, <1>4, <2>1 DEF WaitsForSemaphore
    <3>2. QED
      BY <1>1, <1>2, <1>3, <1>4, <1>6, <2>1, <3>1 DEF WaitsForSemaphore
  <2>2. CASE b # "shipped"
    BY <1>1, <1>2, <1>3, <1>4, <1>6, <2>2 DEF WaitsForSignal
  <2>3. QED
    BY <2>1, <2>2
<1>8. Pending(b)'
  BY <1>1, <1>2, <1>3, <1>6 DEF Pending, WaitsForSemaphore, WaitsForSignal
<1>9. Tally(b)'
  <2>1. HeadStart(b) \in {0, 1}
    BY DEF HeadStart
  <2>2. Plus(Inc(signaled), HeadStart(b)) = Inc(synchronozation_counter)
    BY <1>2, <1>3, <2>1, TallySteps
  <2>3. QED
    BY <1>1, <1>8, <2>2 DEF Tally, HeadStart
<1>10. SpecificTypes'
  <2>1. signaled' \in Word
    BY <1>1, <1>2, IncType
  <2>2. /\ wants' \in [SpecificTask -> {0, 1, None}] /\ signals' \in Nat
        /\ pollers' \subseteq SpecificTask
    BY <1>2, <1>4 DEF SpecificTypes
  <2>3. QED
    BY <1>1, <1>2, <1>4, <2>1, <2>2 DEF SpecificTypes
<1>11. QED
  BY <1>1, <1>2, <1>5, <1>6, <1>7, <1>9, <1>10, SpecificWorks DEF Working

LEMMA SpecificReportInv ==
    ASSUME NEW b \in Build, SpecificInv(b),
           \/ Sync(b)!Sleep
           \/ Sync(b)!Report
           \/ Sync(b)!Wake
    PROVE  SpecificInv(b)'
<1>1. UNCHANGED <<count, wants, signals, handle, pollers, sync_calls,
                  synchronozation_counter, signaled>>
  BY DEF Sync!Sleep, Sync!Report, Sync!Wake, Sync!sync,
         Sync!semaphores
<1>2. /\ SpecificTypes /\ state \in [SpecificTask -> State]
      /\ sync_pc \in [SpecificTask -> SpecificLabel]
      /\ 0 \in SpecificTask /\ 1 \in SpecificTask /\ Main \in SpecificTask
      /\ Main # 0 /\ Main # 1 /\ synchronozation_counter \in Word
  BY SpecificFacts DEF SpecificTypes
<1>3. /\ SpecificKernel(b)' /\ Working(b) /\ SpecificTypes'
      /\ state'[Main] \in {"ready", "asleep"} /\ sync_pc'[Main] \in {"sleep", "report"}
      /\ state'[0] = state[0] /\ state'[1] = state[1] /\ sync_pc'[0] = sync_pc[0]
  <2>1. CASE Sync(b)!Sleep
    <3>1. /\ Sync(b)!Runs(Main) /\ sync_pc[Main] = "sleep"
          /\ Sync(b)!Block(Main, "asleep") /\ last_counter' = last_counter
          /\ sync_pc' = [sync_pc EXCEPT ![Main] = "report"]
      BY <2>1 DEF Sync!Sleep, Sync!tm_thread_sleep, Sync!Goto
    <3>2. SpecificKernel(b)' /\ state' = [state EXCEPT ![Main] = "asleep"]
      BY <1>2, <3>1, SpecificLeaves
    <3>3. Working(b)
      BY <3>1, SpecificFacts DEF Preparing
    <3>4. sync_pc' \in [SpecificTask -> SpecificLabel]
      BY <1>2, <3>1 DEF SpecificLabel
    <3>5. SpecificTypes'
      BY <1>1, <1>2, <3>1, <3>4 DEF SpecificTypes
    <3>6. QED
      BY <1>2, <3>1, <3>2, <3>3, <3>5
  <2>2. CASE Sync(b)!Report
    <3>1. /\ sync_pc[Main] = "report" /\ sync_pc' = [sync_pc EXCEPT ![Main] = "sleep"]
          /\ last_counter' = synchronozation_counter
          /\ UNCHANGED <<state, level, ready>>
      BY <2>2 DEF Sync!Report, Sync!Goto, Sync!kernel
    <3>2. Working(b) /\ SpecificKernel(b)'
      BY <3>1, SpecificFacts, SpecificStays DEF Preparing
    <3>3. sync_pc' \in [SpecificTask -> SpecificLabel]
      BY <1>2, <3>1 DEF SpecificLabel
    <3>4. SpecificTypes'
      BY <1>1, <1>2, <3>1, <3>3 DEF SpecificTypes
    <3>5. QED
      BY <1>2, <3>1, <3>2, <3>4 DEF Working
  <2>3. CASE Sync(b)!Wake
    <3>1. /\ state[Main] = "asleep" /\ Sync(b)!MakeReady(Main)
          /\ UNCHANGED <<sync_pc, last_counter>>
      BY <2>3 DEF Sync!Wake, Sync!TickWakes
    <3>2. SpecificKernel(b)' /\ state' = [state EXCEPT ![Main] = "ready"]
      BY <1>2, <3>1, SpecificWakes
    <3>3. Working(b)
      BY <3>1, SpecificFacts DEF Preparing
    <3>4. SpecificTypes'
      BY <1>1, <1>2, <3>1 DEF SpecificTypes
    <3>5. QED
      BY <1>2, <3>1, <3>2, <3>3, <3>4 DEF Working
  <2>4. QED
    BY <2>1, <2>2, <2>3
<1>4. /\ IF b = "shipped" THEN WaitsForSemaphore' ELSE WaitsForSignal(b)'
      /\ Tally(b)'
  BY <1>1, <1>3 DEF Working, WaitsForSemaphore, WaitsForSignal, Tally, Pending, HeadStart
<1>5. QED
  BY <1>1, <1>3, <1>4, SpecificWorks DEF Working

LEMMA SpecificSame ==
    ASSUME NEW b \in Build, SpecificInv(b),
           UNCHANGED <<state, level, ready, count, wants, signals, handle, pollers,
                       sync_calls, sync_pc,
                       synchronozation_counter, last_counter, signaled>>
    PROVE  SpecificInv(b)'
<1>1. SpecificKernel(b)'
  BY SpecificStays
<1>2. SpecificTypes'
  BY DEF SpecificInv, SpecificTypes
<1>3. (Preparing(b) \/ Working(b))'
  BY DEF SpecificInv, Preparing, Working, WaitsForSemaphore, WaitsForSignal, Tally,
         Pending, HeadStart
<1>4. QED
  BY <1>1, <1>2, <1>3 DEF SpecificInv

-----------------------------------------------------------------------------
(* Its theorem.                                                            *)

SpecificBuilds == \A b \in Build : sync_build = b => SpecificInv(b)

LEMMA SpecificBuildsInit ==
    ASSUME SpecificInit PROVE SpecificBuilds /\ sync_build \in Build
  BY SpecificInitInv DEF SpecificInit, SpecificBuilds, Build

LEMMA SpecificBuildsNext ==
    ASSUME SpecificBuilds, sync_build \in Build,
           [SpecificNext]_specificvars
    PROVE  (SpecificBuilds /\ sync_build \in Build)'
<1>1. sync_build' = sync_build
  BY DEF SpecificNext, SpecificMainStep, SpecificWake, SpecificThreadStep, specificvars
<1>2. SUFFICES ASSUME NEW b \in Build, sync_build = b, SpecificInv(b) PROVE SpecificInv(b)'
  BY <1>1 DEF SpecificBuilds
<1>3. CASE UNCHANGED specificvars
  BY <1>2, <1>3, SpecificSame DEF specificvars, kernel, semaphores, sync
<1>4. CASE SpecificMainStep
  <2>1. Sync(b)!MainStep
    BY <1>2, <1>4 DEF SpecificMainStep, Build
  <2>2. QED
    BY <1>2, <2>1, SpecificInitializeInv, SpecificReportInv DEF Sync!MainStep
<1>5. CASE SpecificWake
  <2>1. Sync(b)!Wake
    BY <1>2, <1>5 DEF SpecificWake, Build
  <2>2. QED
    BY <1>2, <2>1, SpecificReportInv
<1>6. CASE SpecificThreadStep
  <2>1. Sync(b)!ThreadStep
    BY <1>2, <1>6 DEF SpecificThreadStep, Build
  <2>2. QED
    BY <1>2, <2>1, SpecificWaitInv, SpecificWaitEndInv, SpecificCountInv, SpecificSignalInv
    DEF Sync!ThreadStep
<1>7. QED
  BY <1>3, <1>4, <1>5, <1>6 DEF SpecificNext

\* What the invariant says of the counters.
LEMMA SpecificCounted ==
    ASSUME NEW b \in Build, SpecificInv(b)
    PROVE  Sync(b)!EverySignalCounted
<1>1. Sync(b)!Uncounted = Minus(Plus(signaled, HeadStart(b)), synchronozation_counter)
  BY SpecificNames
  DEF Sync!Uncounted, Sync!HeadStart, Sync!Minus,
      Sync!Plus, Minus, Plus, HeadStart
<1>2. signaled \in Word /\ synchronozation_counter \in Word /\ HeadStart(b) \in {0, 1}
      /\ 1 \in SpecificTask /\ 1 # Main
  BY SpecificFacts DEF HeadStart
<1>3. CASE Preparing(b)
  <2>1. Minus(Plus(0, HeadStart(b)), 0) = HeadStart(b)
    BY <1>2, MaxWordAssumption DEF Minus, Plus
  <2>2. ~Sync(b)!Runs(1)
    BY <1>2, <1>3, SpecificTurn DEF Working, Preparing
  <2>3. QED
    BY <1>1, <1>2, <1>3, <2>1, <2>2
    DEF Sync!EverySignalCounted, Sync!Signaling, Preparing
<1>4. CASE Working(b)
  <2>1. Minus(Plus(signaled, HeadStart(b)), synchronozation_counter) =
          IF Pending(b) THEN 1 ELSE 0
    BY <1>2, <1>4, TallySteps DEF Working, Tally
  <2>2. Sync(b)!Runs(1) => ~Pending(b)
    BY <1>2, SpecificTurn DEF Pending
  <2>3. QED
    BY <1>1, <2>1, <2>2
    DEF Sync!EverySignalCounted, Sync!Signaling
<1>5. QED
  BY <1>3, <1>4 DEF SpecificInv

LEMMA SpecificTyped ==
    ASSUME NEW b \in Build, SpecificInv(b)
    PROVE  Sync(b)!TypeOK
<1>1. KernelTypes(SpecificTask, SpecificLevel) /\ SpecificTypes
  BY FixedTypes DEF SpecificInv, SpecificKernel
<1>2. Sync(b)!KernelTypeOK
  BY <1>1, SpecificNames DEF KernelTypes, Sync!KernelTypeOK
<1>3. Sync(b)!SemaphoreTypeOK
  <2>1. {0, 1, None} = (0 .. 1) \cup {None}
    OBVIOUS
  <2>2. QED
    BY <1>1, <2>1, SpecificNames DEF SpecificTypes, Sync!SemaphoreTypeOK
<1>4. Sync(b)!SyncTypeOK
  BY <1>1, SpecificNames DEF SpecificTypes, Sync!SyncTypeOK
<1>5. /\ sync_calls \in 0 .. 9 /\ sync_pc \in [SpecificTask -> Sync(b)!Label]
      /\ {synchronozation_counter, last_counter, signaled} \subseteq Sync(b)!Word
  BY <1>1
  DEF SpecificTypes, SpecificLabel, Sync!Label, Sync!Word, Word
<1>6. QED
  BY <1>2, <1>3, <1>4, <1>5, SpecificNames DEF Sync!TypeOK

(***************************************************************************)
(* With each of the four mechanisms every signal is counted once, however  *)
(* often the counters wrap: at most the last one is still to be counted,   *)
(* and none when the signaling task has the processor                      *)
(* (specific_synchronization_test.c:43-108 and the porting layers).        *)
(***************************************************************************)
THEOREM SpecificSignalsCounted ==
    SpecificSpec => []EverySignalCounted
<1>1. SpecificInit => SpecificBuilds /\ sync_build \in Build
  BY SpecificBuildsInit
<1>2. /\ SpecificBuilds /\ sync_build \in Build /\ [SpecificNext]_specificvars
      => (SpecificBuilds /\ sync_build \in Build)'
  BY SpecificBuildsNext
<1>3. SpecificBuilds /\ sync_build \in Build => EverySignalCounted
  BY SpecificCounted, SpecificTyped
  DEF SpecificBuilds, Build, EverySignalCounted, SpecificTypeOK
<1>4. QED
  BY <1>1, <1>2, <1>3, PTL DEF SpecificSpec
=============================================================================
