-------------------------- MODULE MCInterruptsProofs --------------------------
(***************************************************************************)
(* Proofs about the two interrupt benchmarks, for every word size and      *)
(* number of priorities, for ThreadX and Zephyr and for an interrupt that  *)
(* is taken at once or after any number of statements.                     *)
(*                                                                         *)
(* The invariant of each test follows one interrupt through the actors:    *)
(* what has been raised is pending, or counted by the handler and in the   *)
(* hands of the thread it woke, or counted by everyone.                    *)
(***************************************************************************)
EXTENDS MCInterrupts, TmLemmas

LEMMA InterruptNames ==
    /\ Thread = {0, 1} /\ Main \notin {0, 1} /\ Task = {0, 1, Main}
    /\ Port \in {"ThreadX", "Zephyr"}
    /\ Semaphore = {0} /\ None # 0
    /\ 1 \in Level /\ 3 \in Level /\ 10 \in Level
  BY InterruptsConfiguration, MainAssumption, MaxPrioritiesAssumption
  DEF Configuration, Processing!Configuration, Task, Level

\* On these ports a thread is created suspended, on the level of its priority.
LEMMA CreatedSuspended ==
    ASSUME NEW t \in Thread, NEW priority \in {3, 10}, tm_thread_create(t, priority)
    PROVE  AddSuspended(t, priority)
  BY InterruptNames DEF tm_thread_create, threadx_thread_create, zephyr_thread_create

-----------------------------------------------------------------------------
(* The interrupt preemption benchmark.                                     *)

\* The priorities of the tasks that exist.
Ranks ==
    /\ level[Main] = 1
    /\ state[0] # "absent" => level[0] = 3
    /\ state[1] # "absent" => level[1] = 10

\* The main task creates both threads and resumes thread 1 before it sleeps.
Starting ==
    /\ calls < 3 => state[Main] = "ready" /\ pc[Main] = "initialize"
    /\ state[0] \in IF calls = 0 THEN {"absent"}
                    ELSE IF calls < 3 THEN {"suspended"}
                    ELSE {"suspended", "ready"}
    /\ state[1] = IF calls < 2 THEN "absent" ELSE IF calls = 2 THEN "suspended" ELSE "ready"

ThreadLabels == pc[0] \in {"count", "suspend"} /\ pc[1] \in {"raise", "count"}

\* From the handler to thread 0: it is suspended whenever an interrupt is
\* pending, and behind the handler by the interrupt it was resumed for.
Woken ==
    /\ pending => calls = 3 /\ state[0] = "suspended"
    /\ state[0] # "ready" => pc[0] = "count"
    /\ handler_counter = IF state[0] = "ready" /\ pc[0] = "count" THEN Inc(counter[0])
                         ELSE counter[0]

\* From thread 1 to the handler: what thread 1 has raised is pending, or the
\* handler has counted it, before or after thread 1 does.
Raised ==
    /\ pc[1] = "count" => IF pending THEN counter[1] = handler_counter
                          ELSE handler_counter = Inc(counter[1])
    /\ pc[1] = "raise" => IF pending THEN counter[1] = Inc(handler_counter)
                          ELSE counter[1] = handler_counter

PreemptionInv ==
    /\ TypeOK
    /\ KernelInv
    /\ Ranks
    /\ Starting
    /\ ThreadLabels
    /\ Woken
    /\ Raised

LEMMA PreemptionTypes ==
    ASSUME PreemptionInv
    PROVE  /\ state \in [Task -> State] /\ level \in [Task -> Level]
           /\ pc \in [Task -> Label] /\ calls \in 0 .. 3
           /\ counter \in [{0, 1} -> Word] /\ handler_counter \in Word /\ last_total \in Word
           /\ 0 \in Task /\ 1 \in Task /\ Main \in Task
  BY InterruptNames DEF PreemptionInv, TypeOK, KernelTypeOK

LEMMA PreemptionBooleans ==
    ASSUME PreemptionInv
    PROVE  pending \in BOOLEAN /\ enabled \in BOOLEAN /\ alarm \in BOOLEAN
  BY DEF PreemptionInv, TypeOK, InterruptTypeOK

LEMMA PreemptionTypesJoin ==
    ASSUME KernelInv', pc' \in [Task -> Label], calls' \in 0 .. 3,
           counter' \in [{0, 1} -> Word], handler_counter' \in Word, last_total' \in Word,
           pending' \in BOOLEAN, enabled' \in BOOLEAN, alarm' \in BOOLEAN
    PROVE  TypeOK'
<1>1. InterruptTypeOK'
  BY DEF InterruptTypeOK
<1>2. KernelTypeOK'
  BY DEF KernelInv
<1>3. QED
  BY <1>1, <1>2, InterruptNames DEF TypeOK

LEMMA PreemptionInit == ASSUME Init PROVE PreemptionInv
<1>1. KernelInv /\ \A t \in Thread : state[t] = "absent"
  BY InitKernel DEF Init
<1>2. StartedWith(1)
  BY InterruptNames DEF Init, KernelInit, rtos_main_threadx, rtos_main_zephyr
<1>3. level[Main] = 1 /\ state[Main] = "ready"
  BY <1>2, InterruptNames DEF StartedWith
<1>4. /\ calls = 0 /\ handler_counter = 0 /\ last_total = 0
      /\ counter \in [{0, 1} -> {0}]
      /\ pc \in [Task -> Label] /\ pc[0] = "count" /\ pc[1] = "raise"
      /\ pc[Main] = "initialize"
  BY InterruptNames DEF Init, Label
<1>5. pending = FALSE /\ enabled = TRUE
  BY InterruptNames DEF Init, InterruptInit, threadx_setup_interrupt, zephyr_setup_interrupt
<1>6. alarm = FALSE
  BY DEF Init
<1>7. 0 \in Word
  BY MaxWordAssumption DEF Word
<1>8. TypeOK
  <2>1. InterruptTypeOK /\ alarm \in BOOLEAN
    BY <1>5, <1>6 DEF InterruptTypeOK
  <2>2. counter \in [Thread -> Word] /\ {handler_counter, last_total} \subseteq Word
    BY <1>4, <1>7, InterruptNames
  <2>3. QED
    BY <1>1, <1>4, <2>1, <2>2 DEF TypeOK, KernelInv
<1>9. Ranks /\ Starting /\ ThreadLabels
  BY <1>1, <1>3, <1>4, <1>5, InterruptNames DEF Ranks, Starting, ThreadLabels
<1>10. Woken /\ Raised
  BY <1>1, <1>4, <1>5, InterruptNames DEF Woken, Raised
<1>11. QED
  BY <1>1, <1>8, <1>9, <1>10 DEF PreemptionInv

\* A thread runs after the initialisation, and thread 1 only while thread 0,
\* the more urgent one, is suspended.
LEMMA ThreadRuns ==
    ASSUME PreemptionInv, NEW t \in {0, 1}, Runs(t)
    PROVE  calls = 3 /\ state[t] = "ready" /\ (t = 1 => state[0] = "suspended")
<1>1. state[t] = "ready" /\ t \in Task
  BY InterruptNames DEF Runs
<1>2. level[t] \in {3, 10} /\ level[Main] = 1
  BY <1>1 DEF PreemptionInv, Ranks
<1>3. state[Main] # "ready"
  BY <1>1, <1>2, RunningIsMostUrgent, InterruptNames DEF PreemptionInv, MoreUrgent
<1>4. calls = 3
  BY <1>3, PreemptionTypes DEF PreemptionInv, Starting
<1>5. ASSUME t = 1 PROVE state[0] # "ready"
  <2>1. level[1] = 10 /\ (state[0] = "ready" => level[0] = 3)
    BY <1>1, <1>5 DEF PreemptionInv, Ranks
  <2>2. QED
    BY <1>1, <1>5, <2>1, RunningIsMostUrgent, InterruptNames DEF PreemptionInv, MoreUrgent
<1>6. QED
  BY <1>1, <1>4, <1>5 DEF PreemptionInv, Starting

\* A step of the main task or the tick.
LEMMA MainFrame ==
    ASSUME PreemptionInv, KernelInv', UNCHANGED <<counter, handler_counter>>,
           UNCHANGED interrupts,
           pc' \in [Task -> Label], pc'[0] = pc[0], pc'[1] = pc[1],
           calls' \in 0 .. 3, last_total' \in Word, alarm' \in BOOLEAN,
           Ranks', Starting',
           state[0] = "ready" <=> state'[0] = "ready",
           state[0] = "suspended" => state'[0] = "suspended",
           calls = 3 => calls' = 3
    PROVE  PreemptionInv'
<1>1. pending' = pending /\ enabled' = enabled
  BY DEF interrupts
<1>2. TypeOK'
  BY <1>1, PreemptionTypes, PreemptionBooleans, PreemptionTypesJoin
<1>3. ThreadLabels'
  BY DEF PreemptionInv, ThreadLabels
<1>4. Woken' /\ Raised'
  BY <1>1 DEF PreemptionInv, Woken, Raised
<1>5. QED
  BY <1>2, <1>3, <1>4 DEF PreemptionInv

\* A step of a thread or the handler.
LEMMA ThreadFrame ==
    ASSUME PreemptionInv, calls = 3, KernelInv', level' = level,
           UNCHANGED <<calls, last_total, alarm, enabled>>,
           pending' \in BOOLEAN, pc' \in [Task -> Label],
           counter' \in [{0, 1} -> Word], handler_counter' \in Word,
           state'[0] \in {"suspended", "ready"}, state'[1] = state[1],
           ThreadLabels', Woken', Raised'
    PROVE  PreemptionInv'
<1>1. enabled' \in BOOLEAN /\ alarm' \in BOOLEAN
  BY PreemptionBooleans
<1>2. TypeOK'
  BY <1>1, PreemptionTypes, PreemptionTypesJoin
<1>3. Ranks'
  BY DEF PreemptionInv, Ranks, Starting
<1>4. Starting'
  BY DEF PreemptionInv, Starting
<1>5. QED
  BY <1>2, <1>3, <1>4 DEF PreemptionInv

-----------------------------------------------------------------------------

LEMMA PreemptionInitialize == ASSUME PreemptionInv, Initialize PROVE PreemptionInv'
<1>1. /\ Runs(Main) /\ pc[Main] = "initialize" /\ calls' = calls + 1 /\ calls \in 0 .. 2
      /\ UNCHANGED <<counter, handler_counter, interrupts, last_total>>
      /\ pc' = [pc EXCEPT ![Main] = IF calls' = 3 THEN "sleep" ELSE "initialize"]
  BY DEF Initialize, Goto, report
<1>2. alarm' \in BOOLEAN /\ pending' = pending
  BY PreemptionBooleans DEF Initialize, report, interrupts
<1>3. /\ pc' \in [Task -> Label] /\ pc'[0] = pc[0] /\ pc'[1] = pc[1]
      /\ calls' \in 0 .. 3 /\ last_total' \in Word
  BY <1>1, PreemptionTypes, InterruptNames DEF Label
<1>4. state[Main] = "ready" /\ level[Main] = 1
  BY <1>1 DEF Runs, PreemptionInv, Ranks, Starting
<1>5. CASE calls = 0
  <2>1. AddSuspended(0, 3)
    BY <1>5, InterruptNames, CreatedSuspended DEF Initialize
  <2>2. KernelInv'
    BY <2>1, InterruptNames, AddSuspendedKernel DEF PreemptionInv
  <2>3. /\ state'[0] = "suspended" /\ state'[1] = state[1] /\ state'[Main] = state[Main]
        /\ level'[0] = 3 /\ level'[1] = level[1] /\ level'[Main] = level[Main]
    BY <2>1, PreemptionTypes, InterruptNames DEF AddSuspended
  <2>4. state[0] = "absent" /\ state[1] = "absent"
    BY <1>5 DEF PreemptionInv, Starting
  <2>5. Ranks' /\ Starting'
    BY <1>1, <1>2, <1>3, <1>4, <1>5, <2>3, <2>4 DEF Ranks, Starting
  <2>6. QED
    BY <1>1, <1>2, <1>3, <2>2, <2>3, <2>4, <2>5, MainFrame
<1>6. CASE calls = 1
  <2>1. AddSuspended(1, 10)
    BY <1>6, InterruptNames, CreatedSuspended DEF Initialize
  <2>2. KernelInv'
    BY <2>1, InterruptNames, AddSuspendedKernel DEF PreemptionInv
  <2>3. /\ state'[1] = "suspended" /\ state'[0] = state[0] /\ state'[Main] = state[Main]
        /\ level'[1] = 10 /\ level'[0] = level[0] /\ level'[Main] = level[Main]
    BY <2>1, PreemptionTypes, InterruptNames DEF AddSuspended
  <2>4. state[0] = "suspended" /\ state[1] = "absent" /\ level[0] = 3
    BY <1>6 DEF PreemptionInv, Starting, Ranks
  <2>5. Ranks' /\ Starting'
    BY <1>1, <1>2, <1>3, <1>4, <1>6, <2>3, <2>4 DEF Ranks, Starting
  <2>6. QED
    BY <1>1, <1>2, <1>3, <2>2, <2>3, <2>4, <2>5, MainFrame
<1>7. CASE calls = 2
  <2>1. tm_thread_resume(1)
    BY <1>7 DEF Initialize
  <2>2. state[0] = "suspended" /\ state[1] = "suspended" /\ level[0] = 3 /\ level[1] = 10
    BY <1>7 DEF PreemptionInv, Starting, Ranks
  <2>3. /\ KernelInv' /\ level' = level /\ state' = [state EXCEPT ![1] = "ready"]
    BY <2>1, <2>2, InterruptNames, ResumeKernel DEF PreemptionInv
  <2>4. state'[1] = "ready" /\ state'[0] = "suspended" /\ state'[Main] = state[Main]
    BY <2>2, <2>3, PreemptionTypes, InterruptNames
  <2>5. Ranks' /\ Starting'
    BY <1>1, <1>2, <1>3, <1>4, <1>7, <2>2, <2>3, <2>4 DEF Ranks, Starting
  <2>6. QED
    BY <1>1, <1>2, <1>3, <2>2, <2>3, <2>4, <2>5, MainFrame
<1>8. QED
  BY <1>1, <1>5, <1>6, <1>7

LEMMA PreemptionReporter ==
    ASSUME PreemptionInv, Sleep \/ Wake \/ Report
    PROVE  PreemptionInv'
<1>1. /\ UNCHANGED <<counter, handler_counter, interrupts, calls>>
      /\ \/ pc' = pc
         \/ \E label \in Label : pc' = [pc EXCEPT ![Main] = label]
      /\ last_total' \in {last_total, handler_counter}
  BY DEF Sleep, Wake, Report, report, Goto, Label
<1>2. alarm' \in BOOLEAN
  BY PreemptionBooleans DEF Sleep, Wake, Report, report, ErrorLine
<1>3. /\ pc' \in [Task -> Label] /\ pc'[0] = pc[0] /\ pc'[1] = pc[1]
      /\ calls' \in 0 .. 3 /\ last_total' \in Word
  BY <1>1, PreemptionTypes, InterruptNames
<1>4. /\ KernelInv' /\ level' = level /\ state'[0] = state[0] /\ state'[1] = state[1]
      /\ calls = 3
  <2>1. CASE Sleep
    <3>1. Runs(Main) /\ pc[Main] = "sleep" /\ Block(Main, "asleep")
      BY <2>1 DEF Sleep, tm_thread_sleep
    <3>2. KernelInv'
      BY <3>1, PreemptionTypes, LeavesFirst DEF PreemptionInv, State
    <3>3. level' = level /\ state'[0] = state[0] /\ state'[1] = state[1]
      BY <3>1, PreemptionTypes, InterruptNames DEF Block
    <3>4. calls = 3
      BY <3>1, PreemptionTypes DEF PreemptionInv, Starting
    <3>5. QED
      BY <3>2, <3>3, <3>4
  <2>2. CASE Wake
    <3>1. state[Main] = "asleep" /\ MakeReady(Main)
      BY <2>2 DEF Wake, TickWakes
    <3>2. KernelInv'
      BY <3>1, PreemptionTypes, MakeReadyKernel DEF PreemptionInv
    <3>3. calls = 3
      BY <3>1, PreemptionTypes DEF PreemptionInv, Starting
    <3>4. QED
      BY <3>1, <3>2, <3>3, PreemptionTypes, InterruptNames DEF MakeReady
  <2>3. CASE Report
    <3>1. UNCHANGED kernel /\ pc[Main] = "report"
      BY <2>3 DEF Report
    <3>2. KernelInv'
      BY <3>1, SameKernel DEF PreemptionInv
    <3>3. calls = 3
      BY <3>1, PreemptionTypes DEF PreemptionInv, Starting
    <3>4. QED
      BY <3>1, <3>2, <3>3 DEF kernel
  <2>4. QED
    BY <2>1, <2>2, <2>3
<1>5. Ranks' /\ Starting'
  BY <1>1, <1>4 DEF PreemptionInv, Ranks, Starting
<1>6. QED
  BY <1>1, <1>2, <1>3, <1>4, <1>5, MainFrame

LEMMA PreemptionRaise == ASSUME PreemptionInv, Raise PROVE PreemptionInv'
<1>1. /\ Runs(1) /\ pc[1] = "raise"
      /\ pc' = [pc EXCEPT ![1] = "count"]
      /\ UNCHANGED <<kernel, calls, counter, handler_counter, last_total>>
  BY DEF Raise, Goto, report
<1>2. ~pending /\ pending' = TRUE /\ enabled' = enabled /\ alarm' = alarm
  BY DEF Raise, tm_interrupt_raise, report
<1>3. KernelInv' /\ UNCHANGED <<state, level>>
  BY <1>1, SameKernel DEF PreemptionInv, kernel
<1>4. calls = 3 /\ state[0] = "suspended"
  BY <1>1, ThreadRuns
<1>5. pc' \in [Task -> Label] /\ pc'[1] = "count" /\ pc'[0] = pc[0]
  BY <1>1, PreemptionTypes, InterruptNames DEF Label
<1>6. ThreadLabels' /\ Woken'
  BY <1>1, <1>3, <1>4, <1>5 DEF PreemptionInv, ThreadLabels, Woken
<1>7. Raised'
  <2>1. counter[1] = handler_counter
    BY <1>1, <1>2 DEF PreemptionInv, Raised
  <2>2. QED
    BY <1>1, <1>2, <1>5, <2>1 DEF Raised
<1>8. pending' \in BOOLEAN
  BY <1>2
<1>9. QED
  BY <1>1, <1>2, <1>3, <1>4, <1>5, <1>6, <1>7, <1>8, PreemptionTypes, ThreadFrame

LEMMA PreemptionCount0 == ASSUME PreemptionInv, Count(0) PROVE PreemptionInv'
<1>1. /\ Runs(0) /\ pc[0] = "count"
      /\ pc' = [pc EXCEPT ![0] = "suspend"]
      /\ counter' = [counter EXCEPT ![0] = Inc(@)]
      /\ UNCHANGED <<kernel, interrupts, calls, handler_counter, last_total>>
  BY DEF Count, Goto, report
<1>2. pending' = pending /\ enabled' = enabled /\ alarm' = alarm
  BY DEF Count, interrupts, report
<1>3. KernelInv' /\ UNCHANGED <<state, level>>
  BY <1>1, SameKernel DEF PreemptionInv, kernel
<1>4. calls = 3 /\ state[0] = "ready"
  BY <1>1, ThreadRuns
<1>5. pc' \in [Task -> Label] /\ pc'[0] = "suspend" /\ pc'[1] = pc[1]
  BY <1>1, PreemptionTypes, InterruptNames DEF Label
<1>6. /\ counter' \in [{0, 1} -> Word] /\ counter'[0] = Inc(counter[0])
      /\ counter'[1] = counter[1]
  BY <1>1, PreemptionTypes, IncType
<1>7. handler_counter = Inc(counter[0])
  BY <1>1, <1>4 DEF PreemptionInv, Woken
<1>8. ThreadLabels' /\ Woken'
  BY <1>1, <1>2, <1>3, <1>4, <1>5, <1>6, <1>7 DEF PreemptionInv, ThreadLabels, Woken
<1>9. Raised'
  BY <1>1, <1>2, <1>5, <1>6 DEF PreemptionInv, Raised
<1>10. pending' \in BOOLEAN
  BY <1>2, PreemptionBooleans
<1>11. QED
  BY <1>1, <1>2, <1>3, <1>4, <1>5, <1>6, <1>8, <1>9, <1>10, PreemptionTypes, ThreadFrame

\* Thread 1 counts what it has raised, before the handler or after it.
LEMMA PreemptionCount1 == ASSUME PreemptionInv, Count(1) PROVE PreemptionInv'
<1>1. /\ Runs(1) /\ pc[1] = "count"
      /\ pc' = [pc EXCEPT ![1] = "raise"]
      /\ counter' = [counter EXCEPT ![1] = Inc(@)]
      /\ UNCHANGED <<kernel, interrupts, calls, handler_counter, last_total>>
  BY DEF Count, Goto, report
<1>2. pending' = pending /\ enabled' = enabled /\ alarm' = alarm
  BY DEF Count, interrupts, report
<1>3. KernelInv' /\ UNCHANGED <<state, level>>
  BY <1>1, SameKernel DEF PreemptionInv, kernel
<1>4. calls = 3 /\ state[0] = "suspended"
  BY <1>1, ThreadRuns
<1>5. pc' \in [Task -> Label] /\ pc'[1] = "raise" /\ pc'[0] = pc[0]
  BY <1>1, PreemptionTypes, InterruptNames DEF Label
<1>6. /\ counter' \in [{0, 1} -> Word] /\ counter'[1] = Inc(counter[1])
      /\ counter'[0] = counter[0]
  BY <1>1, PreemptionTypes, IncType
<1>7. ThreadLabels' /\ Woken'
  BY <1>1, <1>2, <1>3, <1>4, <1>5, <1>6 DEF PreemptionInv, ThreadLabels, Woken
<1>8. Raised'
  BY <1>1, <1>2, <1>5, <1>6 DEF PreemptionInv, Raised
<1>9. pending' \in BOOLEAN
  BY <1>2, PreemptionBooleans
<1>10. QED
  BY <1>1, <1>2, <1>3, <1>4, <1>5, <1>6, <1>7, <1>8, <1>9, PreemptionTypes, ThreadFrame

LEMMA PreemptionSuspend == ASSUME PreemptionInv, Suspend PROVE PreemptionInv'
<1>1. /\ Runs(0) /\ pc[0] = "suspend" /\ Block(0, "suspended")
      /\ pc' = [pc EXCEPT ![0] = "count"]
      /\ UNCHANGED <<interrupts, calls, counter, handler_counter, last_total>>
  BY DEF Suspend, Goto, report, tm_thread_suspend
<1>2. pending' = pending /\ enabled' = enabled /\ alarm' = alarm
  BY DEF Suspend, interrupts, report
<1>3. KernelInv'
  BY <1>1, InterruptNames, LeavesFirst DEF PreemptionInv, State
<1>4. level' = level /\ state'[0] = "suspended" /\ state'[1] = state[1]
  BY <1>1, PreemptionTypes DEF Block
<1>5. calls = 3 /\ state[0] = "ready"
  BY <1>1, ThreadRuns
<1>6. pc' \in [Task -> Label] /\ pc'[0] = "count" /\ pc'[1] = pc[1]
  BY <1>1, PreemptionTypes, InterruptNames DEF Label
<1>7. handler_counter = counter[0]
  BY <1>1 DEF PreemptionInv, Woken
<1>8. ThreadLabels' /\ Woken'
  BY <1>1, <1>2, <1>4, <1>5, <1>6, <1>7 DEF PreemptionInv, ThreadLabels, Woken
<1>9. Raised'
  BY <1>1, <1>2, <1>6 DEF PreemptionInv, Raised
<1>10. pending' \in BOOLEAN
  BY <1>2, PreemptionBooleans
<1>11. QED
  BY <1>1, <1>2, <1>3, <1>4, <1>5, <1>6, <1>8, <1>9, <1>10, PreemptionTypes, ThreadFrame

LEMMA PreemptionHandler ==
    ASSUME PreemptionInv, tm_interrupt_preemption_handler
    PROVE  PreemptionInv'
<1>1. /\ tm_thread_resume(0) /\ handler_counter' = Inc(handler_counter)
      /\ UNCHANGED <<calls, pc, counter, last_total>>
  BY DEF tm_interrupt_preemption_handler, report
<1>2. pending /\ pending' = FALSE /\ enabled' = enabled /\ alarm' = alarm
  BY DEF tm_interrupt_preemption_handler, tm_interrupt_handler, report
<1>3. calls = 3 /\ state[0] = "suspended"
  BY <1>2 DEF PreemptionInv, Woken
<1>4. KernelInv' /\ level' = level /\ state' = [state EXCEPT ![0] = "ready"]
  BY <1>1, <1>3, InterruptNames, ResumeKernel DEF PreemptionInv
<1>5. state'[0] = "ready" /\ state'[1] = state[1]
  BY <1>4, PreemptionTypes
<1>6. pc[0] = "count" /\ handler_counter = counter[0]
  BY <1>3 DEF PreemptionInv, Woken
<1>7. handler_counter' \in Word /\ pc' \in [Task -> Label] /\ counter' \in [{0, 1} -> Word]
  BY <1>1, PreemptionTypes, IncType
<1>8. ThreadLabels' /\ Woken'
  BY <1>1, <1>2, <1>5, <1>6 DEF PreemptionInv, ThreadLabels, Woken
<1>9. Raised'
  BY <1>1, <1>2 DEF PreemptionInv, Raised
<1>10. pending' \in BOOLEAN
  BY <1>2
<1>11. QED
  BY <1>1, <1>2, <1>3, <1>4, <1>5, <1>7, <1>8, <1>9, <1>10, ThreadFrame

LEMMA PreemptionNext == ASSUME PreemptionInv, [Next]_vars PROVE PreemptionInv'
<1>1. CASE UNCHANGED vars
  <2>1. /\ UNCHANGED <<kernel, interrupts, calls, pc, counter, handler_counter, last_total>>
        /\ alarm' = alarm
    BY <1>1 DEF vars, report
  <2>2. KernelInv' /\ UNCHANGED <<state, level>>
    BY <2>1, SameKernel DEF PreemptionInv, kernel
  <2>3. Ranks' /\ Starting'
    BY <2>1, <2>2 DEF PreemptionInv, Ranks, Starting
  <2>4. alarm' \in BOOLEAN
    BY <2>1, PreemptionBooleans
  <2>5. QED
    BY <2>1, <2>2, <2>3, <2>4, PreemptionTypes, MainFrame
<1>2. CASE ThreadStep
  <2>1. ASSUME NEW t \in Thread, Count(t) PROVE Count(0) \/ Count(1)
    <3>1. t = 0 \/ t = 1
      BY <2>1, InterruptNames
    <3>2. QED
      BY <2>1, <3>1
  <2>2. QED
    BY <1>2, <2>1, PreemptionRaise, PreemptionCount0, PreemptionCount1, PreemptionSuspend
    DEF ThreadStep
<1>3. QED
  BY <1>1, <1>2, PreemptionInitialize, PreemptionReporter, PreemptionHandler
  DEF Next, MainStep

-----------------------------------------------------------------------------
(* What the preemption benchmark promises.                                 *)

\* Three counters at most one apart, without a wrap, satisfy the report's check.
LEMMA ThreeInStep ==
    ASSUME NEW w \in Nat, w >= 1, 3 * w <= MaxWord,
           counter[0] \in {w, w - 1}, counter[1] \in {w, w - 1},
           handler_counter \in {w, w - 1},
           counter[0] >= 1, counter[1] >= 1, handler_counter >= 1
    PROVE  ~ErrorLine
<1>1. MaxWord \in Nat
  BY MaxWordAssumption
<1>2. CounterTotal = counter[0] + counter[1] + handler_counter
  BY <1>1 DEF CounterTotal, Plus
<1>3. CounterTotal \in Nat /\ CounterTotal <= 3 * w /\ CounterTotal >= 3 * (w - 1)
      /\ CounterTotal >= 3
  BY <1>2
<1>4. CounterAverage \in {w, w - 1} /\ CounterAverage >= 1
  BY <1>3 DEF CounterAverage
<1>5. Minus(CounterAverage, 1) = CounterAverage - 1
  BY <1>4 DEF Minus
<1>6. Plus(CounterAverage, 1) = CounterAverage + 1
  BY <1>1, <1>4, MaxWordAssumption DEF Plus
<1>7. QED
  BY <1>4, <1>5, <1>6 DEF ErrorLine

LEMMA PreemptionAlarm == ASSUME PreemptionInv PROVE NoFalseAlarm
<1> SUFFICES ASSUME \A c \in {counter[0], counter[1], handler_counter} :
                        c >= 1 /\ 3 * c <= MaxWord
             PROVE  ~ErrorLine
  BY DEF NoFalseAlarm
<1>1. /\ counter[0] \in Nat /\ counter[1] \in Nat /\ handler_counter \in Nat
      /\ MaxWord \in Nat
  BY PreemptionTypes, MaxWordAssumption DEF Word
<1>2. /\ Inc(counter[0]) = counter[0] + 1 /\ Inc(counter[1]) = counter[1] + 1
      /\ Inc(handler_counter) = handler_counter + 1
  BY <1>1 DEF Inc
<1>3. pc[1] \in {"raise", "count"}
  BY DEF PreemptionInv, ThreadLabels
<1>4. CASE pending
  <2>1. handler_counter = counter[0]
    BY <1>4 DEF PreemptionInv, Woken
  <2>2. counter[1] = handler_counter \/ counter[1] = handler_counter + 1
    BY <1>2, <1>3, <1>4 DEF PreemptionInv, Raised
  <2>3. QED
    BY <1>1, <2>1, <2>2, ThreeInStep
<1>5. CASE ~pending
  <2>1. handler_counter = counter[0] \/ handler_counter = counter[0] + 1
    BY <1>2 DEF PreemptionInv, Woken
  <2>2. counter[1] = handler_counter \/ handler_counter = counter[1] + 1
    BY <1>2, <1>3, <1>5 DEF PreemptionInv, Raised
  <2>3. QED
    BY <1>1, <2>1, <2>2, ThreeInStep
<1>6. QED
  BY <1>4, <1>5

\* When thread 1 counts an interrupt that is no longer pending, the handler and
\* thread 0 have completed.
LEMMA PreemptionComplete ==
    ASSUME PreemptionInv, ~pending, Next, counter'[1] # counter[1]
    PROVE  InterruptComplete
<1>1. Runs(1) /\ pc[1] = "count"
  <2>1. CASE Count(1)
    BY <2>1 DEF Count
  <2>2. CASE Count(0)
    BY <2>2, PreemptionTypes DEF Count
  <2>3. CASE \A t \in Thread : ~Count(t)
    BY <2>3 DEF Next, MainStep, ThreadStep, Initialize, Sleep, Report, Raise, Suspend, Wake,
               tm_interrupt_preemption_handler
  <2>4. QED
    BY <2>1, <2>2, <2>3, InterruptNames
<1>2. state[0] = "suspended"
  BY <1>1, ThreadRuns
<1>3. handler_counter = Inc(counter[1])
  BY <1>1 DEF PreemptionInv, Raised
<1>4. handler_counter = counter[0]
  BY <1>2 DEF PreemptionInv, Woken
<1>5. QED
  BY <1>2, <1>3, <1>4 DEF InterruptComplete

LEMMA PreemptionResumes ==
    ASSUME PreemptionInv, Next
    PROVE  ResumeTakesEffect
<1>1. CASE tm_interrupt_preemption_handler
  <2>1. pending
    BY <1>1 DEF tm_interrupt_preemption_handler, tm_interrupt_handler
  <2>2. QED
    BY <2>1 DEF PreemptionInv, Woken, ResumeTakesEffect
<1>2. CASE ~tm_interrupt_preemption_handler
  <2>1. handler_counter' = handler_counter
    BY <1>2 DEF Next, MainStep, ThreadStep, Initialize, Sleep, Report, Raise, Count, Suspend,
               Wake
  <2>2. QED
    BY <2>1 DEF ResumeTakesEffect
<1>3. QED
  BY <1>1, <1>2

-----------------------------------------------------------------------------
(* The interrupt processing benchmark.                                     *)

\* Its labels, and the types of its variables in the names of this module.
ProcessingLabel == {"initialize", "sleep", "report", "pickup", "raise", "get", "count"}

ProcessingTypeOK ==
    /\ KernelTypeOK /\ InterruptTypeOK
    /\ count \in [{0} -> {0, 1}]
    /\ wants \in [Task -> {None}]
    /\ calls \in 0 .. 3
    /\ pc \in [Task -> ProcessingLabel]
    /\ {counter, handler_counter, last_total} \subseteq Word
    /\ alarm \in BOOLEAN

\* The main task creates the thread and the semaphore before it resumes the
\* thread.
Preparing ==
    /\ level[Main] = 1 /\ state[1] = "absent" /\ (state[0] # "absent" => level[0] = 10)
    /\ calls < 3 => state[Main] = "ready" /\ pc[Main] = "initialize" /\ pc[0] = "pickup"
    /\ state[0] \in IF calls = 0 THEN {"absent"}
                    ELSE IF calls < 3 THEN {"suspended"}
                    ELSE {"ready", "done"}
    /\ pc[0] \in {"pickup", "raise", "get", "count"}

\* The semaphore is in the thread's hands, between its get and its increment.
Held == pc[0] = "count" /\ state[0] # "done"

\* The thread has raised an interrupt that it has not got the semaphore for.
Waits == pc[0] = "get" \/ state[0] = "done"

\* An interrupt is pending or in the semaphore, never both, and the thread
\* counts no other.
OneInterrupt ==
    /\ pc[0] = "pickup" => /\ state[0] # "done"
                           /\ calls >= 2 => count[0] = 1
                           /\ counter = handler_counter
    /\ state[0] = "done" => pc[0] = "count"
    /\ Waits => count[0] = IF pending THEN 0 ELSE 1
    /\ ~Waits => ~pending
    /\ pc[0] # "pickup" =>
           /\ ~Waits => count[0] = 0
           /\ handler_counter = IF Held \/ count[0] = 1 THEN Inc(counter) ELSE counter

\* The thread ends only when it gets the semaphore before the interrupt is taken.
Survives == late \/ state[0] # "done"

ProcessingInv ==
    /\ ProcessingTypeOK
    /\ KernelInv
    /\ Preparing
    /\ OneInterrupt
    /\ Survives

\* The services the benchmark calls, and the ones of TmThreads.
LEMMA ProcessingServices ==
    ASSUME NEW t, NEW n
    PROVE  /\ Processing!Runs(t) <=> Runs(t)
           /\ Processing!tm_thread_create(t, n) <=> tm_thread_create(t, n)
           /\ Processing!tm_thread_resume(t) <=> tm_thread_resume(t)
           /\ Processing!Return(t) <=> Return(t)
           /\ Processing!tm_thread_sleep(t) <=> tm_thread_sleep(t)
           /\ Processing!TickWakes(t) <=> TickWakes(t)
           /\ Processing!tm_interrupt_raise <=> tm_interrupt_raise
           /\ Processing!tm_interrupt_handler <=> tm_interrupt_handler
           /\ Processing!Inc(n) = Inc(n)
<1>1. Processing!Runs(t) <=> Runs(t)
  BY DEF Processing!Runs, Runs, Processing!MoreUrgent, MoreUrgent, Processing!Level, Level
<1>2. Processing!MakeReady(t) <=> MakeReady(t)
  BY DEF Processing!MakeReady, MakeReady
<1>3. Processing!tm_thread_create(t, n) <=> tm_thread_create(t, n)
  BY DEF Processing!tm_thread_create, Processing!freertos_thread_create,
     Processing!threadx_thread_create, Processing!zephyr_thread_create,
     Processing!AddReady, Processing!AddSuspended,
     tm_thread_create, freertos_thread_create, threadx_thread_create,
     zephyr_thread_create, AddReady, AddSuspended
<1>4. Processing!tm_thread_resume(t) <=> tm_thread_resume(t)
  BY <1>2 DEF Processing!tm_thread_resume, tm_thread_resume, Processing!kernel, kernel
<1>5. Processing!Return(t) <=> Return(t)
  BY DEF Processing!Return, Return, Processing!Block, Block
<1>6. Processing!tm_thread_sleep(t) <=> tm_thread_sleep(t)
  BY DEF Processing!tm_thread_sleep, tm_thread_sleep, Processing!Block, Block
<1>7. Processing!TickWakes(t) <=> TickWakes(t)
  BY <1>2 DEF Processing!TickWakes, TickWakes
<1>8. Processing!tm_interrupt_raise <=> tm_interrupt_raise
  BY DEF Processing!tm_interrupt_raise, tm_interrupt_raise
<1>9. Processing!tm_interrupt_handler <=> tm_interrupt_handler
  BY DEF Processing!tm_interrupt_handler, tm_interrupt_handler
<1>10. Processing!Inc(n) = Inc(n)
  BY DEF Processing!Inc, Inc
<1>11. QED
  BY <1>1, <1>3, <1>4, <1>5, <1>6, <1>7, <1>8, <1>9, <1>10

LEMMA ProcessingTypes ==
    ASSUME ProcessingInv
    PROVE  /\ state \in [Task -> State] /\ level \in [Task -> Level]
           /\ pc \in [Task -> ProcessingLabel] /\ calls \in 0 .. 3
           /\ count \in [{0} -> {0, 1}] /\ wants \in [Task -> {None}]
           /\ counter \in Word /\ handler_counter \in Word /\ last_total \in Word
           /\ 0 \in Task /\ 1 \in Task /\ Main \in Task
  BY InterruptNames DEF ProcessingInv, ProcessingTypeOK, KernelTypeOK

LEMMA ProcessingBooleans ==
    ASSUME ProcessingInv
    PROVE  pending \in BOOLEAN /\ enabled \in BOOLEAN /\ alarm \in BOOLEAN
  BY DEF ProcessingInv, ProcessingTypeOK, InterruptTypeOK

LEMMA ProcessingTypesJoin ==
    ASSUME KernelInv', pc' \in [Task -> ProcessingLabel], calls' \in 0 .. 3,
           count' \in [{0} -> {0, 1}], wants' = wants, ProcessingInv,
           counter' \in Word, handler_counter' \in Word, last_total' \in Word,
           pending' \in BOOLEAN, enabled' \in BOOLEAN, alarm' \in BOOLEAN
    PROVE  ProcessingTypeOK'
<1>1. InterruptTypeOK'
  BY DEF InterruptTypeOK
<1>2. KernelTypeOK' /\ wants' \in [Task -> {None}]
  BY ProcessingTypes DEF KernelInv
<1>3. QED
  BY <1>1, <1>2 DEF ProcessingTypeOK

\* The types as the benchmark states them.
LEMMA ProcessingTypeCorrect == ASSUME ProcessingInv PROVE Processing!TypeOK
<1>1. /\ Processing!Task = Task /\ Processing!Level = Level /\ Processing!State = State
      /\ Processing!Word = Word /\ Processing!Label = ProcessingLabel
  BY DEF Processing!Task, Task, Processing!Level, Level, Processing!State, State,
     Processing!Word, Word, Processing!Label, ProcessingLabel
<1>2. Processing!KernelTypeOK
  BY <1>1 DEF Processing!KernelTypeOK, KernelTypeOK, ProcessingInv, ProcessingTypeOK
<1>3. Processing!InterruptTypeOK
  BY DEF Processing!InterruptTypeOK, InterruptTypeOK, ProcessingInv, ProcessingTypeOK
<1>4. Processing!SemaphoreTypeOK
  BY <1>1, ProcessingTypes, InterruptNames DEF Processing!SemaphoreTypeOK
<1>5. alarm \in BOOLEAN
  BY ProcessingBooleans
<1>6. QED
  BY <1>1, <1>2, <1>3, <1>4, <1>5, ProcessingTypes DEF Processing!TypeOK

LEMMA ProcessingInit == ASSUME Processing!Init PROVE ProcessingInv
<1>1. Processing!KernelInit <=> KernelInit
  BY DEF Processing!KernelInit, Processing!rtos_main_freertos, Processing!rtos_main_threadx,
     Processing!rtos_main_zephyr, Processing!StartedWith, Processing!Task, Processing!Level,
     KernelInit, rtos_main_freertos, rtos_main_threadx, rtos_main_zephyr, StartedWith,
     Task, Level
<1>2. KernelInit
  BY <1>1 DEF Processing!Init
<1>3. KernelInv /\ \A t \in Thread : state[t] = "absent"
  BY <1>2, InitKernel
<1>4. StartedWith(1)
  BY <1>2, InterruptNames DEF KernelInit, rtos_main_threadx, rtos_main_zephyr
<1>5. level[Main] = 1 /\ state[Main] = "ready" /\ state[0] = "absent" /\ state[1] = "absent"
  BY <1>3, <1>4, InterruptNames DEF StartedWith
<1>6. Processing!Task = Task
  BY DEF Processing!Task, Task
<1>7. /\ calls = 0 /\ handler_counter = 0 /\ last_total = 0 /\ counter = 0
      /\ count \in [{0} -> {0, 1}] /\ wants \in [Task -> {None}]
      /\ pc \in [Task -> ProcessingLabel] /\ pc[0] = "pickup" /\ pc[Main] = "initialize"
  BY <1>6, InterruptNames DEF Processing!Init, Processing!SemaphoreInit, ProcessingLabel
<1>8. pending = FALSE /\ enabled = TRUE
  BY InterruptNames
  DEF Processing!Init, Processing!InterruptInit, Processing!threadx_setup_interrupt,
      Processing!zephyr_setup_interrupt
<1>9. alarm = FALSE
  BY DEF Processing!Init
<1>10. 0 \in Word
  BY MaxWordAssumption DEF Word
<1>11. ProcessingTypeOK
  <2>1. InterruptTypeOK /\ alarm \in BOOLEAN
    BY <1>8, <1>9 DEF InterruptTypeOK
  <2>2. QED
    BY <1>3, <1>7, <1>10, <2>1 DEF ProcessingTypeOK, KernelInv
<1>12. Preparing /\ Survives
  BY <1>5, <1>7 DEF Preparing, Survives
<1>13. OneInterrupt
  BY <1>5, <1>7, <1>8 DEF OneInterrupt, Waits, Held
<1>14. QED
  BY <1>3, <1>11, <1>12, <1>13 DEF ProcessingInv

\* The thread runs after the initialisation.
LEMMA ProcessingRuns ==
    ASSUME ProcessingInv, Runs(0)
    PROVE  calls = 3 /\ state[0] = "ready"
<1>1. state[0] = "ready" /\ 0 \in Task
  BY InterruptNames DEF Runs
<1>2. level[0] = 10 /\ level[Main] = 1
  BY <1>1 DEF ProcessingInv, Preparing
<1>3. state[Main] # "ready"
  BY <1>1, <1>2, RunningIsMostUrgent, InterruptNames DEF ProcessingInv, MoreUrgent
<1>4. QED
  BY <1>1, <1>3, ProcessingTypes DEF ProcessingInv, Preparing

\* A step of the main task or the tick.
LEMMA ProcessingMainFrame ==
    ASSUME ProcessingInv, KernelInv', UNCHANGED <<counter, handler_counter, wants>>,
           late' = late, UNCHANGED interrupts,
           pc' \in [Task -> ProcessingLabel], pc'[0] = pc[0],
           calls' \in 0 .. 3, calls' \in {calls, calls + 1}, last_total' \in Word, alarm' \in BOOLEAN,
           Preparing',
           count' \in [{0} -> {0, 1}], count' = count \/ calls = 1,
           calls = 1 => count'[0] = 1,
           state[0] = "done" <=> state'[0] = "done"
    PROVE  ProcessingInv'
<1>1. pending' = pending /\ enabled' = enabled
  BY DEF interrupts
<1>2. ProcessingTypeOK'
  BY <1>1, ProcessingTypes, ProcessingBooleans, ProcessingTypesJoin
<1>3. Survives'
  BY DEF ProcessingInv, Survives
<1>4. OneInterrupt'
  <2>1. CASE calls = 1
    <3>1. pc[0] = "pickup" /\ state[0] # "done"
      BY <2>1 DEF ProcessingInv, Preparing
    <3>2. ~Waits /\ ~Waits'
      BY <3>1 DEF Waits
    <3>3. ~pending'
      BY <1>1, <3>2 DEF ProcessingInv, OneInterrupt
    <3>4. counter' = handler_counter'
      BY <3>1 DEF ProcessingInv, OneInterrupt
    <3>5. QED
      BY <2>1, <3>1, <3>2, <3>3, <3>4 DEF OneInterrupt
  <2>2. CASE calls # 1
    <3>1. (Waits' <=> Waits) /\ (Held' <=> Held) /\ count' = count
      BY <2>2 DEF Waits, Held
    <3>2. calls >= 2 <=> calls' >= 2
      BY <2>2, ProcessingTypes
    <3>3. QED
      BY <1>1, <3>1, <3>2 DEF ProcessingInv, OneInterrupt
  <2>3. QED
    BY <2>1, <2>2
<1>5. QED
  BY <1>2, <1>3, <1>4 DEF ProcessingInv

\* A step of the thread or the handler.
LEMMA ProcessingThreadFrame ==
    ASSUME ProcessingInv, calls = 3, KernelInv', level' = level,
           UNCHANGED <<calls, last_total, alarm, enabled, wants>>,
           pending' \in BOOLEAN, pc' \in [Task -> ProcessingLabel],
           pc'[0] \in {"raise", "get", "count"},
           count' \in [{0} -> {0, 1}], counter' \in Word, handler_counter' \in Word,
           state'[0] \in {"ready", "done"}, state'[1] = state[1],
           OneInterrupt', Survives'
    PROVE  ProcessingInv'
<1>1. enabled' \in BOOLEAN /\ alarm' \in BOOLEAN
  BY ProcessingBooleans
<1>2. ProcessingTypeOK'
  BY <1>1, ProcessingTypes, ProcessingTypesJoin
<1>3. Preparing'
  BY DEF ProcessingInv, Preparing
<1>4. QED
  BY <1>2, <1>3 DEF ProcessingInv

-----------------------------------------------------------------------------

LEMMA ProcessingInitialize ==
    ASSUME ProcessingInv, late' = late, Processing!Initialize
    PROVE  ProcessingInv'
<1>1. /\ Runs(Main) /\ pc[Main] = "initialize" /\ calls' = calls + 1 /\ calls \in 0 .. 2
      /\ UNCHANGED <<counter, handler_counter, interrupts, last_total>>
      /\ pc' = [pc EXCEPT ![Main] = IF calls' = 3 THEN "sleep" ELSE "initialize"]
  BY ProcessingServices
  DEF Processing!Initialize, Processing!Goto, Processing!report, Processing!interrupts, interrupts
<1>2. alarm' \in BOOLEAN
  BY ProcessingBooleans DEF Processing!Initialize, Processing!report
<1>3. /\ pc' \in [Task -> ProcessingLabel] /\ pc'[0] = pc[0]
      /\ pc'[Main] = (IF calls' = 3 THEN "sleep" ELSE "initialize")
      /\ calls' \in 0 .. 3 /\ calls' \in {calls, calls + 1} /\ last_total' \in Word
  BY <1>1, ProcessingTypes, InterruptNames DEF ProcessingLabel
<1>4. state[Main] = "ready" /\ level[Main] = 1 /\ state[1] = "absent" /\ pc[0] = "pickup"
  BY <1>1 DEF Runs, ProcessingInv, Preparing
<1>5. CASE calls = 0
  <2>1. AddSuspended(0, 10) /\ UNCHANGED <<count, wants>>
    BY <1>5, InterruptNames, ProcessingServices, CreatedSuspended
    DEF Processing!Initialize, Processing!semaphores
  <2>2. KernelInv'
    BY <2>1, InterruptNames, AddSuspendedKernel DEF ProcessingInv
  <2>3. /\ state'[0] = "suspended" /\ state'[1] = state[1] /\ state'[Main] = state[Main]
        /\ level'[0] = 10 /\ level'[Main] = level[Main] /\ state[0] = "absent"
    BY <2>1, ProcessingTypes, InterruptNames DEF AddSuspended
  <2>4. Preparing'
    BY <1>1, <1>3, <1>4, <1>5, <2>3 DEF Preparing
  <2>5. QED
    BY <1>1, <1>2, <1>3, <1>5, <2>1, <2>2, <2>3, <2>4, ProcessingTypes, ProcessingMainFrame
<1>6. CASE calls = 1
  <2>1. UNCHANGED kernel /\ wants' = wants /\ count' = [count EXCEPT ![0] = 1]
    BY <1>6
    DEF Processing!Initialize, Processing!tm_semaphore_create, Processing!kernel, kernel
  <2>2. KernelInv' /\ UNCHANGED <<state, level>>
    BY <2>1, SameKernel DEF ProcessingInv, kernel
  <2>3. count' \in [{0} -> {0, 1}] /\ count'[0] = 1
    BY <2>1, ProcessingTypes
  <2>4. state[0] = "suspended" /\ level[0] = 10
    BY <1>6 DEF ProcessingInv, Preparing
  <2>5. Preparing'
    BY <1>1, <1>3, <1>4, <1>6, <2>2, <2>4 DEF Preparing
  <2>6. QED
    BY <1>1, <1>2, <1>3, <1>6, <2>1, <2>2, <2>3, <2>5, ProcessingTypes, ProcessingMainFrame
<1>7. CASE calls = 2
  <2>1. tm_thread_resume(0) /\ UNCHANGED <<count, wants>>
    BY <1>7, ProcessingServices DEF Processing!Initialize, Processing!semaphores
  <2>2. state[0] = "suspended" /\ level[0] = 10
    BY <1>7 DEF ProcessingInv, Preparing
  <2>3. /\ KernelInv' /\ level' = level /\ state' = [state EXCEPT ![0] = "ready"]
    BY <2>1, <2>2, InterruptNames, ResumeKernel DEF ProcessingInv
  <2>4. state'[0] = "ready" /\ state'[1] = state[1] /\ state'[Main] = state[Main]
    BY <2>3, ProcessingTypes, InterruptNames
  <2>5. Preparing'
    BY <1>1, <1>3, <1>4, <1>7, <2>2, <2>3, <2>4 DEF Preparing
  <2>6. QED
    BY <1>1, <1>2, <1>3, <1>7, <2>1, <2>2, <2>3, <2>4, <2>5, ProcessingTypes,
       ProcessingMainFrame
<1>8. QED
  BY <1>1, <1>5, <1>6, <1>7

LEMMA ProcessingReporter ==
    ASSUME ProcessingInv, late' = late,
           Processing!Sleep \/ Processing!Wake \/ Processing!Report
    PROVE  ProcessingInv'
<1>1. /\ UNCHANGED <<counter, handler_counter, interrupts, calls, count, wants>>
      /\ \/ pc' = pc
         \/ \E label \in ProcessingLabel : pc' = [pc EXCEPT ![Main] = label]
      /\ last_total' \in {last_total, handler_counter}
  BY DEF Processing!Sleep, Processing!Wake, Processing!Report, Processing!report,
         Processing!Goto, Processing!semaphores, Processing!interrupts, interrupts,
         ProcessingLabel
<1>2. alarm' \in BOOLEAN
  BY ProcessingBooleans
  DEF Processing!Sleep, Processing!Wake, Processing!Report, Processing!report, Processing!Alarm
<1>3. /\ pc' \in [Task -> ProcessingLabel] /\ pc'[0] = pc[0]
      /\ calls' \in 0 .. 3 /\ last_total' \in Word
  BY <1>1, ProcessingTypes, InterruptNames
<1>4. /\ KernelInv' /\ level' = level /\ state'[0] = state[0] /\ state'[1] = state[1]
      /\ calls = 3
  <2>1. CASE Processing!Sleep
    <3>1. Runs(Main) /\ pc[Main] = "sleep" /\ Block(Main, "asleep")
      BY <2>1, ProcessingServices DEF Processing!Sleep, tm_thread_sleep
    <3>2. KernelInv'
      BY <3>1, ProcessingTypes, LeavesFirst DEF ProcessingInv, State
    <3>3. level' = level /\ state'[0] = state[0] /\ state'[1] = state[1]
      BY <3>1, ProcessingTypes, InterruptNames DEF Block
    <3>4. calls = 3
      BY <3>1, ProcessingTypes DEF ProcessingInv, Preparing
    <3>5. QED
      BY <3>2, <3>3, <3>4
  <2>2. CASE Processing!Wake
    <3>1. state[Main] = "asleep" /\ MakeReady(Main)
      BY <2>2, ProcessingServices DEF Processing!Wake, TickWakes
    <3>2. KernelInv'
      BY <3>1, ProcessingTypes, MakeReadyKernel DEF ProcessingInv
    <3>3. calls = 3
      BY <3>1, ProcessingTypes DEF ProcessingInv, Preparing
    <3>4. QED
      BY <3>1, <3>2, <3>3, ProcessingTypes, InterruptNames DEF MakeReady
  <2>3. CASE Processing!Report
    <3>1. UNCHANGED kernel /\ pc[Main] = "report"
      BY <2>3 DEF Processing!Report, Processing!kernel, kernel
    <3>2. KernelInv'
      BY <3>1, SameKernel DEF ProcessingInv
    <3>3. calls = 3
      BY <3>1, ProcessingTypes DEF ProcessingInv, Preparing
    <3>4. QED
      BY <3>1, <3>2, <3>3 DEF kernel
  <2>4. QED
    BY <2>1, <2>2, <2>3
<1>5. Preparing'
  BY <1>1, <1>3, <1>4 DEF ProcessingInv, Preparing
<1>6. QED
  BY <1>1, <1>2, <1>3, <1>4, <1>5, ProcessingTypes, ProcessingMainFrame

LEMMA ProcessingRaise ==
    ASSUME ProcessingInv, late' = late, Processing!Raise
    PROVE  ProcessingInv'
<1>1. /\ Runs(0) /\ pc[0] = "raise" /\ pc' = [pc EXCEPT ![0] = "get"]
      /\ UNCHANGED <<kernel, count, wants, calls, counter, handler_counter, last_total>>
  BY ProcessingServices
  DEF Processing!Raise, Processing!Goto, Processing!report, Processing!semaphores,
      Processing!kernel, kernel
<1>2. pending' = TRUE /\ enabled' = enabled /\ alarm' = alarm
  BY DEF Processing!Raise, Processing!tm_interrupt_raise, Processing!report
<1>3. KernelInv' /\ UNCHANGED <<state, level>>
  BY <1>1, SameKernel DEF ProcessingInv, kernel
<1>4. calls = 3 /\ state[0] = "ready"
  BY <1>1, ProcessingRuns
<1>5. pc' \in [Task -> ProcessingLabel] /\ pc'[0] = "get"
  BY <1>1, ProcessingTypes DEF ProcessingLabel
<1>6. ~Waits /\ ~Held
  BY <1>1, <1>4 DEF Waits, Held
<1>7. count[0] = 0 /\ handler_counter = counter
  BY <1>1, <1>6 DEF ProcessingInv, OneInterrupt
<1>8. Waits' /\ ~Held'
  BY <1>5 DEF Waits, Held
<1>9. OneInterrupt'
  BY <1>1, <1>2, <1>3, <1>4, <1>5, <1>7, <1>8 DEF OneInterrupt
<1>10. Survives' /\ pending' \in BOOLEAN
  BY <1>2, <1>3, <1>4 DEF Survives
<1>11. QED
  BY <1>1, <1>2, <1>3, <1>4, <1>5, <1>9, <1>10, ProcessingTypes, ProcessingThreadFrame

LEMMA ProcessingCount ==
    ASSUME ProcessingInv, late' = late, Processing!Count
    PROVE  ProcessingInv'
<1>1. /\ Runs(0) /\ pc[0] = "count" /\ pc' = [pc EXCEPT ![0] = "raise"]
      /\ counter' = Inc(counter)
      /\ UNCHANGED <<kernel, count, wants, calls, handler_counter, last_total>>
  BY ProcessingServices
  DEF Processing!Count, Processing!Goto, Processing!report, Processing!semaphores,
      Processing!kernel, kernel
<1>2. pending' = pending /\ enabled' = enabled /\ alarm' = alarm
  BY DEF Processing!Count, Processing!interrupts, Processing!report
<1>3. KernelInv' /\ UNCHANGED <<state, level>>
  BY <1>1, SameKernel DEF ProcessingInv, kernel
<1>4. calls = 3 /\ state[0] = "ready"
  BY <1>1, ProcessingRuns
<1>5. pc' \in [Task -> ProcessingLabel] /\ pc'[0] = "raise" /\ counter' \in Word
  BY <1>1, ProcessingTypes, IncType DEF ProcessingLabel
<1>6. ~Waits /\ Held
  BY <1>1, <1>4 DEF Waits, Held
<1>7. ~pending /\ count[0] = 0 /\ handler_counter = Inc(counter)
  BY <1>1, <1>6 DEF ProcessingInv, OneInterrupt
<1>8. ~Waits' /\ ~Held'
  BY <1>3, <1>4, <1>5 DEF Waits, Held
<1>9. OneInterrupt'
  BY <1>1, <1>2, <1>3, <1>4, <1>5, <1>7, <1>8 DEF OneInterrupt
<1>10. Survives' /\ pending' \in BOOLEAN
  BY <1>2, <1>3, <1>4, ProcessingBooleans DEF Survives
<1>11. QED
  BY <1>1, <1>2, <1>3, <1>4, <1>5, <1>9, <1>10, ProcessingTypes, ProcessingThreadFrame

\* A get that finds the semaphore takes the interrupt over; one that comes
\* before its interrupt, which is then pending, ends the thread.
LEMMA ProcessingGet ==
    ASSUME ProcessingInv, late' = late, Executes, Processing!Get
    PROVE  ProcessingInv'
<1>1. \/ count[0] > 0 /\ count' = [count EXCEPT ![0] = @ - 1] /\ UNCHANGED kernel
      \/ ~(count[0] > 0) /\ count' = count /\ Return(0)
  <2>1. PICK ok \in BOOLEAN :
          /\ ok <=> count[0] > 0
          /\ count' = IF ok THEN [count EXCEPT ![0] = @ - 1] ELSE count
          /\ IF ok THEN UNCHANGED kernel ELSE Return(0)
    BY ProcessingServices
    DEF Processing!Get, Processing!tm_semaphore_get, Processing!kernel, kernel
  <2>2. CASE ok
    BY <2>1, <2>2, Zenon
  <2>3. CASE ~ok
    BY <2>1, <2>3, Zenon
  <2>4. QED
    BY <2>2, <2>3
<1>2. /\ Runs(0) /\ pc[0] \in {"pickup", "get"}
      /\ pc' = [pc EXCEPT ![0] = IF pc[0] = "get" THEN "count" ELSE "raise"]
      /\ UNCHANGED <<wants, calls, counter, handler_counter, last_total>>
  BY ProcessingServices
  DEF Processing!Get, Processing!Goto, Processing!report, Processing!tm_semaphore_get
<1>3. pending' = pending /\ enabled' = enabled /\ alarm' = alarm
  BY DEF Processing!Get, Processing!interrupts, Processing!report
<1>4. calls = 3 /\ state[0] = "ready"
  BY <1>2, ProcessingRuns
<1>5. /\ pc' \in [Task -> ProcessingLabel]
      /\ pc'[0] = IF pc[0] = "get" THEN "count" ELSE "raise"
  BY <1>2, ProcessingTypes DEF ProcessingLabel
<1>6. count[0] \in {0, 1}
  BY ProcessingTypes
<1>7. pending' \in BOOLEAN
  BY <1>3, ProcessingBooleans
<1>8. CASE count[0] = 1
  <2>1. UNCHANGED kernel /\ count' = [count EXCEPT ![0] = @ - 1]
    BY <1>1, <1>8
  <2>2. KernelInv' /\ UNCHANGED <<state, level>>
    BY <2>1, SameKernel DEF ProcessingInv, kernel
  <2>3. count' \in [{0} -> {0, 1}] /\ count'[0] = 0
    BY <1>8, <2>1, ProcessingTypes
  <2>4. CASE pc[0] = "pickup"
    <3>1. ~Waits /\ handler_counter = counter
      BY <1>4, <2>4 DEF ProcessingInv, OneInterrupt, Waits
    <3>2. ~pending
      BY <3>1 DEF ProcessingInv, OneInterrupt
    <3>3. ~Waits' /\ ~Held'
      BY <1>4, <1>5, <2>2, <2>4 DEF Waits, Held
    <3>4. OneInterrupt'
      BY <1>2, <1>3, <1>4, <1>5, <2>2, <2>3, <2>4, <3>1, <3>2, <3>3 DEF OneInterrupt
    <3>5. QED
      BY <1>2, <1>3, <1>4, <1>5, <1>7, <2>2, <2>3, <3>4, ProcessingTypes,
         ProcessingThreadFrame DEF Survives
  <2>5. CASE pc[0] = "get"
    <3>1. Waits
      BY <2>5 DEF Waits
    <3>2. ~pending
      BY <1>8, <3>1 DEF ProcessingInv, OneInterrupt
    <3>3. handler_counter = Inc(counter)
      BY <1>8, <2>5 DEF ProcessingInv, OneInterrupt
    <3>4. ~Waits' /\ Held'
      BY <1>4, <1>5, <2>2, <2>5 DEF Waits, Held
    <3>5. OneInterrupt'
      BY <1>2, <1>3, <1>4, <1>5, <2>2, <2>3, <2>5, <3>2, <3>3, <3>4 DEF OneInterrupt
    <3>6. QED
      BY <1>2, <1>3, <1>4, <1>5, <1>7, <2>2, <2>3, <3>5, ProcessingTypes,
         ProcessingThreadFrame DEF Survives
  <2>6. QED
    BY <1>2, <2>4, <2>5
<1>9. CASE count[0] = 0
  <2>1. Block(0, "done") /\ count' = count
    BY <1>1, <1>9 DEF Return
  <2>2. KernelInv'
    BY <1>2, <2>1, InterruptNames, LeavesFirst DEF ProcessingInv, State
  <2>3. level' = level /\ state'[0] = "done" /\ state'[1] = state[1]
    BY <2>1, ProcessingTypes DEF Block
  <2>4. pc[0] = "get"
    BY <1>2, <1>4, <1>9 DEF ProcessingInv, OneInterrupt
  <2>5. Waits /\ ~Held
    BY <2>4 DEF Waits, Held
  <2>6. pending
    BY <1>9, <2>5 DEF ProcessingInv, OneInterrupt
  <2>7. handler_counter = counter
    BY <1>9, <2>4, <2>5 DEF ProcessingInv, OneInterrupt
  <2>8. Waits' /\ ~Held' /\ pc'[0] = "count"
    BY <1>5, <2>3, <2>4 DEF Waits, Held
  <2>9. OneInterrupt'
    BY <1>2, <1>3, <1>9, <2>1, <2>6, <2>7, <2>8 DEF OneInterrupt
  <2>10. Survives'
    BY <2>6 DEF Executes, Survives
  <2>11. QED
    BY <1>2, <1>3, <1>4, <1>5, <1>7, <2>1, <2>2, <2>3, <2>8, <2>9, <2>10, ProcessingTypes,
       ProcessingThreadFrame
<1>10. QED
  BY <1>6, <1>8, <1>9

\* The handler's put finds an empty semaphore that nobody waits for, on which
\* the ports agree.
LEMMA HandlerPuts ==
    ASSUME ProcessingInv, count[0] = 0, Processing!tm_interrupt_processing_handler
    PROVE  UNCHANGED kernel /\ wants' = wants /\ count' = [count EXCEPT ![0] = 1]
<1>1. Processing!Waiter(0) = {}
  BY ProcessingTypes, InterruptNames DEF Processing!Waiter, Processing!Task, Task
<1>2. PICK ok \in BOOLEAN : Processing!tm_semaphore_put(0, ok)
  BY DEF Processing!tm_interrupt_processing_handler
<1>3. Processing!Give(0)
  <2>1. CASE Port = "ThreadX"
    BY <1>2, <2>1 DEF Processing!tm_semaphore_put, Processing!threadx_semaphore_put
  <2>2. CASE Port = "Zephyr"
    BY <1>2, <2>2 DEF Processing!tm_semaphore_put, Processing!zephyr_semaphore_put
  <2>3. QED
    BY <2>1, <2>2, InterruptNames
<1>4. /\ count' = [count EXCEPT ![0] = @ + 1]
      /\ UNCHANGED <<Processing!kernel, wants>>
  BY <1>1, <1>3 DEF Processing!Give
<1>5. QED
  BY <1>4, ProcessingTypes DEF Processing!kernel, kernel

LEMMA ProcessingHandler ==
    ASSUME ProcessingInv, late' = late, Processing!tm_interrupt_processing_handler
    PROVE  ProcessingInv'
<1>1. /\ handler_counter' = Inc(handler_counter)
      /\ UNCHANGED <<calls, pc, counter, last_total>>
  BY ProcessingServices DEF Processing!tm_interrupt_processing_handler, Processing!report
<1>2. pending /\ pending' = FALSE /\ enabled' = enabled /\ alarm' = alarm
  BY DEF Processing!tm_interrupt_processing_handler, Processing!tm_interrupt_handler,
         Processing!report
<1>3. Waits
  BY <1>2 DEF ProcessingInv, OneInterrupt
<1>4. count[0] = 0
  BY <1>2, <1>3 DEF ProcessingInv, OneInterrupt
<1>5. pc[0] # "pickup" /\ ~Held
  BY <1>3 DEF ProcessingInv, OneInterrupt, Waits, Held
<1>6. calls = 3 /\ pc[0] \in {"raise", "get", "count"} /\ state[0] \in {"ready", "done"}
  BY <1>5, ProcessingTypes DEF ProcessingInv, Preparing
<1>7. handler_counter = counter
  BY <1>4, <1>5 DEF ProcessingInv, OneInterrupt
<1>8. UNCHANGED kernel /\ wants' = wants /\ count' = [count EXCEPT ![0] = 1]
  BY <1>4, HandlerPuts
<1>9. KernelInv' /\ UNCHANGED <<state, level>>
  BY <1>8, SameKernel DEF ProcessingInv, kernel
<1>10. count' \in [{0} -> {0, 1}] /\ count'[0] = 1 /\ handler_counter' \in Word
  BY <1>1, <1>8, ProcessingTypes, IncType
<1>11. Waits' /\ ~Held'
  BY <1>1, <1>3, <1>5, <1>9 DEF Waits, Held
<1>12. OneInterrupt'
  <2>1. state'[0] = "done" => pc'[0] = "count"
    BY <1>1, <1>9 DEF ProcessingInv, OneInterrupt
  <2>2. QED
    BY <1>1, <1>2, <1>5, <1>7, <1>10, <1>11, <2>1 DEF OneInterrupt
<1>13. Survives'
  BY <1>9 DEF ProcessingInv, Survives
<1>14. pending' \in BOOLEAN
  BY <1>2
<1>15. QED
  BY <1>1, <1>2, <1>6, <1>8, <1>9, <1>10, <1>12, <1>13, <1>14, ProcessingTypes,
     ProcessingThreadFrame

LEMMA ProcessingStutters ==
    ASSUME ProcessingInv, UNCHANGED mcvars
    PROVE  ProcessingInv'
<1>1. /\ UNCHANGED <<kernel, interrupts, calls, pc, counter, handler_counter, last_total>>
      /\ UNCHANGED <<count, wants>>
      /\ late' = late /\ alarm' = alarm
  BY DEF mcvars, vars, report, semaphores
<1>2. KernelInv' /\ UNCHANGED <<state, level>>
  BY <1>1, SameKernel DEF ProcessingInv, kernel
<1>3. Preparing'
  BY <1>1, <1>2 DEF ProcessingInv, Preparing
<1>4. ProcessingTypeOK'
  <2>1. pending' \in BOOLEAN /\ enabled' \in BOOLEAN /\ alarm' \in BOOLEAN
    BY <1>1, ProcessingBooleans DEF interrupts
  <2>2. QED
    BY <1>1, <1>2, <2>1, ProcessingTypes, ProcessingTypesJoin
<1>5. OneInterrupt'
  <2>1. (Waits' <=> Waits) /\ (Held' <=> Held) /\ pending' = pending
    BY <1>1, <1>2 DEF Waits, Held, interrupts
  <2>2. QED
    BY <1>1, <1>2, <2>1 DEF ProcessingInv, OneInterrupt
<1>6. Survives'
  BY <1>1, <1>2 DEF ProcessingInv, Survives
<1>7. QED
  BY <1>2, <1>3, <1>4, <1>5, <1>6 DEF ProcessingInv

-----------------------------------------------------------------------------
(* What the processing benchmark promises.                                 *)

\* What the handler is ahead by is in the semaphore or in the thread's hands.
LEMMA ProcessingCounted == ASSUME ProcessingInv PROVE Processing!InterruptsCounted
<1> SUFFICES ASSUME pc[0] # "pickup"
             PROVE  Minus(handler_counter, counter) = count[0] + (IF Held THEN 1 ELSE 0)
  BY DEF Processing!InterruptsCounted, Processing!Minus, Minus, Held
<1>1. counter \in Word /\ Inc(counter) \in Word /\ count[0] \in {0, 1}
  BY ProcessingTypes, IncType
<1>2. Minus(counter, counter) = 0 /\ Minus(Inc(counter), counter) = 1
  BY <1>1, MaxWordAssumption DEF Minus, Inc, Word
<1>3. Held => count[0] = 0
  <2>1. ASSUME Held PROVE ~Waits
    BY <2>1 DEF Held, Waits
  <2>2. QED
    BY <2>1 DEF ProcessingInv, OneInterrupt
<1>4. handler_counter = IF Held \/ count[0] = 1 THEN Inc(counter) ELSE counter
  BY DEF ProcessingInv, OneInterrupt
<1>5. QED
  BY <1>1, <1>2, <1>3, <1>4

LEMMA ProcessingAlarm == ASSUME ProcessingInv PROVE Processing!NoFalseAlarm
<1> SUFFICES ASSUME counter >= 1, 2 * counter <= MaxWord,
                    handler_counter >= 1, 2 * handler_counter <= MaxWord
             PROVE  ~Processing!Alarm
  BY DEF Processing!NoFalseAlarm
<1>1. counter \in Nat /\ handler_counter \in Nat /\ MaxWord \in Nat /\ MaxWord >= 5
  BY ProcessingTypes, MaxWordAssumption DEF Word
<1>2. Inc(counter) = counter + 1
  BY <1>1 DEF Inc
<1>3. handler_counter = counter \/ handler_counter = counter + 1
  BY <1>2 DEF ProcessingInv, OneInterrupt
<1>4. Processing!Plus(counter, handler_counter) = counter + handler_counter
  BY <1>1 DEF Processing!Plus
<1>5. Processing!Average = counter
  BY <1>1, <1>3, <1>4 DEF Processing!Average
<1>6. Processing!Minus(counter, 1) = counter - 1
  BY <1>1 DEF Processing!Minus
<1>7. Processing!Plus(counter, 1) = counter + 1
  BY <1>1 DEF Processing!Plus
<1>8. QED
  BY <1>1, <1>3, <1>5, <1>6, <1>7 DEF Processing!Alarm

-----------------------------------------------------------------------------
(* Both benchmarks.                                                        *)

MCInv ==
    \/ test = "preemption" /\ PreemptionInv
    \/ test = "processing" /\ ProcessingInv

LEMMA BenchmarksInit == ASSUME MCInit PROVE MCInv
  BY PreemptionInit, ProcessingInit DEF MCInit, MCInv

LEMMA BenchmarksNext == ASSUME MCInv, [MCNext]_mcvars PROVE MCInv'
<1>1. test' = test /\ late' = late
  BY DEF MCNext, MCMainStep, MCThreadStep, MCWake, MCHandler, OfPreemption, OfProcessing, mcvars
<1>2. CASE test = "preemption"
  <2>1. PreemptionInv
    BY <1>2 DEF MCInv
  <2>2. [Next]_vars
    BY <1>2 DEF MCNext, MCMainStep, MCThreadStep, MCWake, MCHandler, OfPreemption,
                OfProcessing, mcvars, Next
  <2>3. QED
    BY <1>1, <1>2, <2>1, <2>2, PreemptionNext DEF MCInv
<1>3. CASE test = "processing"
  <2>1. ProcessingInv
    BY <1>3 DEF MCInv
  <2>2. \/ Processing!MainStep \/ Processing!Wake
        \/ Executes /\ Processing!ThreadStep
        \/ Processing!tm_interrupt_processing_handler
        \/ UNCHANGED mcvars
    BY <1>3 DEF MCNext, MCMainStep, MCThreadStep, MCWake, MCHandler, OfPreemption, OfProcessing
  <2>3. ProcessingInv'
    BY <1>1, <2>1, <2>2, ProcessingInitialize, ProcessingReporter, ProcessingGet,
       ProcessingRaise, ProcessingCount, ProcessingHandler, ProcessingStutters
    DEF Processing!MainStep, Processing!ThreadStep
  <2>4. QED
    BY <1>1, <1>3, <2>3 DEF MCInv
<1>4. QED
  BY <1>2, <1>3 DEF MCInv

(***************************************************************************)
(* No report prints its ERROR line about a kernel that works, once every   *)
(* actor has counted and until the total wraps, wherever the tick lets the *)
(* main task in (tm_interrupt_preemption_test.c:210,                       *)
(* tm_interrupt_processing_test.c:191).                                    *)
(***************************************************************************)
THEOREM InterruptsNoFalseAlarms == MCSpec => []NoFalseAlarms
<1>1. MCInit => MCInv
  BY BenchmarksInit
<1>2. MCInv /\ [MCNext]_mcvars => MCInv'
  BY BenchmarksNext
<1>3. MCInv => NoFalseAlarms
  BY PreemptionAlarm, ProcessingAlarm DEF MCInv, NoFalseAlarms
<1>4. QED
  BY <1>1, <1>2, <1>3, PTL DEF MCSpec

(***************************************************************************)
(* The thread and the handler of the processing test count the same        *)
(* interrupts, also when the handler runs late                             *)
(* (tm_interrupt_processing_test.c:120-154), and the variables of both     *)
(* tests have their types.                                                 *)
(***************************************************************************)
THEOREM InterruptsAllCounted == MCSpec => []InterruptsCounted
<1>1. MCInit => MCInv
  BY BenchmarksInit
<1>2. MCInv /\ [MCNext]_mcvars => MCInv'
  BY BenchmarksNext
<1>3. MCInv => InterruptsCounted
  BY ProcessingCounted, ProcessingTypeCorrect
  DEF MCInv, InterruptsCounted, MCTypeOK, PreemptionInv
<1>4. QED
  BY <1>1, <1>2, <1>3, PTL DEF MCSpec

(***************************************************************************)
(* "We won't get back here until the interrupt processing is complete"     *)
(* (tm_interrupt_preemption_test.c:139, tm_interrupt_processing_test.c:    *)
(* 122) holds on a processor that takes the interrupt at once.             *)
(***************************************************************************)
THEOREM InterruptsBackIfAtOnce == MCSpec => BackIfAtOnce
<1> DEFINE Back ==
        /\ test = "preemption" /\ ~late /\ counter'[1] # counter[1] => InterruptComplete
        /\ test = "processing" /\ ~late => state'[0] # "done"
<1>1. MCInit => MCInv
  BY BenchmarksInit
<1>2. MCInv /\ [MCNext]_mcvars => MCInv'
  BY BenchmarksNext
<1>3. ASSUME MCInv, MCInv', MCNext PROVE Back
  <2>1. ASSUME test = "preemption", ~late, counter'[1] # counter[1] PROVE InterruptComplete
    <3>1. Next /\ (Executes \/ Wake \/ tm_interrupt_preemption_handler)
      BY <1>3, <2>1 DEF MCNext, MCMainStep, MCThreadStep, MCWake, MCHandler, OfPreemption,
                        OfProcessing, Next
    <3>2. Executes
      BY <2>1, <3>1 DEF Wake, tm_interrupt_preemption_handler
    <3>3. ~pending
      BY <2>1, <3>2 DEF Executes
    <3>4. QED
      BY <1>3, <2>1, <3>1, <3>3, PreemptionComplete DEF MCInv
  <2>2. ASSUME test = "processing", ~late PROVE state'[0] # "done"
    <3>1. test' = test /\ late' = late
      BY <1>3 DEF MCNext, MCMainStep, MCThreadStep, MCWake, MCHandler, OfPreemption,
                  OfProcessing
    <3>2. ProcessingInv'
      BY <1>3, <2>2, <3>1 DEF MCInv
    <3>3. QED
      BY <2>2, <3>1, <3>2 DEF ProcessingInv, Survives
  <2>3. QED
    BY <2>1, <2>2
<1>4. MCInv /\ MCInv' /\ [MCNext]_mcvars => [Back]_mcvars
  BY <1>3
<1>5. QED
  BY <1>1, <1>2, <1>4, PTL DEF MCSpec, BackIfAtOnce

(***************************************************************************)
(* The handler finds thread 0 suspended at every interrupt, so that none   *)
(* of its resumes is lost (tm_interrupt_preemption_test.c:162).            *)
(***************************************************************************)
THEOREM InterruptsResume == MCSpec => NoResumeLost
<1>1. MCInit => MCInv
  BY BenchmarksInit
<1>2. MCInv /\ [MCNext]_mcvars => MCInv'
  BY BenchmarksNext
<1>3. ASSUME MCInv, MCNext, test = "preemption" PROVE ResumeTakesEffect
  <2>1. Next /\ PreemptionInv
    BY <1>3 DEF MCInv, MCNext, MCMainStep, MCThreadStep, MCWake, MCHandler, OfPreemption,
                OfProcessing, Next
  <2>2. QED
    BY <2>1, PreemptionResumes
<1>4. MCInv /\ [MCNext]_mcvars => [test = "preemption" => ResumeTakesEffect]_mcvars
  BY <1>3
<1>5. QED
  BY <1>1, <1>2, <1>4, PTL DEF MCSpec, NoResumeLost
=============================================================================
