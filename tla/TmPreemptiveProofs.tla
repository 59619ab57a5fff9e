------------------------- MODULE TmPreemptiveProofs -------------------------
(***************************************************************************)
(* Proofs about TmPreemptive for the ports that create threads suspended   *)
(* (ThreadX and Zephyr), every word size and every number of priorities.   *)
(*                                                                         *)
(* IInv is the inductive invariant.  Its heart is Nesting and InRound: the *)
(* ready threads form a stack whose lower part waits in "count" for the    *)
(* threads above, and the label of the top tells who has counted.          *)
(***************************************************************************)
EXTENDS TmPreemptive, TmLemmas

\* Every list holds at most one task, and exactly the ready tasks are listed.
Lists ==
    /\ \A t \in Task : state[t] = "ready" => ready[level[t]] = <<t>>
    /\ \A l \in Level : ready[l] # <<>> =>
          \E t \in Task : state[t] = "ready" /\ level[t] = l

\* Every created task has its own level.
Levels ==
    /\ level[Main] = 1
    /\ \A t \in Thread : state[t] # "absent" => level[t] = 10 - t

\* Where each task can be.
Labels ==
    /\ pc[Main] \in {"create", "resume", "sleep", "report"}
    /\ state[Main] = "ready" \/ (state[Main] = "asleep" /\ pc[Main] = "report")
    /\ \A t \in Thread :
          /\ state[t] \in {"absent", "suspended", "ready"}
          /\ pc[t] \in {"resume", "count", "suspend"}
          /\ t = 0 => pc[t] # "suspend"
          /\ t = 4 => pc[t] # "resume"
          /\ state[t] # "ready" => pc[t] = FirstLabel(t)

\* Before thread 0 is resumed nothing has happened; later it stays ready.
Start ==
    IF pc[Main] \in {"create", "resume"}
    THEN \A t \in Thread : /\ state[t] # "ready"
                           /\ pc[Main] = "resume" => state[t] = "suspended"
                           /\ counter[t] = counter[0]
    ELSE state[0] = "ready" /\ \A t \in Thread : state[t] # "absent"

\* Below a ready thread all threads are ready and wait to count.
Nesting ==
    \A t, u \in Thread : state[t] = "ready" /\ u < t =>
        state[u] = "ready" /\ pc[u] = "count" /\ counter[u] = counter[0]

\* What the label of a ready thread says about the counters from it upwards.
InRound ==
    \A t \in Thread : state[t] = "ready" =>
        /\ pc[t] = "resume" => \A u \in Thread : u >= t => counter[u] = counter[0]
        /\ pc[t] = "count" /\ (t = 4 \/ state[t + 1] # "ready") =>
              /\ counter[t] = counter[0]
              /\ \A u \in Thread : u > t => counter[u] = Inc(counter[0])
        /\ pc[t] = "suspend" =>
              \A u \in Thread : u >= t => counter[u] = Inc(counter[0])

WithinOne == \A t \in Thread : counter[t] \in {counter[0], Inc(counter[0])}

IInv ==
    /\ TypeOK
    /\ Lists
    /\ Levels
    /\ Labels
    /\ Start
    /\ Nesting
    /\ InRound
    /\ WithinOne

-----------------------------------------------------------------------------

LEMMA MainNotThread ==
    Main \notin 0 .. 4 /\ Task = 0 .. 4 \cup {Main} /\ Thread = 0 .. 4
  BY FiveThreads, MainAssumption DEF Task

LEMMA LevelRange == ASSUME NEW t \in Thread PROVE 10 - t \in Level /\ 10 - t \in 6 .. 10
  BY MainNotThread, MaxPrioritiesAssumption DEF Level

LEMMA InitInv == ASSUME Port # "FreeRTOS", Init PROVE IInv
<1>0. StartedWith(1)
  BY PortAssumption DEF Init, KernelInit, rtos_main_threadx, rtos_main_zephyr
<1> USE <1>0 DEF Init, StartedWith
<1>1. TypeOK
  <2>1. state \in [Task -> State] /\ level \in [Task -> Level]
    BY MaxPrioritiesAssumption DEF State, Level
  <2>2. ready \in [Level -> Seq(Task)]
    <3>1. Main \in Task
      BY DEF Task
    <3>2. <<Main>> \in Seq(Task) /\ << >> \in Seq(Task)
      BY <3>1, Singleton
    <3>3. QED
      BY <3>2
  <2>3. pc \in [Task -> Label]
    BY DEF Label, FirstLabel
  <2>4. counter \in [Thread -> Word] /\ last_total \in Word
    BY MaxWordAssumption DEF Word
  <2>5. alarm \in BOOLEAN
    OBVIOUS
  <2>6. QED
    BY <2>1, <2>2, <2>3, <2>4, <2>5 DEF TypeOK, KernelTypeOK
<1>2. Lists
  BY MainNotThread, MaxPrioritiesAssumption DEF Lists, Level
<1>3. Levels /\ Labels /\ Start
  BY MainNotThread DEF Levels, Labels, Start, FirstLabel
<1>4. Nesting /\ InRound /\ WithinOne
  BY MainNotThread DEF Nesting, InRound, WithinOne
<1>5. QED
  BY <1>1, <1>2, <1>3, <1>4 DEF IInv

\* What owning the processor says about the other tasks.
LEMMA RunsThread ==
    ASSUME Port # "FreeRTOS", IInv, NEW t \in Thread, Runs(t)
    PROVE  /\ state[t] = "ready"
           /\ state[Main] = "asleep"
           /\ pc[Main] = "report"
           /\ \A u \in Thread : u > t => state[u] # "ready"
           /\ \A u \in Thread : u < t =>
                 state[u] = "ready" /\ pc[u] = "count" /\ counter[u] = counter[0]
<1>1. state[t] = "ready"
  BY DEF Runs
<1>2. level[t] = 10 - t
  BY <1>1 DEF IInv, Levels
<1>3. ASSUME NEW u \in Task, state[u] = "ready", level[u] < level[t]
      PROVE  FALSE
  <2>1. level[u] \in Level /\ ready[level[u]] = <<u>>
    BY <1>3 DEF IInv, TypeOK, KernelTypeOK, Lists
  <2>2. QED
    BY <1>3, <2>1, Singleton DEF Runs, MoreUrgent
<1>4. state[Main] # "ready"
  BY <1>2, <1>3, MainNotThread DEF IInv, Levels
<1>5. state[Main] = "asleep" /\ pc[Main] = "report"
  BY <1>4 DEF IInv, Labels
<1>6. ASSUME NEW u \in Thread, u > t PROVE state[u] # "ready"
  BY <1>2, <1>3, <1>6, MainNotThread DEF IInv, Levels
<1>7. QED
  BY <1>1, <1>5, <1>6 DEF IInv, Nesting

\* A waiting task that becomes ready gets its own, empty list.
LEMMA MakeReadyLists ==
    ASSUME Port # "FreeRTOS", IInv, NEW t \in Task,
           state[t] \in {"suspended", "asleep"}, MakeReady(t)
    PROVE  Lists' /\ KernelTypeOK'
<1> DEFINE l == level[t]
<1>1. l \in Level
  BY DEF IInv, TypeOK, KernelTypeOK
<1>2. ready[l] = << >>
  <2> SUFFICES ASSUME NEW u \in Task, state[u] = "ready", level[u] = l PROVE FALSE
    BY <1>1 DEF IInv, Lists
  <2>1. u # t
    OBVIOUS
  <2>2. CASE t \in Thread /\ u \in Thread
    BY <2>1, <2>2, MainNotThread DEF IInv, Levels
  <2>3. CASE t = Main /\ u \in Thread
    BY <2>3, LevelRange DEF IInv, Levels
  <2>4. CASE t \in Thread /\ u = Main
    BY <2>4, LevelRange DEF IInv, Levels
  <2>5. QED
    BY <2>1, <2>2, <2>3, <2>4 DEF Task
<1>3. level' = level
  BY DEF MakeReady
<1>4. state' = [state EXCEPT ![t] = "ready"] /\ ready' = [ready EXCEPT ![l] = <<t>>]
  BY <1>2, <1>3, Singleton DEF MakeReady
<1>5. KernelTypeOK'
  BY <1>1, <1>3, <1>4, Singleton DEF IInv, TypeOK, KernelTypeOK, State
<1>6. \A u \in Task : state'[u] = "ready" => ready'[level'[u]] = <<u>>
  <2> SUFFICES ASSUME NEW u \in Task, state'[u] = "ready" PROVE ready'[level[u]] = <<u>>
    BY <1>3
  <2>1. CASE u = t
    BY <1>1, <1>4, <2>1 DEF IInv, TypeOK, KernelTypeOK
  <2>2. CASE u # t
    <3>1. state[u] = "ready" /\ level[u] \in Level /\ ready[level[u]] = <<u>>
      BY <1>4, <2>2 DEF IInv, TypeOK, KernelTypeOK, Lists
    <3>2. level[u] # l
      BY <1>2, <3>1, Singleton
    <3>3. QED
      BY <1>4, <3>1, <3>2 DEF IInv, TypeOK, KernelTypeOK
  <2>3. QED
    BY <2>1, <2>2
<1>7. ASSUME NEW k \in Level, ready'[k] # << >>
      PROVE  \E u \in Task : state'[u] = "ready" /\ level'[u] = k
  <2>1. CASE k = l
    BY <1>3, <1>4, <2>1 DEF IInv, TypeOK, KernelTypeOK
  <2>2. CASE k # l
    <3>1. PICK u \in Task : state[u] = "ready" /\ level[u] = k
      BY <1>4, <1>7, <2>2 DEF IInv, TypeOK, KernelTypeOK, Lists
    <3>2. QED
      BY <1>3, <1>4, <3>1 DEF IInv, TypeOK, KernelTypeOK
  <2>3. QED
    BY <2>1, <2>2
<1>8. QED
  BY <1>5, <1>6, <1>7 DEF Lists

\* A task that leaves the processor leaves an empty list.
LEMMA BlockLists ==
    ASSUME Port # "FreeRTOS", IInv, NEW t \in Task, state[t] = "ready",
           NEW s \in State \ {"ready"}, Block(t, s)
    PROVE  Lists' /\ KernelTypeOK'
<1> DEFINE l == level[t]
<1>1. l \in Level /\ ready[l] = <<t>> /\ level' = level
  BY DEF IInv, TypeOK, KernelTypeOK, Lists, Block
<1>2. state' = [state EXCEPT ![t] = s] /\ ready' = [ready EXCEPT ![l] = << >>]
  BY <1>1, Singleton DEF Block
<1>3. KernelTypeOK'
  <2>1. << >> \in Seq(Task)
    OBVIOUS
  <2>2. QED
    BY <1>1, <1>2, <2>1 DEF IInv, TypeOK, KernelTypeOK
<1>4. ASSUME NEW u \in Task, state'[u] = "ready" PROVE ready'[level'[u]] = <<u>>
  <2>1. u # t /\ state[u] = "ready" /\ level[u] \in Level /\ ready[level[u]] = <<u>>
    BY <1>2, <1>4 DEF IInv, TypeOK, KernelTypeOK, Lists
  <2>2. level[u] # l
    BY <1>1, <2>1, Singleton
  <2>3. QED
    BY <1>1, <1>2, <2>1, <2>2 DEF IInv, TypeOK, KernelTypeOK
<1>5. ASSUME NEW k \in Level, ready'[k] # << >>
      PROVE  \E u \in Task : state'[u] = "ready" /\ level'[u] = k
  <2>1. k # l /\ ready[k] # << >>
    BY <1>1, <1>2, <1>5 DEF IInv, TypeOK, KernelTypeOK
  <2>2. PICK u \in Task : state[u] = "ready" /\ level[u] = k
    BY <2>1 DEF IInv, Lists
  <2>3. u # t /\ state'[u] = "ready"
    BY <1>2, <2>1, <2>2 DEF IInv, TypeOK, KernelTypeOK
  <2>4. QED
    BY <1>1, <2>2, <2>3
<1>6. QED
  BY <1>3, <1>4, <1>5 DEF Lists

LEMMA WordArithmetic ==
    /\ \A x \in Word : Inc(x) \in Word /\ Inc(x) # x
    /\ \A x, y \in Word : Plus(x, y) \in Word
    /\ \A x, y \in Word : Inc(x) = Inc(y) => x = y
  BY MaxWordAssumption DEF Word, Inc, Plus

-----------------------------------------------------------------------------
(* Each step preserves IInv.                                               *)

LEMMA CreateInv ==
    ASSUME Port # "FreeRTOS", IInv, NEW t \in Thread, Create(t)
    PROVE  IInv'
<1>0. AddSuspended(t, 10 - t)
  BY PortAssumption
  DEF Create, tm_thread_create, threadx_thread_create, zephyr_thread_create
<1>1. /\ level' = [level EXCEPT ![t] = 10 - t]
      /\ state' = [state EXCEPT ![t] = "suspended"]
      /\ ready' = ready
  BY <1>0 DEF AddSuspended
<1>2. /\ pc[Main] = "create" /\ state[t] = "absent"
      /\ pc' = [pc EXCEPT ![Main] = IF t = 4 THEN "resume" ELSE "create"]
      /\ UNCHANGED <<counter, last_total, alarm>>
  BY <1>0 DEF AddSuspended, Create, Goto
<1>3. state[Main] = "ready" /\ \A u \in Thread : state[u] # "ready"
  BY <1>2 DEF IInv, Labels, Start
<1>4. t # Main /\ t \in Task /\ Main \in Task
  BY MainNotThread
<1>5. TypeOK'
  <2>1. KernelTypeOK'
    BY <1>1, <1>4, LevelRange DEF IInv, TypeOK, KernelTypeOK, State
  <2>2. pc' \in [Task -> Label]
    BY <1>2 DEF IInv, TypeOK, Label
  <2>3. QED
    BY <1>2, <2>1, <2>2 DEF IInv, TypeOK
<1>6. Lists'
  <2>1. ASSUME NEW u \in Task, state'[u] = "ready" PROVE ready'[level'[u]] = <<u>>
    <3>1. u # t /\ state[u] = "ready" /\ level'[u] = level[u]
      BY <1>1, <1>4, <2>1 DEF IInv, TypeOK, KernelTypeOK
    <3>2. QED
      BY <1>1, <3>1 DEF IInv, Lists
  <2>2. ASSUME NEW l \in Level, ready'[l] # << >>
        PROVE  \E u \in Task : state'[u] = "ready" /\ level'[u] = l
    <3>1. PICK u \in Task : state[u] = "ready" /\ level[u] = l
      BY <1>1, <2>2 DEF IInv, Lists
    <3>2. u # t
      BY <1>2, <3>1
    <3>3. QED
      BY <1>1, <3>1, <3>2 DEF IInv, TypeOK, KernelTypeOK
  <2>3. QED
    BY <2>1, <2>2 DEF Lists
<1>7. Levels'
  BY <1>1, <1>4 DEF IInv, Levels, TypeOK, KernelTypeOK
<1>8. Labels'
  <2>1. \A u \in Thread : pc'[u] = pc[u] /\ state'[u] # "ready"
    BY <1>1, <1>2, <1>3, MainNotThread DEF IInv, TypeOK, KernelTypeOK
  <2>2. /\ pc'[Main] \in {"create", "resume"}
        /\ state'[Main] = "ready"
    BY <1>1, <1>2, <1>3, <1>4 DEF IInv, TypeOK, KernelTypeOK
  <2>3. \A u \in Thread : state'[u] \in {"absent", "suspended", "ready"}
    BY <1>1, <1>4 DEF IInv, Labels, TypeOK, KernelTypeOK
  <2>4. QED
    BY <1>3, <2>1, <2>2, <2>3 DEF IInv, Labels
<1>9. Start'
  <2>1. pc'[Main] = IF t = 4 THEN "resume" ELSE "create"
    BY <1>2, <1>4 DEF IInv, TypeOK
  <2>2. \A u \in Thread : state'[u] # "ready"
    BY <1>1, <1>3 DEF IInv, TypeOK, KernelTypeOK
  <2>3. \A u \in Thread : counter'[u] = counter'[0]
    BY <1>2 DEF IInv, Start
  <2>4. ASSUME t = 4, NEW u \in Thread PROVE state'[u] = "suspended"
    <3>1. CASE u = t
      BY <1>1, <1>4, <3>1 DEF IInv, TypeOK, KernelTypeOK
    <3>2. CASE u # t
      <4>1. state[u] # "absent"
        BY <2>4, <3>2, MainNotThread DEF Create
      <4>2. state[u] = "suspended"
        BY <1>3, <4>1, MainNotThread DEF IInv, TypeOK, KernelTypeOK, State, Labels
      <4>3. QED
        BY <1>1, <3>2, <4>2 DEF IInv, TypeOK, KernelTypeOK
    <3>3. QED
      BY <3>1, <3>2
  <2>5. QED
    BY <2>1, <2>2, <2>3, <2>4 DEF Start
<1>10. Nesting' /\ InRound'
  <2>1. \A u \in Thread : state'[u] # "ready"
    BY <1>1, <1>3 DEF IInv, TypeOK, KernelTypeOK
  <2>2. QED
    BY <2>1 DEF Nesting, InRound
<1>11. WithinOne'
  BY <1>2 DEF IInv, WithinOne
<1>12. QED
  BY <1>5, <1>6, <1>7, <1>8, <1>9, <1>10, <1>11 DEF IInv

LEMMA ResumeFirstInv ==
    ASSUME Port # "FreeRTOS", IInv, ResumeFirst
    PROVE  IInv'
<1>1. /\ pc[Main] = "resume"
      /\ pc' = [pc EXCEPT ![Main] = "sleep"]
      /\ UNCHANGED <<counter, last_total, alarm>>
  BY DEF ResumeFirst, Goto
<1>2. \A u \in Thread : state[u] = "suspended" /\ counter[u] = counter[0]
  BY <1>1 DEF IInv, Start
<1>3. 0 \in Thread /\ 0 \in Task /\ Main \in Task /\ 0 # Main
  BY MainNotThread
<1>4. MakeReady(0)
  BY <1>2, <1>3 DEF ResumeFirst, tm_thread_resume
<1>5. Lists' /\ KernelTypeOK'
  BY <1>2, <1>3, <1>4, MakeReadyLists
<1>6. state' = [state EXCEPT ![0] = "ready"] /\ level' = level
  BY <1>4 DEF MakeReady
<1>7. TypeOK'
  BY <1>1, <1>5 DEF IInv, TypeOK, Label
<1>8. Levels'
  BY <1>2, <1>3, <1>6 DEF IInv, Levels, TypeOK, KernelTypeOK
<1>9. /\ pc'[Main] = "sleep"
      /\ \A u \in Thread : pc'[u] = pc[u]
  BY <1>1, <1>3, MainNotThread DEF IInv, TypeOK
<1>10. /\ state'[Main] = "ready"
       /\ state'[0] = "ready"
       /\ \A u \in Thread : u # 0 => state'[u] = "suspended"
  BY <1>1, <1>2, <1>3, <1>6 DEF IInv, Labels, TypeOK, KernelTypeOK
<1>11. pc[0] = "resume"
  BY <1>2, <1>3 DEF IInv, Labels, FirstLabel
<1>12. Labels'
  BY <1>2, <1>9, <1>10 DEF IInv, Labels
<1>13. Start'
  BY <1>9, <1>10 DEF Start
<1>14. Nesting'
  BY <1>10, MainNotThread DEF Nesting
<1>15. InRound' /\ WithinOne'
  BY <1>1, <1>2, <1>9, <1>10, <1>11, MainNotThread DEF InRound, WithinOne
<1>16. QED
  BY <1>5, <1>7, <1>8, <1>12, <1>13, <1>14, <1>15 DEF IInv

LEMMA SleepInv ==
    ASSUME Port # "FreeRTOS", IInv, Sleep
    PROVE  IInv'
<1>1. /\ pc[Main] = "sleep" /\ state[Main] = "ready"
      /\ pc' = [pc EXCEPT ![Main] = "report"]
      /\ UNCHANGED <<counter, last_total, alarm>>
      /\ Block(Main, "asleep")
  BY DEF Sleep, Goto, tm_thread_sleep, Runs
<1>2. Main \in Task /\ Main \notin Thread
  BY MainNotThread, MainAssumption
<1>3. Lists' /\ KernelTypeOK'
  BY <1>1, <1>2, BlockLists DEF State
<1>4. /\ level' = level
      /\ state'[Main] = "asleep" /\ pc'[Main] = "report"
      /\ \A u \in Thread : state'[u] = state[u] /\ pc'[u] = pc[u]
  BY <1>1, <1>2 DEF Block, IInv, TypeOK, KernelTypeOK, Task
<1>5. TypeOK'
  BY <1>1, <1>3 DEF IInv, TypeOK, Label
<1>6. Levels' /\ Labels'
  BY <1>4 DEF IInv, Levels, Labels
<1>7. Start' /\ Nesting' /\ InRound' /\ WithinOne'
  <2>1. 0 \in Thread /\ \A u \in Thread : u # 4 => u + 1 \in Thread
    BY MainNotThread
  <2>2. Start' /\ Nesting' /\ WithinOne'
    BY <1>1, <1>4, <2>1 DEF IInv, Start, Nesting, WithinOne
  <2>3. InRound'
    BY <1>1, <1>4, <2>1 DEF IInv, InRound
  <2>4. QED
    BY <2>2, <2>3
<1>8. QED
  BY <1>3, <1>5, <1>6, <1>7 DEF IInv

LEMMA WakeInv ==
    ASSUME Port # "FreeRTOS", IInv, Wake
    PROVE  IInv'
<1>1. /\ state[Main] = "asleep" /\ pc[Main] = "report"
      /\ MakeReady(Main)
      /\ UNCHANGED <<pc, counter, last_total, alarm>>
  BY DEF Wake, TickWakes, IInv, Labels
<1>2. Main \in Task /\ Main \notin Thread
  BY MainNotThread, MainAssumption
<1>3. Lists' /\ KernelTypeOK'
  BY <1>1, <1>2, MakeReadyLists
<1>4. /\ level' = level /\ state'[Main] = "ready"
      /\ \A u \in Thread : state'[u] = state[u]
  BY <1>1, <1>2 DEF MakeReady, IInv, TypeOK, KernelTypeOK, Task
<1>5. TypeOK' /\ Levels' /\ Labels'
  BY <1>1, <1>3, <1>4 DEF IInv, TypeOK, Levels, Labels
<1>6. Start' /\ Nesting' /\ InRound' /\ WithinOne'
  <2>1. 0 \in Thread /\ \A u \in Thread : u # 4 => u + 1 \in Thread
    BY MainNotThread
  <2>2. Start' /\ Nesting' /\ WithinOne'
    BY <1>1, <1>4, <2>1 DEF IInv, Start, Nesting, WithinOne
  <2>3. InRound'
    BY <1>1, <1>4, <2>1 DEF IInv, InRound
  <2>4. QED
    BY <2>2, <2>3
<1>7. QED
  BY <1>3, <1>5, <1>6 DEF IInv

LEMMA ReportInv ==
    ASSUME Port # "FreeRTOS", IInv, Report
    PROVE  IInv'
<1>1. /\ pc[Main] = "report" /\ state[Main] = "ready"
      /\ pc' = [pc EXCEPT ![Main] = "sleep"]
      /\ last_total' = Total(counter) /\ alarm' = Alarm(counter)
      /\ UNCHANGED <<state, level, ready, counter>>
  BY DEF Report, Goto, kernel, Runs
<1>2. Main \in Task /\ Main \notin Thread
  BY MainNotThread, MainAssumption
<1>3. pc'[Main] = "sleep" /\ \A u \in Thread : pc'[u] = pc[u]
  BY <1>1, <1>2 DEF IInv, TypeOK, Task
<1>4. TypeOK'
  <2>1. Total(counter) \in Word
    BY WordArithmetic, MainNotThread DEF Total, IInv, TypeOK
  <2>2. alarm' \in BOOLEAN
    BY <1>1 DEF Alarm
  <2>3. KernelTypeOK' /\ pc' \in [Task -> Label] /\ counter' \in [Thread -> Word]
    BY <1>1 DEF IInv, TypeOK, KernelTypeOK, Label
  <2>4. QED
    BY <1>1, <2>1, <2>2, <2>3 DEF TypeOK
<1>5. Lists' /\ Levels' /\ Labels'
  BY <1>1, <1>3 DEF IInv, Lists, Levels, Labels
<1>6. Start' /\ Nesting' /\ WithinOne'
  BY <1>1, <1>3, MainNotThread DEF IInv, Start, Nesting, WithinOne
<1>7. InRound'
  BY <1>1, <1>3, MainNotThread DEF IInv, InRound
<1>8. QED
  BY <1>4, <1>5, <1>6, <1>7 DEF IInv

LEMMA ResumeNextInv ==
    ASSUME Port # "FreeRTOS", IInv, NEW t \in Thread, ResumeNext(t)
    PROVE  IInv'
<1>1. /\ pc[t] = "resume"
      /\ pc' = [pc EXCEPT ![t] = "count"]
      /\ UNCHANGED <<counter, last_total, alarm>>
      /\ Runs(t)
  BY DEF ResumeNext, Goto
<1>2. /\ state[t] = "ready" /\ pc[Main] = "report" /\ state[Main] = "asleep"
      /\ \A u \in Thread : u > t => state[u] # "ready"
      /\ \A u \in Thread : u < t =>
            state[u] = "ready" /\ pc[u] = "count" /\ counter[u] = counter[0]
  BY <1>1, RunsThread
<1>3. t + 1 \in Thread /\ t + 1 \in Task /\ t \in Task /\ t + 1 # t
  BY <1>1, MainNotThread DEF IInv, Labels
<1>4. \A u \in Thread : u > t => state[u] = "suspended" /\ pc[u] = FirstLabel(u)
  BY <1>2, MainNotThread DEF IInv, Labels, Start, TypeOK, KernelTypeOK, State
<1>5. \A u \in Thread : counter[u] = counter[0]
  BY <1>1, <1>2, MainNotThread DEF IInv, InRound
<1>0. state[t + 1] = "suspended"
  BY <1>3, <1>4, MainNotThread
<1>6. MakeReady(t + 1)
  BY <1>0 DEF ResumeNext, tm_thread_resume
<1>7. Lists' /\ KernelTypeOK'
  BY <1>0, <1>3, <1>6, MakeReadyLists
<1>8. /\ level' = level
      /\ state'[t + 1] = "ready"
      /\ \A u \in Task : u # t + 1 => state'[u] = state[u]
      /\ pc'[t] = "count"
      /\ \A u \in Task : u # t => pc'[u] = pc[u]
  BY <1>1, <1>3, <1>6 DEF MakeReady, IInv, TypeOK, KernelTypeOK
<1>9. TypeOK'
  BY <1>1, <1>7 DEF IInv, TypeOK, Label
<1>10. Main \in Task /\ Main # t /\ Main # t + 1 /\ 0 \in Thread
       /\ \A u \in Thread : u \in Task
  BY <1>3, MainNotThread
<1>11. Levels'
  BY <1>0, <1>3, <1>8, <1>10 DEF IInv, Levels
<1>12. Labels'
  <2>1. pc'[Main] = "report" /\ state'[Main] = "asleep"
    BY <1>2, <1>8, <1>10
  <2>2. ASSUME NEW u \in Thread
        PROVE  /\ state'[u] \in {"absent", "suspended", "ready"}
               /\ pc'[u] \in {"resume", "count", "suspend"}
               /\ u = 0 => pc'[u] # "suspend"
               /\ u = 4 => pc'[u] # "resume"
               /\ state'[u] # "ready" => pc'[u] = FirstLabel(u)
    BY <1>2, <1>3, <1>8, <1>10 DEF IInv, Labels
  <2>3. QED
    BY <2>1, <2>2 DEF Labels
<1>13. Start'
  BY <1>2, <1>3, <1>8, <1>10 DEF IInv, Start
<1>14. Nesting'
  <2> SUFFICES ASSUME NEW v \in Thread, NEW u \in Thread, state'[v] = "ready", u < v
               PROVE  state'[u] = "ready" /\ pc'[u] = "count" /\ counter[u] = counter[0]
    BY <1>1 DEF Nesting
  <2>1. v <= t + 1
    BY <1>2, <1>3, <1>8, <1>10, MainNotThread
  <2>2. u <= t
    BY <1>3, <2>1, MainNotThread
  <2>3. QED
    BY <1>2, <1>3, <1>5, <1>8, <1>10, <2>2, MainNotThread
<1>15. InRound'
  <2> SUFFICES ASSUME NEW v \in Thread, state'[v] = "ready"
               PROVE  /\ pc'[v] # "suspend"
                      /\ (pc'[v] = "count" /\ (v = 4 \/ state'[v + 1] # "ready")) => v = 4 /\ t = 3
    BY <1>1, <1>5, MainNotThread DEF InRound
  <2>1. v <= t + 1
    BY <1>2, <1>3, <1>8, <1>10, MainNotThread
  <2>2. CASE v = t + 1
    BY <1>3, <1>4, <1>8, <1>10, <2>2, MainNotThread DEF FirstLabel
  <2>3. CASE v = t
    BY <1>3, <1>8, <2>3, MainNotThread
  <2>4. CASE v < t
    <3>1. pc'[v] = "count" /\ v + 1 \in Thread /\ v + 1 <= t /\ v # 4
      BY <1>2, <1>8, <1>10, <2>4, MainNotThread
    <3>2. state'[v + 1] = "ready"
      BY <1>2, <1>3, <1>8, <1>10, <3>1, MainNotThread
    <3>3. QED
      BY <3>1, <3>2
  <2>5. QED
    BY <1>3, <2>1, <2>2, <2>3, <2>4, MainNotThread
<1>16. WithinOne'
  BY <1>1 DEF IInv, WithinOne
<1>17. QED
  BY <1>7, <1>9, <1>11, <1>12, <1>13, <1>14, <1>15, <1>16 DEF IInv

LEMMA CountInv ==
    ASSUME Port # "FreeRTOS", IInv, NEW t \in Thread, Count(t)
    PROVE  IInv'
<1>1. /\ pc[t] = "count" /\ Runs(t)
      /\ pc' = [pc EXCEPT ![t] = IF t = 0 THEN "resume" ELSE "suspend"]
      /\ counter' = [counter EXCEPT ![t] = Inc(@)]
      /\ UNCHANGED <<state, level, ready, last_total, alarm>>
  BY DEF Count, Goto, kernel
<1>2. /\ state[t] = "ready" /\ pc[Main] = "report" /\ state[Main] = "asleep"
      /\ \A u \in Thread : u > t => state[u] # "ready"
      /\ \A u \in Thread : u < t =>
            state[u] = "ready" /\ pc[u] = "count" /\ counter[u] = counter[0]
  BY <1>1, RunsThread
<1>3. 0 \in Thread /\ Main \in Task /\ Main # t
      /\ \A u \in Thread : u \in Task /\ u # Main
  BY MainNotThread
<1>4. counter[t] = counter[0] /\ \A u \in Thread : u > t => counter[u] = Inc(counter[0])
  BY <1>1, <1>2, MainNotThread DEF IInv, InRound
<1>5. /\ pc'[t] = (IF t = 0 THEN "resume" ELSE "suspend")
      /\ \A u \in Task : u # t => pc'[u] = pc[u]
      /\ counter'[t] = Inc(counter[0])
      /\ \A u \in Thread : u # t => counter'[u] = counter[u]
  BY <1>1, <1>3, <1>4 DEF IInv, TypeOK
<1>6. TypeOK'
  <2>1. counter' \in [Thread -> Word] /\ pc' \in [Task -> Label]
    BY <1>1, WordArithmetic DEF IInv, TypeOK, Label
  <2>2. QED
    BY <1>1, <2>1 DEF IInv, TypeOK, KernelTypeOK
<1>7. Lists' /\ Levels'
  BY <1>1 DEF IInv, Lists, Levels
<1>8. Labels'
  <2>1. ASSUME NEW u \in Thread
        PROVE  /\ state'[u] \in {"absent", "suspended", "ready"}
               /\ pc'[u] \in {"resume", "count", "suspend"}
               /\ u = 0 => pc'[u] # "suspend"
               /\ u = 4 => pc'[u] # "resume"
               /\ state'[u] # "ready" => pc'[u] = FirstLabel(u)
    BY <1>1, <1>2, <1>3, <1>5 DEF IInv, Labels
  <2>2. QED
    BY <1>1, <1>2, <1>3, <1>5, <2>1 DEF IInv, Labels
<1>9. Start'
  BY <1>1, <1>2, <1>3, <1>5 DEF IInv, Start
<1>10. CASE t = 0
  <2>1. \A u \in Thread : counter'[u] = counter'[0]
    BY <1>4, <1>5, <1>10, MainNotThread
  <2>2. \A u \in Thread : u # 0 => state'[u] # "ready"
    BY <1>1, <1>2, <1>10, MainNotThread
  <2>3. Nesting' /\ WithinOne'
    BY <2>1, <2>2, MainNotThread DEF Nesting, WithinOne
  <2>4. InRound'
    BY <1>5, <1>10, <2>1, <2>2, MainNotThread DEF InRound
  <2>5. QED
    BY <1>6, <1>7, <1>8, <1>9, <2>3, <2>4 DEF IInv
<1>11. CASE t # 0
  <2>1. counter'[0] = counter[0] /\ pc'[t] = "suspend"
    BY <1>3, <1>5, <1>11
  <2>2. Nesting'
    <3> SUFFICES ASSUME NEW v \in Thread, NEW u \in Thread, state'[v] = "ready", u < v
                 PROVE  state'[u] = "ready" /\ pc'[u] = "count" /\ counter'[u] = counter'[0]
      BY DEF Nesting
    <3>1. u < t
      BY <1>1, <1>2, MainNotThread
    <3>2. QED
      BY <1>1, <1>2, <1>3, <1>5, <2>1, <3>1, MainNotThread
  <2>3. InRound'
    <3> SUFFICES ASSUME NEW v \in Thread, state'[v] = "ready"
                 PROVE  /\ v < t => pc'[v] = "count" /\ v # 4 /\ state'[v + 1] = "ready"
                        /\ v <= t
                        /\ \A u \in Thread : u >= t => counter'[u] = Inc(counter'[0])
      BY <2>1, MainNotThread DEF InRound
    <3>1. v <= t
      BY <1>1, <1>2, MainNotThread
    <3>2. ASSUME v < t PROVE pc'[v] = "count" /\ v # 4 /\ state'[v + 1] = "ready"
      <4>1. v + 1 \in Thread /\ v + 1 <= t /\ v # 4
        BY <3>2, MainNotThread
      <4>2. QED
        BY <1>1, <1>2, <1>3, <1>5, <3>2, <4>1, MainNotThread
    <3>3. \A u \in Thread : u >= t => counter'[u] = Inc(counter'[0])
      BY <1>4, <1>5, <2>1, MainNotThread
    <3>4. QED
      BY <3>1, <3>2, <3>3
  <2>4. WithinOne'
    BY <1>5, <2>1 DEF IInv, WithinOne
  <2>5. QED
    BY <1>6, <1>7, <1>8, <1>9, <2>2, <2>3, <2>4 DEF IInv
<1>12. QED
  BY <1>10, <1>11

LEMMA SuspendInv ==
    ASSUME Port # "FreeRTOS", IInv, NEW t \in Thread, Suspend(t)
    PROVE  IInv'
<1>1. /\ pc[t] = "suspend" /\ Runs(t)
      /\ pc' = [pc EXCEPT ![t] = FirstLabel(t)]
      /\ Block(t, "suspended")
      /\ UNCHANGED <<counter, last_total, alarm>>
  BY DEF Suspend, Goto, tm_thread_suspend
<1>2. /\ state[t] = "ready" /\ pc[Main] = "report" /\ state[Main] = "asleep"
      /\ \A u \in Thread : u > t => state[u] # "ready"
      /\ \A u \in Thread : u < t =>
            state[u] = "ready" /\ pc[u] = "count" /\ counter[u] = counter[0]
  BY <1>1, RunsThread
<1>3. /\ 0 \in Thread /\ 0 # t /\ Main \in Task /\ Main # t
      /\ \A u \in Thread : u \in Task /\ u # Main
  BY <1>1, MainNotThread DEF IInv, Labels
<1>4. \A u \in Thread : u >= t => counter[u] = Inc(counter[0])
  BY <1>1, <1>2, MainNotThread DEF IInv, InRound
<1>5. Lists' /\ KernelTypeOK'
  BY <1>1, <1>2, <1>3, BlockLists DEF State
<1>6. /\ level' = level
      /\ state'[t] = "suspended"
      /\ \A u \in Task : u # t => state'[u] = state[u]
      /\ pc'[t] = FirstLabel(t)
      /\ \A u \in Task : u # t => pc'[u] = pc[u]
  BY <1>1, <1>3 DEF Block, IInv, TypeOK, KernelTypeOK
<1>7. FirstLabel(t) = IF t = 4 THEN "count" ELSE "resume"
  BY <1>3 DEF FirstLabel
<1>8. TypeOK'
  BY <1>1, <1>5, <1>7 DEF IInv, TypeOK, Label
<1>9. Levels'
  BY <1>2, <1>3, <1>6 DEF IInv, Levels
<1>10. Labels'
  <2>1. ASSUME NEW u \in Thread
        PROVE  /\ state'[u] \in {"absent", "suspended", "ready"}
               /\ pc'[u] \in {"resume", "count", "suspend"}
               /\ u = 0 => pc'[u] # "suspend"
               /\ u = 4 => pc'[u] # "resume"
               /\ state'[u] # "ready" => pc'[u] = FirstLabel(u)
    BY <1>3, <1>6, <1>7 DEF IInv, Labels
  <2>2. QED
    BY <1>2, <1>3, <1>6, <2>1 DEF Labels
<1>11. Start'
  BY <1>2, <1>3, <1>6 DEF IInv, Start
<1>12. ASSUME NEW u \in Thread, state'[u] = "ready" PROVE u < t
  <2>1. u # t
    BY <1>6, <1>12
  <2>2. state[u] = "ready"
    BY <1>3, <1>6, <1>12, <2>1
  <2>3. QED
    BY <1>2, <2>1, <2>2, MainNotThread
<1>13. Nesting'
  <2> SUFFICES ASSUME NEW v \in Thread, NEW u \in Thread, state'[v] = "ready", u < v
               PROVE  state'[u] = "ready" /\ pc'[u] = "count" /\ counter[u] = counter[0]
    BY <1>1 DEF Nesting
  <2>1. u < t /\ u # t
    BY <1>12, MainNotThread
  <2>2. QED
    BY <1>2, <1>3, <1>6, <2>1
<1>14. InRound'
  <2> SUFFICES ASSUME NEW v \in Thread, state'[v] = "ready"
               PROVE  /\ pc'[v] = "count"
                      /\ (v = 4 \/ state'[v + 1] # "ready") =>
                            /\ counter[v] = counter[0]
                            /\ \A u \in Thread : u > v => counter[u] = Inc(counter[0])
    BY <1>1 DEF InRound
  <2>1. v < t /\ v # t /\ v # 4
    BY <1>12, MainNotThread
  <2>2. pc'[v] = "count" /\ counter[v] = counter[0]
    BY <1>2, <1>3, <1>6, <2>1
  <2>3. CASE v + 1 = t
    BY <1>4, <2>1, <2>2, <2>3, MainNotThread
  <2>4. CASE v + 1 # t
    <3>1. v + 1 \in Thread /\ v + 1 < t
      BY <2>1, <2>4, MainNotThread
    <3>2. state'[v + 1] = "ready"
      BY <1>2, <1>3, <1>6, <2>4, <3>1
    <3>3. QED
      BY <2>1, <2>2, <3>2
  <2>5. QED
    BY <2>3, <2>4
<1>15. WithinOne'
  BY <1>1 DEF IInv, WithinOne
<1>16. QED
  BY <1>5, <1>8, <1>9, <1>10, <1>11, <1>13, <1>14, <1>15 DEF IInv

LEMMA StutterInv == ASSUME IInv, UNCHANGED vars PROVE IInv'
  BY DEF IInv, vars, kernel, TypeOK, KernelTypeOK, Lists, Levels, Labels, Start,
         Nesting, InRound, WithinOne

LEMMA NextInv == ASSUME Port # "FreeRTOS", IInv, [Next]_vars PROVE IInv'
<1>1. CASE MainStep
  BY <1>1, CreateInv, ResumeFirstInv, SleepInv, ReportInv DEF MainStep
<1>2. CASE Wake
  BY <1>2, WakeInv
<1>3. CASE ThreadStep
  BY <1>3, ResumeNextInv, CountInv, SuspendInv DEF ThreadStep
<1>4. CASE UNCHANGED vars
  BY <1>4, StutterInv
<1>5. QED
  BY <1>1, <1>2, <1>3, <1>4 DEF Next

-----------------------------------------------------------------------------
(* The theorems.                                                           *)

(***************************************************************************)
(* The inductive invariant holds in every reachable state of the benchmark *)
(* on a port that creates its threads suspended.                           *)
(***************************************************************************)
THEOREM Invariance == ASSUME Port # "FreeRTOS" PROVE Spec => []IInv
<1>1. Init => IInv
  BY InitInv
<1>2. IInv /\ [Next]_vars => IInv'
  BY NextInv
<1>3. QED
  BY <1>1, <1>2, PTL DEF Spec

(***************************************************************************)
(* Type correctness: every variable keeps its type, for every word size.   *)
(***************************************************************************)
THEOREM TypeCorrect == ASSUME Port # "FreeRTOS" PROVE Spec => []TypeOK
<1>1. IInv => TypeOK
  BY DEF IInv
<1>2. QED
  BY <1>1, Invariance, PTL

(***************************************************************************)
(* The report never raises a false alarm: the benchmark prints no ERROR    *)
(* line while the total fits the word and every thread has counted.        *)
(***************************************************************************)
THEOREM NeverFalseAlarm == ASSUME Port # "FreeRTOS" PROVE Spec => []NoFalseAlarm
<1>1. IInv => NoFalseAlarm
  <2> SUFFICES ASSUME IInv, \A t \in Thread : counter[t] >= 1 /\ 5 * counter[t] <= MaxWord
               PROVE  ~Alarm(counter)
    BY DEF NoFalseAlarm
  <2>1. counter \in [0 .. 4 -> Word] /\ counter[0] \in Word
    BY MainNotThread DEF IInv, TypeOK
  <2>2. \A i \in 0 .. 4 : counter[i] \in {counter[0], Inc(counter[0])}
    BY MainNotThread DEF IInv, WithinOne
  <2>3. QED
    BY <2>1, <2>2, InStepNoAlarm, MainNotThread
<1>2. QED
  BY <1>1, Invariance, PTL

\* Only Count changes a counter, and it finds the children one round ahead.
LEMMA CountingStep ==
    ASSUME Port # "FreeRTOS", IInv, [Next]_vars, counter' # counter
    PROVE  \E t \in Thread :
              /\ Count(t)
              /\ counter[t] = counter[0]
              /\ \A u \in Thread : u < t => counter[u] = counter[0]
              /\ \A u \in Thread : u > t => /\ state[u] = "suspended"
                                           /\ counter[u] = Inc(counter[0])
<1>1. PICK t \in Thread : Count(t)
  BY DEF Next, MainStep, ThreadStep, Create, ResumeFirst, Sleep, Report, Wake,
         ResumeNext, Suspend, vars
<1>2. Runs(t) /\ pc[t] = "count"
  BY <1>1 DEF Count
<1>3. /\ state[t] = "ready" /\ pc[Main] = "report"
      /\ \A u \in Thread : u > t => state[u] # "ready"
      /\ \A u \in Thread : u < t => counter[u] = counter[0]
  BY <1>2, RunsThread
<1>4. counter[t] = counter[0] /\ \A u \in Thread : u > t => counter[u] = Inc(counter[0])
  BY <1>2, <1>3, MainNotThread DEF IInv, InRound
<1>5. \A u \in Thread : u > t => state[u] = "suspended"
  BY <1>3, MainNotThread DEF IInv, Labels, Start, TypeOK, KernelTypeOK, State
<1>6. QED
  BY <1>1, <1>3, <1>4, <1>5

(***************************************************************************)
(* A thread gets back from tm_thread_resume only after all more urgent     *)
(* threads have executed once and suspended themselves.                    *)
(***************************************************************************)
THEOREM ChildrenFirst == ASSUME Port # "FreeRTOS" PROVE Spec => BackAfterChildren
<1> DEFINE Step == \A t \in Thread : counter'[t] # counter[t] => ChildrenRanOnce(t)
<1>1. IInv /\ [Next]_vars => [Step]_vars
  <2> SUFFICES ASSUME IInv, [Next]_vars, NEW t \in Thread, counter'[t] # counter[t]
               PROVE  ChildrenRanOnce(t)
    OBVIOUS
  <2>1. PICK r \in Thread :
              /\ Count(r)
              /\ counter[r] = counter[0]
              /\ \A u \in Thread : u > r => /\ state[u] = "suspended"
                                           /\ counter[u] = Inc(counter[0])
    BY CountingStep
  <2>2. r = t
    BY <2>1 DEF Count, IInv, TypeOK
  <2>3. QED
    BY <2>1, <2>2 DEF ChildrenRanOnce
<1>2. QED
  BY <1>1, Invariance, PTL DEF Spec, BackAfterChildren

(***************************************************************************)
(* The benchmark implements Rounds, the most urgent thread first: every    *)
(* step of the program is a Count of the abstract specification or leaves  *)
(* its counters alone (its safety part; TLC checks the liveness part).     *)
(***************************************************************************)
THEOREM ImplementsRounds ==
    ASSUME Port # "FreeRTOS"
    PROVE  Spec => RoundsSpec!Init /\ [][RoundsSpec!Next]_counter
<1>1. Init => RoundsSpec!Init
  BY DEF Init, RoundsSpec!Init
<1>2. IInv /\ [Next]_vars => [RoundsSpec!Next]_counter
  <2> SUFFICES ASSUME IInv, [Next]_vars, counter' # counter PROVE RoundsSpec!Next
    OBVIOUS
  <2>1. PICK t \in Thread :
              /\ Count(t)
              /\ counter[t] = counter[0]
              /\ \A u \in Thread : u < t => counter[u] = counter[0]
              /\ \A u \in Thread : u > t => counter[u] = Inc(counter[0])
    BY CountingStep
  <2>2. ASSUME NEW u \in Thread PROVE 4 - u < 4 - t <=> u > t
    BY MainNotThread
  <2>3. ASSUME NEW u \in Thread PROVE 4 - u > 4 - t <=> u < t
    BY MainNotThread
  <2>4. counter' = [counter EXCEPT ![t] = Inc(@)]
    BY <2>1 DEF Count
  <2>5. RoundsSpec!Count(t)
    BY <2>1, <2>2, <2>3, <2>4 DEF RoundsSpec!Count, RoundsSpec!Inc, Inc
  <2>6. QED
    BY <2>5 DEF RoundsSpec!Next
<1>3. QED
  BY <1>1, <1>2, Invariance, PTL DEF Spec
=============================================================================
