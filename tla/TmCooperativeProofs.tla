------------------------ MODULE TmCooperativeProofs -------------------------
(***************************************************************************)
(* Proofs about TmCooperative for every port and every word size.          *)
(*                                                                         *)
(* IInv is the inductive invariant.  Its heart is that the ready list is a *)
(* ring: from its head on the five threads follow each other in the order  *)
(* of their creation, wherever the main task of FreeRTOS stands between    *)
(* them, and the head tells who has counted in this round.                 *)
(***************************************************************************)
EXTENDS TmCooperative, TmLemmas

\* The level of configMAX_PRIORITIES with which the main task of FreeRTOS shares
\* the level of the threads.  With more it would starve below them.
SharedLevel == Port = "FreeRTOS" => MaxPriorities = 32

ThreadLevel == IF Port = "FreeRTOS" THEN 30 ELSE 3
MainLevel == IF Port = "FreeRTOS" THEN 30 ELSE 1

Wrap(i) == IF i > 4 THEN i - 5 ELSE i

\* The five threads in turn from h on, with the main task as the m-th element
\* or, if m is 0, without it.
Ring(q, h, m) ==
    /\ Len(q) = IF m = 0 THEN 5 ELSE 6
    /\ \A i \in 1 .. Len(q) :
          q[i] = IF i = m THEN Main
                 ELSE Wrap(IF m # 0 /\ i > m THEN h + i - 2 ELSE h + i - 1)

\* The elements of q from the n-th on are the threads below k, in order.
Created(q, n, k) ==
    /\ Len(q) = n - 1 + k
    /\ \A i \in 0 .. k - 1 : q[n + i] = i

\* In the first round: the threads below h have relinquished once.
First(h) ==
    \A t \in Thread : /\ counter[t] = 0
                      /\ pc[t] = IF t < h THEN "count" ELSE "relinquish"

\* Thread h is the next to count.
Before(h) ==
    \A t \in Thread : /\ counter[t] = IF t < h THEN Inc(counter[h]) ELSE counter[h]
                      /\ pc[t] = "count"

\* Thread h has counted and is the next to relinquish.
After(h) ==
    \A t \in Thread : /\ IF t <= h THEN counter[t] = counter[h]
                         ELSE Inc(counter[t]) = counter[h]
                      /\ pc[t] = IF t = h THEN "relinquish" ELSE "count"

Phase(h) == First(h) \/ Before(h) \/ After(h)

Levels ==
    /\ level[Main] = MainLevel
    /\ \A t \in Thread : state[t] # "absent" => level[t] = ThreadLevel

\* While the main task creates and resumes the threads nobody else runs.
Starting ==
    /\ calls \in 0 .. 9 /\ First(0) /\ state[Main] = "ready"
    /\ IF Port = "FreeRTOS"
       THEN /\ \A t \in Thread : state[t] = IF t < calls THEN "ready" ELSE "absent"
            /\ ready[30][1] = Main
            /\ Created(ready[30], 2, IF calls < 5 THEN calls ELSE 5)
       ELSE /\ \A t \in Thread : state[t] = IF t < calls - 5 THEN "ready"
                                            ELSE IF t < calls THEN "suspended"
                                            ELSE "absent"
            /\ ready[1] = <<Main>>
            /\ Created(ready[3], 1, IF calls < 5 THEN 0 ELSE calls - 5)

\* Then the threads go round for ever, and the main task comes and goes.
Rotating(h, m) ==
    /\ Ring(ready[ThreadLevel], h, m) /\ Phase(h)
    /\ IF Port = "FreeRTOS" THEN m = 0 <=> state[Main] = "asleep"
       ELSE m = 0 /\ ready[1] = IF state[Main] = "asleep" THEN <<>> ELSE <<Main>>

Started ==
    /\ calls = 10 /\ state[Main] \in {"ready", "asleep"}
    /\ \A t \in Thread : state[t] = "ready"
    /\ \E h \in 0 .. 4, m \in 0 .. 6 : Rotating(h, m)

IInv ==
    /\ TypeOK
    /\ Levels
    /\ pc[Main] \in {"initialize", "sleep", "report"}
    /\ IF pc[Main] = "initialize" THEN Starting ELSE Started

-----------------------------------------------------------------------------
(* The period total.                                                       *)

Period ==
    /\ counter \in [Thread -> Word]
    /\ last_total \in Word
    /\ PeriodTotalExact

LEMMA PeriodInit == Init => Period
<1> SUFFICES ASSUME Init PROVE Period
  OBVIOUS
<1>1. counter \in [Thread -> Word] /\ last_total = 0 /\ 0 \in Word /\ period = 0
  BY MaxWordAssumption DEF Init, Word
<1>2. \A i \in 0 .. 4 : counter[i] = 0
  BY FiveThreads DEF Init
<1>3. Plus(0, 0) = 0
  BY MaxWordAssumption DEF Plus
<1>4. Total(counter) = 0
  BY <1>2, <1>3 DEF Total
<1>5. QED
  BY <1>1, <1>4, MinusItself DEF Period, PeriodTotalExact

LEMMA PeriodNext == Period /\ [Next]_vars => Period'
<1> SUFFICES ASSUME Period, [Next]_vars PROVE Period'
  OBVIOUS
<1>1. Total(counter) \in Word /\ Minus(Total(counter), last_total) = period
  BY FiveThreads, TotalType DEF Period, PeriodTotalExact
<1>2. ASSUME NEW t \in Thread, Count(t) PROVE Period'
  <2>1. /\ counter' = [counter EXCEPT ![t] = Inc(@)] /\ period' = Inc(period)
        /\ last_total' = last_total
    BY <1>2 DEF Count
  <2>2. counter' \in [Thread -> Word]
    <3>1. counter[t] \in Word
      BY DEF Period
    <3>2. QED
      BY <2>1, <3>1, IncType DEF Period
  <2>3. Total(counter') = Inc(Total(counter))
    BY <2>1, FiveThreads, TotalInc DEF Period
  <2>4. Minus(Total(counter'), last_total') = period'
    BY <1>1, <2>1, <2>3, MinusInc DEF Period
  <2>5. QED
    BY <2>1, <2>2, <2>4 DEF Period, PeriodTotalExact
<1>3. CASE Report
  <2>1. /\ counter' = counter /\ last_total' = Total(counter) /\ period' = 0
    BY <1>3 DEF Report
  <2>2. Minus(Total(counter'), last_total') = period'
    BY <1>1, <2>1, MinusItself
  <2>3. QED
    BY <1>1, <2>1, <2>2 DEF Period, PeriodTotalExact
<1>4. CASE UNCHANGED <<counter, last_total, period>>
  BY <1>4 DEF Period, PeriodTotalExact, Total
<1>5. QED
  BY <1>2, <1>3, <1>4 DEF Next, MainStep, ThreadStep, Initialize, Sleep, Wake, Relinquish,
     vars

(***************************************************************************)
(* "Time Period Total" is exact: for every port, every word size and every *)
(* schedule the difference the report prints is the number of increments   *)
(* since the last report, modulo the word.                                 *)
(***************************************************************************)
THEOREM PeriodIsExact == Spec => []PeriodTotalExact
<1>1. Period => PeriodTotalExact
  BY DEF Period
<1>2. QED
  BY <1>1, PeriodInit, PeriodNext, PTL DEF Spec
-----------------------------------------------------------------------------
(* The ring.                                                               *)

LEMMA Names == Main \notin 0 .. 4 /\ Task = 0 .. 4 \cup {Main} /\ Thread = 0 .. 4
  BY FiveThreads, MainAssumption DEF Task

LEMMA NextThread ==
    ASSUME NEW h \in 0 .. 4
    PROVE  Wrap(h + 1) \in 0 .. 4 /\ Wrap(h + 1) = IF h = 4 THEN 0 ELSE h + 1
  BY DEF Wrap

LEMMA RingHead ==
    ASSUME NEW q \in Seq(Task), NEW h \in 0 .. 4, NEW m \in 0 .. 6, Ring(q, h, m)
    PROVE  Len(q) > 0 /\ Head(q) = IF m = 1 THEN Main ELSE h
<1>1. Len(q) > 0
  BY DEF Ring
<1>2. Head(q) = q[1]
  BY <1>1, TailElements
<1>3. q[1] = IF m = 1 THEN Main ELSE h
  BY <1>1 DEF Ring, Wrap
<1>4. QED
  BY <1>1, <1>2, <1>3

\* The head relinquishes.
LEMMA RingTurns ==
    ASSUME NEW q \in Seq(Task), NEW h \in 0 .. 4, NEW m \in 0 .. 6, Ring(q, h, m), m # 1
    PROVE  /\ Append(Tail(q), h) \in Seq(Task)
           /\ Ring(Append(Tail(q), h), Wrap(h + 1), IF m = 0 THEN 0 ELSE m - 1)
<1> DEFINE n == IF m = 0 THEN 5 ELSE 6
           p == Tail(q)
           r == Append(p, h)
           g == Wrap(h + 1)
           k == IF m = 0 THEN 0 ELSE m - 1
<1>1. h \in Task /\ Len(q) = n /\ n \in 5 .. 6 /\ Len(q) > 0
  BY Names DEF Ring
<1>2. /\ p \in Seq(Task) /\ Len(p) = Len(q) - 1
      /\ \A i \in 1 .. Len(q) - 1 : p[i] = q[i + 1]
  BY <1>1, TailElements
<1> HIDE DEF p
<1>3. /\ r \in Seq(Task) /\ Len(r) = Len(p) + 1 /\ r[Len(p) + 1] = h
      /\ \A i \in 1 .. Len(p) : r[i] = p[i]
  BY <1>1, <1>2, AppendElements
<1> HIDE DEF r
<1>4. /\ Len(r) = n /\ r[n] = h
      /\ \A i \in 1 .. n - 1 : r[i] = q[i + 1]
  BY <1>1, <1>2, <1>3
<1>5. g \in 0 .. 4 /\ g = (IF h = 4 THEN 0 ELSE h + 1)
  BY NextThread
<1>6. k \in 0 .. 5 /\ (k # 0 <=> m # 0) /\ (m # 0 => m = k + 1 /\ n = 6) /\ (m = 0 => n = 5)
  OBVIOUS
<1> HIDE DEF n, g, k
<1>7. ASSUME NEW i \in 1 .. n
      PROVE  r[i] = IF i = k THEN Main
                    ELSE Wrap(IF k # 0 /\ i > k THEN g + i - 2 ELSE g + i - 1)
  <2>1. CASE i = n
    <3>1. i # k /\ r[i] = h
      BY <1>1, <1>4, <1>6, <2>1
    <3>2. (IF k # 0 /\ i > k THEN g + i - 2 ELSE g + i - 1) = g + 4
      BY <1>1, <1>5, <1>6, <2>1
    <3>3. Wrap(g + 4) = h
      BY <1>5 DEF Wrap
    <3>4. QED
      BY <3>1, <3>2, <3>3
  <2>2. CASE i # n
    <3>1. i \in 1 .. n - 1 /\ i + 1 \in 1 .. n
      BY <1>1, <2>2
    <3>2. r[i] = q[i + 1]
      BY <1>4, <3>1
    <3>3. q[i + 1] = IF i + 1 = m THEN Main
                     ELSE Wrap(IF m # 0 /\ i + 1 > m THEN h + (i + 1) - 2
                               ELSE h + (i + 1) - 1)
      BY <1>1, <3>1 DEF Ring
    <3>4. i = k <=> i + 1 = m
      BY <1>6, <3>1
    <3>5. Wrap(IF m # 0 /\ i + 1 > m THEN h + (i + 1) - 2 ELSE h + (i + 1) - 1)
             = Wrap(IF k # 0 /\ i > k THEN g + i - 2 ELSE g + i - 1)
      BY <1>1, <1>5, <1>6, <3>1 DEF Wrap
    <3>6. QED
      BY <3>2, <3>3, <3>4, <3>5
  <2>3. QED
    BY <2>1, <2>2
<1>8. Ring(r, g, k)
  BY <1>4, <1>6, <1>7 DEF Ring
<1>9. QED
  BY <1>3, <1>8 DEF r, p, g, k

\* The main task sleeps.
LEMMA RingLeave ==
    ASSUME NEW q \in Seq(Task), NEW h \in 0 .. 4, Ring(q, h, 1)
    PROVE  Tail(q) \in Seq(Task) /\ Ring(Tail(q), h, 0)
<1> DEFINE p == Tail(q)
<1>1. Len(q) = 6 /\ Len(q) > 0
  BY DEF Ring
<1>2. /\ p \in Seq(Task) /\ Len(p) = Len(q) - 1
      /\ \A i \in 1 .. Len(q) - 1 : p[i] = q[i + 1]
  BY <1>1, TailElements
<1> HIDE DEF p
<1>3. \A i \in 1 .. 5 : q[i + 1] = Wrap(h + i - 1)
  BY <1>1 DEF Ring
<1>4. Ring(p, h, 0)
  BY <1>1, <1>2, <1>3 DEF Ring
<1>5. QED
  BY <1>2, <1>4 DEF p

\* The main task wakes up.
LEMMA RingJoin ==
    ASSUME NEW q \in Seq(Task), NEW h \in 0 .. 4, Ring(q, h, 0)
    PROVE  Append(q, Main) \in Seq(Task) /\ Ring(Append(q, Main), h, 6)
<1> DEFINE r == Append(q, Main)
<1>1. Len(q) = 5 /\ \A i \in 1 .. 5 : q[i] = Wrap(h + i - 1)
  BY DEF Ring
<1>2. /\ r \in Seq(Task) /\ Len(r) = Len(q) + 1 /\ r[Len(q) + 1] = Main
      /\ \A i \in 1 .. Len(q) : r[i] = q[i]
  BY AppendElements, Names
<1> HIDE DEF r
<1>3. Ring(r, h, 6)
  BY <1>1, <1>2 DEF Ring
<1>4. QED
  BY <1>2, <1>3 DEF r
\* One more thread is listed.
LEMMA CreatedAppend ==
    ASSUME NEW q \in Seq(Task), NEW n \in 1 .. 2, NEW k \in 0 .. 4, Created(q, n, k)
    PROVE  /\ Append(q, k) \in Seq(Task) /\ Created(Append(q, k), n, k + 1)
           /\ n = 2 => Append(q, k)[1] = q[1]
<1> DEFINE r == Append(q, k)
<1>1. Len(q) = n - 1 + k /\ \A i \in 0 .. k - 1 : q[n + i] = i
  BY DEF Created
<1>2. /\ r \in Seq(Task) /\ Len(r) = Len(q) + 1 /\ r[Len(q) + 1] = k
      /\ \A i \in 1 .. Len(q) : r[i] = q[i]
  BY AppendElements, Names
<1> HIDE DEF r
<1>3. Created(r, n, k + 1)
  BY <1>1, <1>2 DEF Created
<1>4. n = 2 => r[1] = q[1]
  BY <1>1, <1>2
<1>5. QED
  BY <1>2, <1>3, <1>4 DEF r

\* When all are listed the list is a ring.
LEMMA CreatedAll ==
    ASSUME NEW q
    PROVE  /\ Created(q, 2, 5) /\ q[1] = Main => Ring(q, 0, 1)
           /\ Created(q, 1, 5) => Ring(q, 0, 0)
<1>1. ASSUME Created(q, 2, 5), q[1] = Main PROVE Ring(q, 0, 1)
  <2>1. Len(q) = 6 /\ \A i \in 0 .. 4 : q[2 + i] = i
    BY <1>1 DEF Created
  <2>2. ASSUME NEW i \in 2 .. 6 PROVE q[i] = i - 2
    <3>1. i - 2 \in 0 .. 4 /\ i = 2 + (i - 2)
      OBVIOUS
    <3>2. QED
      BY <2>1, <3>1
  <2>3. QED
    BY <1>1, <2>1, <2>2 DEF Ring, Wrap
<1>2. ASSUME Created(q, 1, 5) PROVE Ring(q, 0, 0)
  <2>1. Len(q) = 5 /\ \A i \in 0 .. 4 : q[1 + i] = i
    BY <1>2 DEF Created
  <2>2. ASSUME NEW i \in 1 .. 5 PROVE q[i] = i - 1
    <3>1. i - 1 \in 0 .. 4 /\ i = 1 + (i - 1)
      OBVIOUS
    <3>2. QED
      BY <2>1, <3>1
  <2>3. QED
    BY <2>1, <2>2 DEF Ring, Wrap
<1>3. QED
  BY <1>1, <1>2

-----------------------------------------------------------------------------
(* The invariant.                                                          *)

LEMMA LevelsExist ==
    ASSUME SharedLevel
    PROVE  /\ ThreadLevel \in Level /\ MainLevel \in Level
           /\ {1, 3, 30} \subseteq Level
           /\ Port = "FreeRTOS" => /\ ThreadLevel = 30 /\ MainLevel = 30
                                   /\ MaxPriorities - 3 + 1 = 30
           /\ Port # "FreeRTOS" => ThreadLevel = 3 /\ MainLevel = 1
  BY MaxPrioritiesAssumption DEF SharedLevel, ThreadLevel, MainLevel, Level

LEMMA InitIInv == ASSUME SharedLevel, Init PROVE IInv
<1> DEFINE l == MainLevel
<1>1. StartedWith(l)
  BY PortAssumption DEF Init, KernelInit, rtos_main_freertos, rtos_main_threadx,
     rtos_main_zephyr, MainLevel
<1>2. l \in Level
  BY LevelsExist
<1>3. <<Main>> \in Seq(Task) /\ << >> \in Seq(Task)
  BY Names
<1>4. KernelTypeOK
  <2>1. state \in [Task -> State]
    BY <1>1 DEF StartedWith, State
  <2>2. level \in [Task -> Level]
    BY <1>1, <1>2, MaxPrioritiesAssumption DEF StartedWith, Level
  <2>3. ready \in [Level -> Seq(Task)]
    BY <1>1, <1>3 DEF StartedWith
  <2>4. QED
    BY <2>1, <2>2, <2>3 DEF KernelTypeOK
<1>5. TypeOK
  <2>1. pc \in [Task -> Label]
    BY DEF Init, Label
  <2>2. counter \in [Thread -> Word] /\ last_total \in Word /\ period \in Word
    BY MaxWordAssumption DEF Init, Word
  <2>3. calls \in 0 .. 10
    BY DEF Init
  <2>4. alarm \in BOOLEAN
    BY DEF Init
  <2>5. QED
    BY <1>4, <2>1, <2>2, <2>3, <2>4 DEF TypeOK
<1>6. Levels
  BY <1>1, Names DEF StartedWith, Levels
<1>7. pc[Main] = "initialize" /\ First(0) /\ calls = 0
  BY Names DEF Init, First
<1>8. state[Main] = "ready" /\ \A t \in Thread : state[t] = "absent"
  BY <1>1, Names DEF StartedWith
<1>9. Starting
  <2>1. CASE Port = "FreeRTOS"
    <3>1. ready[30] = <<Main>>
      BY <1>1, <2>1, LevelsExist DEF StartedWith
    <3>2. QED
      BY <1>7, <1>8, <2>1, <3>1, Names DEF Starting, Created
  <2>2. CASE Port # "FreeRTOS"
    <3>1. ready[1] = <<Main>> /\ ready[3] = << >>
      BY <1>1, <2>2, LevelsExist DEF StartedWith
    <3>2. QED
      BY <1>7, <1>8, <2>2, <3>1, Names DEF Starting, Created
  <2>3. QED
    BY <2>1, <2>2
<1>10. QED
  BY <1>5, <1>6, <1>7, <1>9 DEF IInv

\* A thread that owns the processor heads the ring.
LEMMA RunsThread ==
    ASSUME SharedLevel, IInv, NEW t \in Thread, Runs(t)
    PROVE  /\ pc[Main] \in {"sleep", "report"} /\ Started
           /\ \E m \in 0 .. 6 : m # 1 /\ Rotating(t, m)
<1>1. state[t] = "ready" /\ level[t] = ThreadLevel /\ Head(ready[ThreadLevel]) = t
  BY DEF Runs, IInv, Levels
<1>2. ASSUME pc[Main] = "initialize" PROVE FALSE
  <2>1. Starting
    BY <1>2 DEF IInv
  <2>2. CASE Port = "FreeRTOS"
    <3>1. ready[30] \in Seq(Task)
      BY LevelsExist DEF IInv, TypeOK, KernelTypeOK
    <3>2. Len(ready[30]) > 0 /\ ready[30][1] = Main
      BY <2>1, <2>2 DEF Starting, Created
    <3>3. Head(ready[30]) = Main
      BY <3>1, <3>2, TailElements
    <3>4. QED
      BY <1>1, <2>2, <3>3, Names, LevelsExist
  <2>3. CASE Port # "FreeRTOS"
    <3>1. ready[1] = <<Main>> /\ MoreUrgent(1, level[t]) /\ 1 \in Level
      BY <1>1, <2>1, <2>3, LevelsExist DEF Starting, MoreUrgent
    <3>2. ready[1] = << >>
      BY <3>1 DEF Runs
    <3>3. <<Main>> # << >>
      OBVIOUS
    <3>4. QED
      BY <3>1, <3>2, <3>3
  <2>4. QED
    BY <2>2, <2>3
<1>3. pc[Main] \in {"sleep", "report"} /\ Started
  BY <1>2 DEF IInv
<1>4. PICK h \in 0 .. 4, m \in 0 .. 6 : Rotating(h, m)
  BY <1>3 DEF Started
<1>5. Head(ready[ThreadLevel]) = IF m = 1 THEN Main ELSE h
  BY <1>4, LevelsExist, RingHead DEF Rotating, IInv, TypeOK, KernelTypeOK
<1>6. m # 1 /\ h = t
  BY <1>1, <1>5, Names
<1>7. QED
  BY <1>3, <1>4, <1>6
-----------------------------------------------------------------------------
(* The steps of the main task.                                             *)

LEMMA SleepIInv ==
    ASSUME SharedLevel, IInv, Sleep
    PROVE  IInv'
<1> USE DEF Sleep
<1>1. /\ state' = [state EXCEPT ![Main] = "asleep"]
      /\ ready' = [ready EXCEPT ![MainLevel] = Tail(@)]
      /\ level' = level
  BY DEF tm_thread_sleep, Block, IInv, Levels
<1>2. Started /\ pc' = [pc EXCEPT ![Main] = "report"]
  BY DEF IInv, Goto
<1>3. PICK h \in 0 .. 4, m \in 0 .. 6 : Rotating(h, m)
  BY <1>2 DEF Started
<1>4. ready[ThreadLevel] \in Seq(Task) /\ ready[MainLevel] \in Seq(Task)
  BY LevelsExist DEF IInv, TypeOK, KernelTypeOK
<1>5. Head(ready[MainLevel]) = Main /\ state[Main] = "ready"
  BY DEF Runs, IInv, Levels
<1>6. /\ Tail(ready[MainLevel]) \in Seq(Task)
      /\ Ring(ready'[ThreadLevel], h, 0)
      /\ Port # "FreeRTOS" => ready'[1] = << >>
  <2>1. CASE Port = "FreeRTOS"
    <3>1. ThreadLevel = MainLevel /\ MainLevel \in Level
      BY <2>1, LevelsExist
    <3>2. m = 1
      BY <1>3, <1>4, <1>5, <3>1, RingHead, Names DEF Rotating
    <3>3. Ring(ready[ThreadLevel], h, 1)
      BY <1>3, <3>2 DEF Rotating
    <3>4. Tail(ready[ThreadLevel]) \in Seq(Task) /\ Ring(Tail(ready[ThreadLevel]), h, 0)
      BY <1>4, <3>3, RingLeave
    <3>5. ready'[ThreadLevel] = Tail(ready[ThreadLevel])
      BY <1>1, <3>1 DEF IInv, TypeOK, KernelTypeOK
    <3>6. QED
      BY <2>1, <3>1, <3>4, <3>5
  <2>2. CASE Port # "FreeRTOS"
    <3>1. ThreadLevel = 3 /\ MainLevel = 1 /\ ThreadLevel \in Level /\ MainLevel \in Level
      BY <2>2, LevelsExist
    <3>2. ready[1] = <<Main>> /\ m = 0 /\ Ring(ready[ThreadLevel], h, 0)
      BY <1>3, <1>5, <2>2 DEF Rotating
    <3>3. Tail(<<Main>>) = << >> /\ << >> \in Seq(Task)
      OBVIOUS
    <3>4. ready'[1] = Tail(ready[1]) /\ ready'[ThreadLevel] = ready[ThreadLevel]
      BY <1>1, <3>1 DEF IInv, TypeOK, KernelTypeOK
    <3>5. QED
      BY <3>1, <3>2, <3>3, <3>4
  <2>3. QED
    BY <2>1, <2>2
<1>7. TypeOK'
  <2>1. state' \in [Task -> State]
    BY <1>1 DEF IInv, TypeOK, KernelTypeOK, State
  <2>2. ready' \in [Level -> Seq(Task)]
    BY <1>1, <1>6 DEF IInv, TypeOK, KernelTypeOK
  <2>3. pc' \in [Task -> Label]
    BY <1>2 DEF IInv, TypeOK, Label
  <2>4. QED
    BY <1>1, <2>1, <2>2, <2>3 DEF IInv, TypeOK, KernelTypeOK
<1>8. Levels'
  BY <1>1, Names DEF IInv, Levels, TypeOK, KernelTypeOK
<1>9. state'[Main] = "asleep" /\ \A t \in Thread : state'[t] = "ready" /\ pc'[t] = pc[t]
  BY <1>1, <1>2, Names DEF IInv, TypeOK, KernelTypeOK, Started
<1>10. Phase(h)'
  BY <1>3, <1>9 DEF Rotating, Phase, First, Before, After
<1>11. Rotating(h, 0)'
  BY <1>6, <1>9, <1>10 DEF Rotating, ThreadLevel
<1>12. Started'
  BY <1>2, <1>9, <1>11 DEF Started
<1>13. pc'[Main] = "report"
  BY <1>2, Names DEF IInv, TypeOK
<1>14. QED
  BY <1>7, <1>8, <1>12, <1>13 DEF IInv

LEMMA WakeIInv ==
    ASSUME SharedLevel, IInv, Wake
    PROVE  IInv'
<1> USE DEF Wake
<1>1. /\ state[Main] = "asleep"
      /\ state' = [state EXCEPT ![Main] = "ready"]
      /\ ready' = [ready EXCEPT ![MainLevel] = Append(@, Main)]
      /\ level' = level
  BY DEF TickWakes, MakeReady, IInv, Levels
<1>2. Started /\ pc[Main] # "initialize"
  BY <1>1 DEF IInv, Starting
<1>3. PICK h \in 0 .. 4, m \in 0 .. 6 : Rotating(h, m)
  BY <1>2 DEF Started
<1>4. ready[ThreadLevel] \in Seq(Task) /\ ready[MainLevel] \in Seq(Task)
  BY LevelsExist DEF IInv, TypeOK, KernelTypeOK
<1>5. Append(ready[MainLevel], Main) \in Seq(Task)
  BY <1>4, AppendElements, Names
<1>6. \E n \in 0 .. 6 : /\ Ring(ready'[ThreadLevel], h, n)
                        /\ IF Port = "FreeRTOS" THEN n # 0
                           ELSE n = 0 /\ ready'[1] = <<Main>>
  <2>1. CASE Port = "FreeRTOS"
    <3>1. ThreadLevel = MainLevel /\ MainLevel \in Level
      BY <2>1, LevelsExist
    <3>2. Ring(ready[ThreadLevel], h, 0)
      BY <1>1, <1>3, <2>1 DEF Rotating
    <3>3. ready'[ThreadLevel] = Append(ready[ThreadLevel], Main)
      BY <1>1, <3>1 DEF IInv, TypeOK, KernelTypeOK
    <3>4. QED
      BY <1>4, <2>1, <3>2, <3>3, RingJoin
  <2>2. CASE Port # "FreeRTOS"
    <3>1. ThreadLevel = 3 /\ MainLevel = 1 /\ ThreadLevel \in Level /\ MainLevel \in Level
      BY <2>2, LevelsExist
    <3>2. ready[1] = << >> /\ Ring(ready[ThreadLevel], h, 0)
      BY <1>1, <1>3, <2>2 DEF Rotating
    <3>3. Append(<< >>, Main) = <<Main>>
      OBVIOUS
    <3>4. ready'[1] = Append(ready[1], Main) /\ ready'[ThreadLevel] = ready[ThreadLevel]
      BY <1>1, <3>1 DEF IInv, TypeOK, KernelTypeOK
    <3>5. QED
      BY <2>2, <3>2, <3>3, <3>4
  <2>3. QED
    BY <2>1, <2>2
<1>7. TypeOK'
  <2>1. state' \in [Task -> State]
    BY <1>1 DEF IInv, TypeOK, KernelTypeOK, State
  <2>2. ready' \in [Level -> Seq(Task)]
    BY <1>1, <1>5 DEF IInv, TypeOK, KernelTypeOK
  <2>3. QED
    BY <1>1, <2>1, <2>2 DEF IInv, TypeOK, KernelTypeOK
<1>8. Levels'
  BY <1>1, Names DEF IInv, Levels, TypeOK, KernelTypeOK
<1>9. state'[Main] = "ready" /\ \A t \in Thread : state'[t] = "ready"
  BY <1>1, <1>2, Names DEF IInv, TypeOK, KernelTypeOK, Started
<1>10. Phase(h)'
  BY <1>3 DEF Rotating, Phase, First, Before, After
<1>11. \E n \in 0 .. 6 : Rotating(h, n)'
  BY <1>6, <1>9, <1>10 DEF Rotating, ThreadLevel
<1>12. Started'
  BY <1>2, <1>9, <1>11 DEF Started
<1>13. QED
  BY <1>2, <1>7, <1>8, <1>12 DEF IInv

LEMMA ReportIInv ==
    ASSUME SharedLevel, IInv, Report
    PROVE  IInv'
<1> USE DEF Report
<1>1. UNCHANGED kernel /\ counter' = counter /\ calls' = calls
  OBVIOUS
<1>2. Started /\ pc' = [pc EXCEPT ![Main] = "sleep"]
  BY DEF IInv, Goto
<1>3. TypeOK'
  <2>1. pc' \in [Task -> Label]
    BY <1>2 DEF IInv, TypeOK, Label
  <2>2. last_total' \in Word /\ period' \in Word
    BY TotalType, MaxWordAssumption, FiveThreads DEF IInv, TypeOK, Word
  <2>3. alarm' \in BOOLEAN
    BY DEF Alarm
  <2>4. QED
    BY <1>1, <2>1, <2>2, <2>3 DEF IInv, TypeOK, KernelTypeOK, kernel
<1>4. Levels'
  BY <1>1 DEF IInv, Levels, kernel
<1>5. pc'[Main] = "sleep" /\ \A t \in Thread : pc'[t] = pc[t]
  BY <1>2, Names DEF IInv, TypeOK
<1>6. ASSUME NEW h \in 0 .. 4, NEW m \in 0 .. 6, Rotating(h, m) PROVE Rotating(h, m)'
  <2>1. Phase(h)'
    BY <1>1, <1>5, <1>6 DEF Rotating, Phase, First, Before, After
  <2>2. QED
    BY <1>1, <1>6, <2>1 DEF Rotating, ThreadLevel, Ring, kernel
<1>7. Started'
  BY <1>1, <1>2, <1>6 DEF Started, kernel
<1>8. QED
  BY <1>3, <1>4, <1>5, <1>7 DEF IInv
-----------------------------------------------------------------------------
(* The steps of the threads.                                               *)

LEMMA RelinquishIInv ==
    ASSUME SharedLevel, IInv, NEW t \in Thread, Relinquish(t)
    PROVE  IInv'
<1> USE DEF Relinquish
<1> DEFINE q == ready[ThreadLevel]
           n == Wrap(t + 1)
<1>1. Started /\ pc[Main] \in {"sleep", "report"}
  BY RunsThread
<1>2. PICK m \in 0 .. 6 : m # 1 /\ Rotating(t, m)
  BY RunsThread
<1>3. /\ state' = state /\ level' = level
      /\ ready' = [ready EXCEPT ![ThreadLevel] = Append(Tail(@), t)]
  BY <1>1 DEF tm_thread_relinquish, IInv, Levels, Started
<1>4. pc' = [pc EXCEPT ![t] = "count"]
  BY DEF Goto
<1>5. q \in Seq(Task) /\ ThreadLevel \in Level
  BY LevelsExist DEF IInv, TypeOK, KernelTypeOK
<1>6. t \in 0 .. 4 /\ n \in 0 .. 4 /\ n = IF t = 4 THEN 0 ELSE t + 1
  BY FiveThreads, NextThread
<1>7. /\ Append(Tail(q), t) \in Seq(Task)
      /\ Ring(Append(Tail(q), t), n, IF m = 0 THEN 0 ELSE m - 1)
  BY <1>2, <1>5, <1>6, RingTurns DEF Rotating
<1>8. ready'[ThreadLevel] = Append(Tail(q), t)
  BY <1>3, <1>5 DEF IInv, TypeOK, KernelTypeOK
<1>9. Port # "FreeRTOS" => ready'[1] = ready[1]
  BY <1>3, LevelsExist DEF IInv, TypeOK, KernelTypeOK
<1>10. TypeOK'
  <2>1. ready' \in [Level -> Seq(Task)]
    BY <1>3, <1>7 DEF IInv, TypeOK, KernelTypeOK
  <2>2. pc' \in [Task -> Label]
    BY <1>4 DEF IInv, TypeOK, Label
  <2>3. QED
    BY <1>3, <2>1, <2>2 DEF IInv, TypeOK, KernelTypeOK
<1>11. Levels'
  BY <1>3 DEF IInv, Levels
<1>12. pc'[Main] = pc[Main] /\ \A u \in Thread : pc'[u] = IF u = t THEN "count" ELSE pc[u]
  BY <1>4, Names DEF IInv, TypeOK
<1>13. counter \in [0 .. 4 -> Word] /\ counter' = counter
  BY FiveThreads DEF IInv, TypeOK
<1>14. Phase(n)'
  <2>1. CASE First(t)
    <3>1. CASE t # 4
      <4>1. First(n)'
        BY <1>6, <1>12, <1>13, <2>1, <3>1, FiveThreads DEF First
      <4>2. QED
        BY <4>1 DEF Phase
    <3>2. CASE t = 4
      <4>1. \A u \in Thread : counter'[u] = counter'[n] /\ pc'[u] = "count"
        BY <1>6, <1>12, <1>13, <2>1, <3>2, FiveThreads DEF First
      <4>2. Before(n)'
        BY <1>6, <3>2, <4>1, FiveThreads DEF Before
      <4>3. QED
        BY <4>2 DEF Phase
    <3>3. QED
      BY <3>1, <3>2
  <2>2. CASE Before(t)
    BY <2>2 DEF Before
  <2>3. CASE After(t)
    <3>1. \A u \in Thread : pc'[u] = "count"
      BY <1>12, <2>3 DEF After
    <3>2. \A u \in Thread : u <= t => counter[u] = counter[t]
      BY <2>3 DEF After
    <3>3. \A u \in Thread : u > t => Inc(counter[u]) = counter[t]
      BY <1>6, <2>3, FiveThreads DEF After
    <3>4. CASE t = 4
      <4>1. \A u \in Thread : counter[u] = counter[n]
        BY <1>6, <3>2, <3>4, FiveThreads
      <4>2. Before(n)'
        BY <1>6, <1>13, <3>1, <3>4, <4>1, FiveThreads DEF Before
      <4>3. QED
        BY <4>2 DEF Phase
    <3>5. CASE t # 4
      <4>1. n = t + 1 /\ n \in Thread /\ Inc(counter[n]) = counter[t]
        BY <1>6, <3>3, <3>5, FiveThreads
      <4>2. ASSUME NEW u \in Thread, u >= n PROVE counter[u] = counter[n]
        <5>1. Inc(counter[u]) = Inc(counter[n])
          BY <1>6, <3>3, <4>1, <4>2, FiveThreads
        <5>2. counter[u] \in Word /\ counter[n] \in Word
          BY <1>13, <4>1, FiveThreads
        <5>3. QED
          BY <5>1, <5>2, IncInjective
      <4>3. \A u \in Thread : u < n => counter[u] = Inc(counter[n])
        BY <1>6, <3>2, <4>1, FiveThreads
      <4>4. Before(n)'
        BY <1>6, <1>13, <3>1, <4>2, <4>3, FiveThreads DEF Before
      <4>5. QED
        BY <4>4 DEF Phase
    <3>6. QED
      BY <3>4, <3>5
  <2>4. QED
    BY <1>2, <2>1, <2>2, <2>3 DEF Rotating, Phase
<1>15. Rotating(n, IF m = 0 THEN 0 ELSE m - 1)'
  <2>1. Ring(ready'[ThreadLevel], n, IF m = 0 THEN 0 ELSE m - 1)
    BY <1>7, <1>8
  <2>2. IF Port = "FreeRTOS" THEN (IF m = 0 THEN 0 ELSE m - 1) = 0 <=> state'[Main] = "asleep"
        ELSE /\ (IF m = 0 THEN 0 ELSE m - 1) = 0
             /\ ready'[1] = IF state'[Main] = "asleep" THEN << >> ELSE <<Main>>
    BY <1>2, <1>3, <1>9 DEF Rotating
  <2>3. QED
    BY <1>14, <2>1, <2>2 DEF Rotating, ThreadLevel
<1>16. Started'
  BY <1>1, <1>3, <1>6, <1>15 DEF Started
<1>17. QED
  BY <1>1, <1>10, <1>11, <1>12, <1>16 DEF IInv

LEMMA CountIInv ==
    ASSUME SharedLevel, IInv, NEW t \in Thread, Count(t)
    PROVE  IInv' /\ Before(t)
<1> USE DEF Count
<1>1. Started /\ pc[Main] \in {"sleep", "report"}
  BY RunsThread
<1>2. PICK m \in 0 .. 6 : m # 1 /\ Rotating(t, m)
  BY RunsThread
<1>3. UNCHANGED kernel /\ calls' = calls
  OBVIOUS
<1>4. pc' = [pc EXCEPT ![t] = "relinquish"] /\ counter' = [counter EXCEPT ![t] = Inc(@)]
  BY DEF Goto
<1>5. Before(t)
  BY <1>2, FiveThreads DEF Rotating, Phase, First, After
<1>6. TypeOK'
  <2>1. pc' \in [Task -> Label]
    BY <1>4 DEF IInv, TypeOK, Label
  <2>2. counter' \in [Thread -> Word] /\ period' \in Word
    BY IncType DEF IInv, TypeOK
  <2>3. QED
    BY <1>3, <2>1, <2>2 DEF IInv, TypeOK, KernelTypeOK, kernel
<1>7. Levels'
  BY <1>3 DEF IInv, Levels, kernel
<1>8. pc'[Main] = pc[Main] /\ \A u \in Thread : pc'[u] = IF u = t THEN "relinquish" ELSE pc[u]
  BY <1>4, Names DEF IInv, TypeOK
<1>9. \A u \in Thread : counter'[u] = IF u = t THEN Inc(counter[u]) ELSE counter[u]
  BY <1>4 DEF IInv, TypeOK
<1>10. After(t)'
  <2>1. \A u \in Thread : u < t => counter[u] = Inc(counter[t])
    BY <1>5 DEF Before
  <2>2. \A u \in Thread : u >= t => counter[u] = counter[t]
    BY <1>5, FiveThreads DEF Before
  <2>3. \A u \in Thread : pc'[u] = IF u = t THEN "relinquish" ELSE "count"
    BY <1>5, <1>8 DEF Before
  <2>4. \A u \in Thread : IF u <= t THEN counter'[u] = counter'[t]
                          ELSE Inc(counter'[u]) = counter'[t]
    BY <1>9, <2>1, <2>2, FiveThreads
  <2>5. QED
    BY <2>3, <2>4 DEF After
<1>11. Rotating(t, m)'
  BY <1>2, <1>3, <1>10 DEF Rotating, Phase, ThreadLevel, Ring, kernel
<1>12. Started'
  BY <1>1, <1>3, <1>11, FiveThreads DEF Started, kernel
<1>13. QED
  BY <1>1, <1>5, <1>6, <1>7, <1>8, <1>12 DEF IInv
-----------------------------------------------------------------------------
(* The initialisation.                                                     *)

\* What every call leaves as it was or moves on by one.
LEMMA InitializeFrame ==
    ASSUME SharedLevel, IInv, Initialize
    PROVE  /\ Starting /\ calls' = calls + 1
           /\ pc' = [pc EXCEPT ![Main] = IF calls' = 10 THEN "sleep" ELSE "initialize"]
           /\ counter' = counter
           /\ KernelTypeOK' => TypeOK'
           /\ First(0)'
           /\ pc'[Main] = IF calls = 9 THEN "sleep" ELSE "initialize"
<1> USE DEF Initialize
<1>1. Starting /\ calls \in 0 .. 9
  BY DEF IInv, Starting
<1>2. /\ calls' = calls + 1 /\ UNCHANGED <<counter, last_total, period, alarm>>
      /\ pc' = [pc EXCEPT ![Main] = IF calls' = 10 THEN "sleep" ELSE "initialize"]
  BY DEF Goto
<1>3. pc' \in [Task -> Label] /\ calls' \in 0 .. 10
  <2>1. (IF calls' = 10 THEN "sleep" ELSE "initialize") \in Label
    BY DEF Label
  <2>2. pc' \in [Task -> Label]
    BY <1>2, <2>1 DEF IInv, TypeOK
  <2>3. calls' \in 0 .. 10
    BY <1>1, <1>2
  <2>4. QED
    BY <2>2, <2>3
<1>4. KernelTypeOK' => TypeOK'
  BY <1>2, <1>3 DEF IInv, TypeOK
<1>5. pc'[Main] = (IF calls = 9 THEN "sleep" ELSE "initialize")
      /\ \A t \in Thread : pc'[t] = pc[t]
  BY <1>1, <1>2, Names DEF IInv, TypeOK
<1>6. First(0)'
  BY <1>1, <1>2, <1>5 DEF Starting, First
<1>7. QED
  BY <1>1, <1>2, <1>4, <1>5, <1>6

\* On FreeRTOS a thread is ready from its creation on; the resumes are ignored.
LEMMA InitializeFreeRTOS ==
    ASSUME SharedLevel, IInv, Initialize, Port = "FreeRTOS"
    PROVE  IInv'
<1>1. /\ Starting /\ calls' = calls + 1 /\ calls \in 0 .. 9
      /\ KernelTypeOK' => TypeOK'
      /\ First(0)' /\ pc'[Main] = IF calls = 9 THEN "sleep" ELSE "initialize"
  BY InitializeFrame DEF Starting
<1>2. /\ \A t \in Thread : state[t] = IF t < calls THEN "ready" ELSE "absent"
      /\ state[Main] = "ready" /\ ready[30][1] = Main
      /\ Created(ready[30], 2, IF calls < 5 THEN calls ELSE 5)
  BY <1>1 DEF Starting
<1>3. ready[30] \in Seq(Task) /\ ThreadLevel = 30 /\ MainLevel = 30 /\ 30 \in Level
  BY LevelsExist DEF IInv, TypeOK, KernelTypeOK
<1>4. CASE calls < 5
  <2> DEFINE r == Append(ready[30], calls)
  <2>1. calls \in Thread /\ calls \in 0 .. 4 /\ calls \in Task
    BY <1>1, <1>4, Names
  <2>2. AddReady(calls, 30)
    <3>1. tm_thread_create(calls, 3)
      BY <1>1, <1>4 DEF Initialize
    <3>2. freertos_thread_create(calls, 3)
      BY <3>1 DEF tm_thread_create
    <3>3. QED
      BY <3>2, LevelsExist DEF freertos_thread_create
  <2>3. /\ state' = [state EXCEPT ![calls] = "ready"]
        /\ level' = [level EXCEPT ![calls] = 30]
        /\ ready' = [ready EXCEPT ![30] = r]
    BY <2>2 DEF AddReady
  <2>4. r \in Seq(Task) /\ Created(r, 2, calls + 1) /\ r[1] = Main
    BY <1>2, <1>3, <1>4, <2>1, CreatedAppend
  <2> HIDE DEF r
  <2>5. KernelTypeOK'
    <3>1. state' \in [Task -> State]
      BY <2>3 DEF IInv, TypeOK, KernelTypeOK, State
    <3>2. level' \in [Task -> Level] /\ ready' \in [Level -> Seq(Task)]
      BY <1>3, <2>3, <2>4 DEF IInv, TypeOK, KernelTypeOK
    <3>3. QED
      BY <3>1, <3>2 DEF KernelTypeOK
  <2>6. /\ state'[Main] = "ready"
        /\ \A t \in Thread : state'[t] = IF t < calls' THEN "ready" ELSE "absent"
    BY <1>1, <1>2, <2>1, <2>3, Names DEF IInv, TypeOK, KernelTypeOK
  <2>7. Levels'
    BY <1>3, <2>1, <2>3, Names DEF IInv, TypeOK, KernelTypeOK, Levels, ThreadLevel, MainLevel
  <2>8. ready'[30] = r
    BY <1>3, <2>3 DEF IInv, TypeOK, KernelTypeOK
  <2>9. Created(ready'[30], 2, IF calls' < 5 THEN calls' ELSE 5)
    BY <1>1, <2>1, <2>4, <2>8
  <2>10. Starting'
    BY <1>1, <2>1, <2>4, <2>6, <2>8, <2>9 DEF Starting, Created
  <2>11. QED
    BY <1>1, <1>4, <2>5, <2>7, <2>10 DEF IInv
<1>5. CASE calls >= 5
  <2>1. calls - 5 \in Thread /\ state[calls - 5] = "ready"
    BY <1>1, <1>2, <1>5, Names
  <2>2. UNCHANGED kernel
    <3>1. tm_thread_resume(calls - 5)
      BY <1>1, <1>5 DEF Initialize
    <3>2. QED
      BY <2>1, <3>1 DEF tm_thread_resume
  <2>3. KernelTypeOK' /\ Levels'
    BY <2>2 DEF IInv, TypeOK, KernelTypeOK, Levels, kernel
  <2>4. \A t \in Thread : state'[t] = "ready"
    BY <1>1, <1>2, <1>5, <2>2, Names DEF kernel
  <2>5. ready'[30][1] = Main /\ Created(ready'[30], 2, 5) /\ state'[Main] = "ready"
    BY <1>1, <1>2, <1>5, <2>2 DEF kernel
  <2>6. CASE calls < 9
    <3>1. Starting'
      <4>1. calls' \in 0 .. 9 /\ ~(calls' < 5) /\ \A t \in Thread : t < calls'
        BY <1>1, <1>5, <2>6, Names
      <4>2. QED
        BY <1>1, <2>4, <2>5, <4>1 DEF Starting, Created
    <3>2. QED
      BY <1>1, <2>3, <2>6, <3>1 DEF IInv
  <2>7. CASE calls = 9
    <3>1. Ring(ready'[30], 0, 1)
      BY <2>5, CreatedAll
    <3>2. Rotating(0, 1)'
      BY <1>1, <1>3, <2>5, <3>1 DEF Rotating, Phase, ThreadLevel
    <3>3. Started'
      BY <1>1, <2>4, <2>5, <2>7, <3>2 DEF Started
    <3>4. QED
      BY <1>1, <2>3, <2>7, <3>3 DEF IInv
  <2>8. QED
    BY <1>1, <1>5, <2>6, <2>7
<1>6. QED
  BY <1>1, <1>4, <1>5

\* On the other ports a thread is listed when it is resumed.
LEMMA InitializeSuspended ==
    ASSUME SharedLevel, IInv, Initialize, Port # "FreeRTOS"
    PROVE  IInv'
<1>1. /\ Starting /\ calls' = calls + 1 /\ calls \in 0 .. 9
      /\ KernelTypeOK' => TypeOK'
      /\ First(0)' /\ pc'[Main] = IF calls = 9 THEN "sleep" ELSE "initialize"
  BY InitializeFrame DEF Starting
<1>2. /\ \A t \in Thread : state[t] = IF t < calls - 5 THEN "ready"
                                      ELSE IF t < calls THEN "suspended" ELSE "absent"
      /\ state[Main] = "ready" /\ ready[1] = <<Main>>
      /\ Created(ready[3], 1, IF calls < 5 THEN 0 ELSE calls - 5)
  BY <1>1 DEF Starting
<1>3. ready[3] \in Seq(Task) /\ ThreadLevel = 3 /\ MainLevel = 1 /\ {1, 3} \subseteq Level
  BY LevelsExist DEF IInv, TypeOK, KernelTypeOK
<1>4. CASE calls < 5
  <2>1. calls \in Thread /\ calls \in Task
    BY <1>1, <1>4, Names
  <2>2. AddSuspended(calls, 3)
    <3>1. tm_thread_create(calls, 3)
      BY <1>1, <1>4 DEF Initialize
    <3>2. QED
      BY <3>1, PortAssumption DEF tm_thread_create, threadx_thread_create,
         zephyr_thread_create
  <2>3. /\ state' = [state EXCEPT ![calls] = "suspended"]
        /\ level' = [level EXCEPT ![calls] = 3]
        /\ ready' = ready
    BY <2>2 DEF AddSuspended
  <2>4. KernelTypeOK'
    <3>1. state' \in [Task -> State]
      BY <2>3 DEF IInv, TypeOK, KernelTypeOK, State
    <3>2. level' \in [Task -> Level]
      BY <1>3, <2>3 DEF IInv, TypeOK, KernelTypeOK
    <3>3. QED
      BY <2>3, <3>1, <3>2 DEF IInv, TypeOK, KernelTypeOK
  <2>5. /\ state'[Main] = "ready"
        /\ \A t \in Thread : state'[t] = IF t < calls' - 5 THEN "ready"
                                         ELSE IF t < calls' THEN "suspended" ELSE "absent"
    BY <1>1, <1>2, <1>4, <2>1, <2>3, Names DEF IInv, TypeOK, KernelTypeOK
  <2>6. Levels'
    BY <1>3, <2>1, <2>3, Names DEF IInv, TypeOK, KernelTypeOK, Levels, ThreadLevel, MainLevel
  <2>7. Created(ready'[3], 1, IF calls' < 5 THEN 0 ELSE calls' - 5)
    BY <1>1, <1>2, <1>4, <2>3
  <2>8. Starting'
    BY <1>1, <1>2, <1>4, <2>3, <2>5, <2>7 DEF Starting, Created
  <2>9. QED
    BY <1>1, <1>4, <2>4, <2>6, <2>8 DEF IInv
<1>5. CASE calls >= 5
  <2> DEFINE t == calls - 5
             r == Append(ready[3], t)
  <2>1. t \in Thread /\ t \in 0 .. 4 /\ t \in Task /\ state[t] = "suspended"
    BY <1>1, <1>2, <1>5, Names
  <2>2. level[t] = 3
    BY <1>3, <2>1 DEF IInv, Levels
  <2>3. MakeReady(t)
    BY <1>5, <2>1 DEF Initialize, tm_thread_resume
  <2>4. /\ state' = [state EXCEPT ![t] = "ready"]
        /\ ready' = [ready EXCEPT ![3] = r]
        /\ level' = level
    BY <2>2, <2>3 DEF MakeReady
  <2>5. r \in Seq(Task) /\ Created(r, 1, t + 1)
    BY <1>2, <1>3, <1>5, <2>1, CreatedAppend
  <2> HIDE DEF r
  <2>6. KernelTypeOK'
    <3>1. state' \in [Task -> State]
      BY <2>4 DEF IInv, TypeOK, KernelTypeOK, State
    <3>2. ready' \in [Level -> Seq(Task)]
      BY <2>4, <2>5 DEF IInv, TypeOK, KernelTypeOK
    <3>3. QED
      BY <2>4, <3>1, <3>2 DEF IInv, TypeOK, KernelTypeOK
  <2>7. /\ state'[Main] = "ready"
        /\ \A u \in Thread : state'[u] = IF u < calls' - 5 THEN "ready"
                                         ELSE IF u < calls' THEN "suspended" ELSE "absent"
    BY <1>1, <1>2, <1>5, <2>1, <2>4, Names DEF IInv, TypeOK, KernelTypeOK
  <2>8. Levels'
    BY <2>1, <2>2, <2>4, Names DEF IInv, TypeOK, KernelTypeOK, Levels, ThreadLevel, MainLevel
  <2>9. ready'[3] = r /\ ready'[1] = <<Main>>
    BY <1>2, <1>3, <2>4 DEF IInv, TypeOK, KernelTypeOK
  <2>10. CASE calls < 9
    <3>1. Created(ready'[3], 1, IF calls' < 5 THEN 0 ELSE calls' - 5)
      BY <1>1, <1>5, <2>5, <2>9
    <3>2. Starting'
      BY <1>1, <2>7, <2>9, <2>10, <3>1 DEF Starting, Created
    <3>3. QED
      BY <1>1, <2>6, <2>8, <2>10, <3>2 DEF IInv
  <2>11. CASE calls = 9
    <3>1. Ring(ready'[3], 0, 0)
      BY <2>5, <2>9, <2>11, CreatedAll
    <3>2. Rotating(0, 0)'
      BY <1>1, <1>3, <2>7, <2>9, <3>1 DEF Rotating, Phase, ThreadLevel
    <3>3. \A u \in Thread : state'[u] = "ready"
      BY <1>1, <2>7, <2>11, Names
    <3>4. Started'
      BY <1>1, <2>7, <2>11, <3>2, <3>3 DEF Started
    <3>5. QED
      BY <1>1, <2>6, <2>8, <2>11, <3>4 DEF IInv
  <2>12. QED
    BY <1>1, <2>10, <2>11
<1>6. QED
  BY <1>1, <1>4, <1>5
-----------------------------------------------------------------------------

LEMMA NextIInv == ASSUME SharedLevel, IInv, [Next]_vars PROVE IInv'
<1>1. CASE Initialize
  BY <1>1, InitializeFreeRTOS, InitializeSuspended
<1>2. CASE Sleep
  BY <1>2, SleepIInv
<1>3. CASE Wake
  BY <1>3, WakeIInv
<1>4. CASE Report
  BY <1>4, ReportIInv
<1>5. ASSUME NEW t \in Thread, Relinquish(t) PROVE IInv'
  BY <1>5, RelinquishIInv
<1>6. ASSUME NEW t \in Thread, Count(t) PROVE IInv'
  BY <1>6, CountIInv
<1>7. CASE UNCHANGED vars
  <2>1. TypeOK' /\ Levels'
    BY <1>7 DEF vars, kernel, IInv, TypeOK, KernelTypeOK, Levels
  <2>2. Starting' = Starting
    BY <1>7 DEF vars, kernel, Starting, Created, First
  <2>3. Started' = Started
    BY <1>7 DEF vars, kernel, Started, Rotating, Ring, Phase, First, Before, After, ThreadLevel
  <2>4. QED
    BY <1>7, <2>1, <2>2, <2>3 DEF vars, IInv
<1>8. QED
  BY <1>1, <1>2, <1>3, <1>4, <1>5, <1>6, <1>7 DEF Next, MainStep, ThreadStep

(***************************************************************************)
(* The ready list is a ring from the end of the initialisation on.         *)
(***************************************************************************)
THEOREM Invariance == ASSUME SharedLevel PROVE Spec => []IInv
<1>1. Init => IInv
  BY InitIInv
<1>2. IInv /\ [Next]_vars => IInv'
  BY NextIInv
<1>3. QED
  BY <1>1, <1>2, PTL DEF Spec

(***************************************************************************)
(* Type correctness: every variable keeps its type, for every word size.   *)
(***************************************************************************)
THEOREM TypeCorrect == ASSUME SharedLevel PROVE Spec => []TypeOK
<1>1. IInv => TypeOK
  BY DEF IInv
<1>2. QED
  BY <1>1, Invariance, PTL

(***************************************************************************)
(* The report never raises a false alarm: while the total fits the word    *)
(* and every thread has counted it prints no ERROR line, on any port and   *)
(* wherever in a round the main task gets the processor.                   *)
(***************************************************************************)
THEOREM NeverFalseAlarm == ASSUME SharedLevel PROVE Spec => []NoFalseAlarm
<1>1. ASSUME IInv PROVE \A t \in Thread : counter[t] \in {counter[4], Inc(counter[4])}
  <2>1. CASE pc[Main] = "initialize"
    BY <1>1, <2>1, Names DEF IInv, Starting, First
  <2>2. CASE pc[Main] # "initialize"
    <3>1. PICK h \in 0 .. 4 : Phase(h)
      BY <1>1, <2>2 DEF IInv, Started, Rotating
    <3>2. CASE First(h)
      BY <3>2, Names DEF First
    <3>3. CASE Before(h)
      BY <3>3, Names DEF Before
    <3>4. CASE After(h)
      <4>1. ASSUME NEW t \in Thread PROVE counter[t] \in {counter[4], Inc(counter[4])}
        <5>1. /\ counter[t] \in Word /\ counter[4] \in Word
              /\ t \in 0 .. 4 /\ 4 \in Thread
          BY <1>1, Names DEF IInv, TypeOK
        <5>2. CASE h = 4
          BY <3>4, <5>1, <5>2 DEF After
        <5>3. CASE h # 4 /\ t <= h
          BY <3>4, <5>1, <5>3 DEF After
        <5>4. CASE h # 4 /\ t > h
          <6>1. Inc(counter[t]) = Inc(counter[4])
            BY <3>4, <5>1, <5>4 DEF After
          <6>2. QED
            BY <5>1, <6>1, IncInjective
        <5>5. QED
          BY <5>1, <5>2, <5>3, <5>4
      <4>2. QED
        BY <4>1
    <3>5. QED
      BY <3>1, <3>2, <3>3, <3>4 DEF Phase
  <2>3. QED
    BY <2>1, <2>2
<1>2. IInv => NoFalseAlarm
  <2> SUFFICES ASSUME IInv, \A t \in Thread : counter[t] >= 1 /\ 5 * counter[t] <= MaxWord
               PROVE  ~Alarm(counter)
    BY DEF NoFalseAlarm
  <2>1. counter \in [0 .. 4 -> Word] /\ counter[4] \in Word
    BY Names DEF IInv, TypeOK
  <2>2. QED
    BY <1>1, <2>1, InStepNoAlarm, Names
<1>3. QED
  BY <1>2, Invariance, PTL

(***************************************************************************)
(* "Relinquish to all other threads at same priority" (lines 111-183): the *)
(* benchmark implements Rounds in the order of creation, on every port     *)
(* (its safety part; TLC checks the liveness part).                        *)
(***************************************************************************)
THEOREM ImplementsRounds ==
    ASSUME SharedLevel
    PROVE  Spec => RoundsSpec!Init /\ [][RoundsSpec!Next]_counter
<1>1. Init => RoundsSpec!Init
  BY DEF Init, RoundsSpec!Init
<1>2. IInv /\ [Next]_vars => [RoundsSpec!Next]_counter
  <2> SUFFICES ASSUME IInv, [Next]_vars, counter' # counter PROVE RoundsSpec!Next
    OBVIOUS
  <2>1. PICK t \in Thread : Count(t)
    BY DEF Next, MainStep, ThreadStep, Initialize, Sleep, Report, Wake, Relinquish, vars
  <2>2. Before(t)
    BY <2>1, CountIInv
  <2>3. /\ \A u \in Thread : u < t => counter[u] = Inc(counter[t])
        /\ \A u \in Thread : u > t => counter[u] = counter[t]
    BY <2>2, Names DEF Before
  <2>4. counter' = [counter EXCEPT ![t] = Inc(@)]
    BY <2>1 DEF Count
  <2>5. RoundsSpec!Count(t)
    BY <2>3, <2>4 DEF RoundsSpec!Count, RoundsSpec!Inc, Inc
  <2>6. QED
    BY <2>5 DEF RoundsSpec!Next
<1>3. QED
  BY <1>1, <1>2, Invariance, PTL DEF Spec
=============================================================================
