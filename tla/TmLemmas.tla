------------------------------ MODULE TmLemmas ------------------------------
(***************************************************************************)
(* Lemmas about the operators the benchmarks share, for every port, set of *)
(* threads, number of priorities and word size.                            *)
(*                                                                         *)
(* The kernels: the operations keep the ready lists and the states of the  *)
(* tasks in agreement, which is KernelInv, and the processor belongs to    *)
(* one task.  The benchmarks whose threads have levels of their own need   *)
(* less: their lists never hold two tasks (AloneIn, FixedLevels).  The     *)
(* reports: what an increment does to the total and to a difference of     *)
(* totals, and that counters in step raise no alarm.                       *)
(***************************************************************************)
EXTENDS TmThreads, TmReport, SequenceTheorems, WellFoundedInduction, TLAPS

\* The tasks in the list of a level are ready and have that level.
ListedAreReady ==
    \A l \in Level : \A i \in 1 .. Len(ready[l]) :
        state[ready[l][i]] = "ready" /\ level[ready[l][i]] = l

\* No task is twice in a list.
ListedOnce ==
    \A l \in Level : \A i, j \in 1 .. Len(ready[l]) : ready[l][i] = ready[l][j] => i = j

\* A ready task is in the list of its level.
ReadyAreListed ==
    \A t \in Task : state[t] = "ready" =>
        \E i \in 1 .. Len(ready[level[t]]) : ready[level[t]][i] = t

KernelInv == KernelTypeOK /\ ListedAreReady /\ ListedOnce /\ ReadyAreListed

\* The task that runs heads its list, whichever way the priorities run.
Heads(t) == state[t] = "ready" /\ Head(ready[level[t]]) = t

-----------------------------------------------------------------------------
(* The lists, element by element.                                          *)

LEMMA Singleton ==
    ASSUME NEW t \in Task
    PROVE  /\ <<t>> \in Seq(Task) /\ <<t>> # << >>
           /\ Len(<<t>>) = 1 /\ <<t>>[1] = t /\ Head(<<t>>) = t
           /\ Append(<< >>, t) = <<t>> /\ Tail(<<t>>) = << >>
  OBVIOUS

LEMMA NoElements == << >> \in Seq(Task) /\ Len(<< >>) = 0
  OBVIOUS

LEMMA TailElements ==
    ASSUME NEW q \in Seq(Task), Len(q) > 0
    PROVE  /\ q # << >> /\ Head(q) = q[1] /\ Tail(q) \in Seq(Task)
           /\ Len(Tail(q)) = Len(q) - 1
           /\ \A i \in 1 .. Len(q) - 1 : Tail(q)[i] = q[i + 1]
  BY HeadTailProperties

LEMMA AppendElements ==
    ASSUME NEW q \in Seq(Task), NEW t \in Task
    PROVE  /\ Append(q, t) \in Seq(Task) /\ Len(Append(q, t)) = Len(q) + 1
           /\ \A i \in 1 .. Len(q) : Append(q, t)[i] = q[i]
           /\ Append(q, t)[Len(q) + 1] = t
  BY AppendProperties

LEMMA ListType ==
    ASSUME KernelTypeOK, NEW l \in Level
    PROVE  /\ ready[l] \in Seq(Task) /\ Len(ready[l]) \in Nat
           /\ \A i \in 1 .. Len(ready[l]) : ready[l][i] \in Task
<1>1. ready[l] \in Seq(Task)
  BY DEF KernelTypeOK
<1>2. QED
  BY <1>1, LenProperties, ElementOfSeq

-----------------------------------------------------------------------------
(* The processor.                                                          *)

\* The running task is the first of its list.
LEMMA HeadIsFirst ==
    ASSUME KernelInv, NEW t \in Task, Heads(t)
    PROVE  /\ level[t] \in Level
           /\ ready[level[t]] \in Seq(Task)
           /\ Len(ready[level[t]]) > 0
           /\ ready[level[t]][1] = t
<1>1. state[t] = "ready" /\ Head(ready[level[t]]) = t /\ level[t] \in Level
  BY DEF Heads, KernelInv, KernelTypeOK
<1>2. ready[level[t]] \in Seq(Task) /\ Len(ready[level[t]]) \in Nat
  BY <1>1, ListType DEF KernelInv
<1>3. PICK i \in 1 .. Len(ready[level[t]]) : ready[level[t]][i] = t
  BY <1>1 DEF KernelInv, ReadyAreListed
<1>4. Len(ready[level[t]]) > 0
  BY <1>2, <1>3
<1>5. QED
  BY <1>1, <1>2, <1>4, TailElements

LEMMA RunningIsFirst ==
    ASSUME KernelInv, NEW t \in Task, Runs(t)
    PROVE  /\ level[t] \in Level
           /\ ready[level[t]] \in Seq(Task)
           /\ Len(ready[level[t]]) > 0
           /\ ready[level[t]][1] = t
  BY HeadIsFirst DEF Runs, Heads

\* No ready task is more urgent than the running one, and none of its level is
\* before it.
LEMMA RunningIsMostUrgent ==
    ASSUME KernelInv, NEW t \in Task, Runs(t), NEW u \in Task, state[u] = "ready"
    PROVE  ~MoreUrgent(level[u], level[t])
<1>1. level[u] \in Level
  BY DEF KernelInv, KernelTypeOK
<1>2. PICK i \in 1 .. Len(ready[level[u]]) : ready[level[u]][i] = u
  BY DEF KernelInv, ReadyAreListed
<1>3. Len(ready[level[u]]) # 0
  BY <1>1, <1>2, ListType DEF KernelInv
<1>4. ready[level[u]] # << >>
  BY <1>3, NoElements
<1>5. QED
  BY <1>1, <1>4 DEF Runs

\* One processor: two tasks that run are the same.
LEMMA OneProcessor ==
    ASSUME KernelInv, NEW t \in Task, Runs(t), NEW u \in Task, Runs(u)
    PROVE  t = u
<1>1. level[t] \in Nat /\ level[u] \in Nat
  BY MaxPrioritiesAssumption DEF KernelInv, KernelTypeOK, Level
<1>2. ~MoreUrgent(level[u], level[t]) /\ ~MoreUrgent(level[t], level[u])
  BY RunningIsMostUrgent DEF Runs
<1>3. level[t] = level[u]
  BY <1>1, <1>2 DEF MoreUrgent
<1>4. QED
  BY <1>3 DEF Runs

-----------------------------------------------------------------------------
(* Each operation keeps KernelInv.                                         *)

\* A task that is not ready becomes ready as the last of the list of level l.
LEMMA JoinsLast ==
    ASSUME KernelInv, NEW t \in Task, state[t] # "ready", NEW l \in Level,
           state' = [state EXCEPT ![t] = "ready"],
           level' = [level EXCEPT ![t] = l],
           ready' = [ready EXCEPT ![l] = Append(@, t)]
    PROVE  KernelInv'
<1> DEFINE q == ready[l]
           r == Append(q, t)
<1>1. q \in Seq(Task) /\ Len(q) \in Nat /\ \A i \in 1 .. Len(q) : q[i] \in Task
  BY ListType DEF KernelInv
<1>2. /\ r \in Seq(Task) /\ Len(r) = Len(q) + 1
      /\ \A i \in 1 .. Len(q) : r[i] = q[i]
      /\ r[Len(q) + 1] = t
  BY <1>1, AppendElements
<1>3. ready' = [ready EXCEPT ![l] = r]
  OBVIOUS
<1>4. \A i \in 1 .. Len(q) : q[i] # t
  BY DEF KernelInv, ListedAreReady
<1> HIDE DEF r
<1>5. /\ ready'[l] = r
      /\ \A k \in Level : k # l => ready'[k] = ready[k]
      /\ state'[t] = "ready" /\ level'[t] = l
      /\ \A u \in Task : u # t => state'[u] = state[u] /\ level'[u] = level[u]
  BY <1>3 DEF KernelInv, KernelTypeOK
<1>6. KernelTypeOK'
  BY <1>2, <1>3 DEF KernelInv, KernelTypeOK, State
<1>7. ListedAreReady'
  <2> SUFFICES ASSUME NEW k \in Level, NEW i \in 1 .. Len(ready'[k])
               PROVE  state'[ready'[k][i]] = "ready" /\ level'[ready'[k][i]] = k
    BY DEF ListedAreReady
  <2>1. CASE k = l
    <3>1. CASE i = Len(q) + 1
      BY <1>2, <1>5, <2>1, <3>1
    <3>2. CASE i # Len(q) + 1
      <4>1. i \in 1 .. Len(q) /\ ready'[k][i] = q[i]
        BY <1>1, <1>2, <1>5, <2>1, <3>2
      <4>2. state[q[i]] = "ready" /\ level[q[i]] = l
        BY <4>1 DEF KernelInv, ListedAreReady
      <4>3. QED
        BY <1>1, <1>4, <1>5, <2>1, <4>1, <4>2
    <3>3. QED
      BY <3>1, <3>2
  <2>2. CASE k # l
    <3>1. ready'[k] = ready[k] /\ ready[k][i] \in Task
      BY <1>5, <2>2, ListType DEF KernelInv
    <3>2. state[ready[k][i]] = "ready" /\ level[ready[k][i]] = k
      BY <3>1 DEF KernelInv, ListedAreReady
    <3>3. QED
      BY <1>5, <3>1, <3>2
  <2>3. QED
    BY <2>1, <2>2
<1>8. ListedOnce'
  <2> SUFFICES ASSUME NEW k \in Level, NEW i \in 1 .. Len(ready'[k]),
                      NEW j \in 1 .. Len(ready'[k]), ready'[k][i] = ready'[k][j]
               PROVE  i = j
    BY DEF ListedOnce
  <2>1. CASE k = l
    <3>1. \A m, n \in 1 .. Len(q) : q[m] = q[n] => m = n
      BY DEF KernelInv, ListedOnce
    <3>2. QED
      BY <1>1, <1>2, <1>4, <1>5, <2>1, <3>1
  <2>2. CASE k # l
    BY <1>5, <2>2 DEF KernelInv, ListedOnce
  <2>3. QED
    BY <2>1, <2>2
<1>9. ReadyAreListed'
  <2> SUFFICES ASSUME NEW u \in Task, state'[u] = "ready"
               PROVE  \E i \in 1 .. Len(ready'[level'[u]]) : ready'[level'[u]][i] = u
    BY DEF ReadyAreListed
  <2>1. CASE u = t
    <3>1. Len(q) + 1 \in 1 .. Len(r)
      BY <1>1, <1>2
    <3>2. QED
      BY <1>2, <1>5, <2>1, <3>1
  <2>2. CASE u # t
    <3>1. state[u] = "ready" /\ level'[u] = level[u] /\ level[u] \in Level
      BY <1>5, <2>2 DEF KernelInv, KernelTypeOK
    <3>2. PICK i \in 1 .. Len(ready[level[u]]) : ready[level[u]][i] = u
      BY <3>1 DEF KernelInv, ReadyAreListed
    <3>3. CASE level[u] = l
      <4>1. i \in 1 .. Len(r) /\ r[i] = u
        BY <1>1, <1>2, <3>2, <3>3
      <4>2. QED
        BY <1>5, <3>1, <3>3, <4>1
    <3>4. CASE level[u] # l
      BY <1>5, <3>1, <3>2, <3>4
    <3>5. QED
      BY <3>3, <3>4
  <2>3. QED
    BY <2>1, <2>2
<1>10. QED
  BY <1>6, <1>7, <1>8, <1>9 DEF KernelInv

\* The head of a list leaves it.
LEMMA HeadLeaves ==
    ASSUME KernelInv, NEW t \in Task, Heads(t), NEW s \in State \ {"ready"}, Block(t, s)
    PROVE  KernelInv'
<1> DEFINE l == level[t]
           q == ready[l]
           r == Tail(q)
<1>1. l \in Level /\ q \in Seq(Task) /\ Len(q) \in Nat /\ Len(q) > 0 /\ q[1] = t
  BY HeadIsFirst, ListType DEF KernelInv
<1>2. /\ r \in Seq(Task) /\ Len(r) = Len(q) - 1
      /\ \A i \in 1 .. Len(q) - 1 : r[i] = q[i + 1]
  BY <1>1, TailElements
<1>3. /\ ready' = [ready EXCEPT ![l] = r]
      /\ state' = [state EXCEPT ![t] = s]
      /\ level' = level
  BY DEF Block
<1>4. \A i \in 1 .. Len(q) : /\ q[i] \in Task /\ state[q[i]] = "ready" /\ level[q[i]] = l
                             /\ \A j \in 1 .. Len(q) : q[i] = q[j] => i = j
  BY <1>1, ListType DEF KernelInv, ListedAreReady, ListedOnce
<1> HIDE DEF r
<1>5. /\ ready'[l] = r
      /\ \A k \in Level : k # l => ready'[k] = ready[k]
      /\ state'[t] = s
      /\ \A u \in Task : u # t => state'[u] = state[u]
  BY <1>1, <1>3 DEF KernelInv, KernelTypeOK
<1>6. KernelTypeOK'
  BY <1>1, <1>2, <1>3 DEF KernelInv, KernelTypeOK
<1>7. ListedAreReady'
  <2> SUFFICES ASSUME NEW k \in Level, NEW i \in 1 .. Len(ready'[k])
               PROVE  state'[ready'[k][i]] = "ready" /\ level[ready'[k][i]] = k
    BY <1>3 DEF ListedAreReady
  <2>1. CASE k = l
    <3>1. i + 1 \in 1 .. Len(q) /\ ready'[k][i] = q[i + 1] /\ i + 1 # 1
      BY <1>1, <1>2, <1>5, <2>1
    <3>2. q[i + 1] # t
      BY <1>1, <1>4, <3>1
    <3>3. QED
      BY <1>4, <1>5, <2>1, <3>1, <3>2
  <2>2. CASE k # l
    <3>1. ready'[k] = ready[k] /\ ready[k][i] \in Task
      BY <1>5, <2>2, ListType DEF KernelInv
    <3>2. state[ready[k][i]] = "ready" /\ level[ready[k][i]] = k
      BY <3>1 DEF KernelInv, ListedAreReady
    <3>3. ready[k][i] # t
      BY <2>2, <3>2
    <3>4. QED
      BY <1>5, <3>1, <3>2, <3>3
  <2>3. QED
    BY <2>1, <2>2
<1>8. ListedOnce'
  <2> SUFFICES ASSUME NEW k \in Level, NEW i \in 1 .. Len(ready'[k]),
                      NEW j \in 1 .. Len(ready'[k]), ready'[k][i] = ready'[k][j]
               PROVE  i = j
    BY DEF ListedOnce
  <2>1. CASE k = l
    <3>1. /\ i + 1 \in 1 .. Len(q) /\ j + 1 \in 1 .. Len(q)
          /\ q[i + 1] = q[j + 1]
      BY <1>1, <1>2, <1>5, <2>1
    <3>2. QED
      BY <1>4, <3>1
  <2>2. CASE k # l
    BY <1>5, <2>2 DEF KernelInv, ListedOnce
  <2>3. QED
    BY <2>1, <2>2
<1>9. ReadyAreListed'
  <2> SUFFICES ASSUME NEW u \in Task, state'[u] = "ready"
               PROVE  \E i \in 1 .. Len(ready'[level[u]]) : ready'[level[u]][i] = u
    BY <1>3 DEF ReadyAreListed
  <2>1. u # t /\ state[u] = "ready" /\ level[u] \in Level
    BY <1>5 DEF KernelInv, KernelTypeOK
  <2>2. PICK i \in 1 .. Len(ready[level[u]]) : ready[level[u]][i] = u
    BY <2>1 DEF KernelInv, ReadyAreListed
  <2>3. CASE level[u] = l
    <3>1. i # 1 /\ i \in 1 .. Len(q)
      BY <1>1, <2>1, <2>2, <2>3
    <3>2. i - 1 \in 1 .. Len(r) /\ i - 1 \in 1 .. Len(q) - 1
      BY <1>1, <1>2, <3>1
    <3>3. r[i - 1] = q[i - 1 + 1] /\ i - 1 + 1 = i
      BY <1>2, <3>1, <3>2
    <3>4. QED
      BY <1>5, <2>2, <2>3, <3>2, <3>3
  <2>4. CASE level[u] # l
    BY <1>5, <2>1, <2>2, <2>4
  <2>5. QED
    BY <2>3, <2>4
<1>10. QED
  BY <1>6, <1>7, <1>8, <1>9 DEF KernelInv

\* The running task leaves the head of its list.
LEMMA LeavesFirst ==
    ASSUME KernelInv, NEW t \in Task, Runs(t), NEW s \in State \ {"ready"}, Block(t, s)
    PROVE  KernelInv'
  BY HeadLeaves DEF Runs, Heads

\* The list of the running task without it, and the list of level l without it.
Rest(t) == Tail(ready[level[t]])
Others(t, l) == IF l = level[t] THEN Rest(t) ELSE ready[l]

\* The running task becomes the last of level l, its own or another one.
Moves(t, l) ==
    /\ state' = state
    /\ level' = [level EXCEPT ![t] = l]
    /\ ready' = [k \in Level |-> IF k = l THEN Append(Others(t, l), t)
                                 ELSE IF k = level[t] THEN Rest(t)
                                 ELSE ready[k]]

LEMMA MovesKernel ==
    ASSUME KernelInv, NEW t \in Task, Runs(t), NEW l \in Level, Moves(t, l)
    PROVE  KernelInv'
<1> DEFINE q == ready[level[t]]
           p == Rest(t)
           m == Others(t, l)
           r == Append(m, t)
<1>1. /\ level[t] \in Level /\ q \in Seq(Task) /\ Len(q) \in Nat /\ Len(q) > 0
      /\ q[1] = t /\ state[t] = "ready"
  BY RunningIsFirst, ListType DEF KernelInv, Runs
<1>2. /\ p \in Seq(Task) /\ Len(p) = Len(q) - 1
      /\ \A i \in 1 .. Len(q) - 1 : p[i] = q[i + 1]
  BY <1>1, TailElements DEF Rest
<1> HIDE DEF p
<1>3. \A i \in 1 .. Len(q) : /\ q[i] \in Task /\ state[q[i]] = "ready"
                             /\ level[q[i]] = level[t]
                             /\ \A j \in 1 .. Len(q) : q[i] = q[j] => i = j
  BY <1>1, ListType DEF KernelInv, ListedAreReady, ListedOnce
\* The list p of the old level without t has the other ready tasks of the level.
<1>4. \A i \in 1 .. Len(p) : /\ p[i] \in Task /\ p[i] # t
                             /\ state[p[i]] = "ready" /\ level[p[i]] = level[t]
                             /\ \A j \in 1 .. Len(p) : p[i] = p[j] => i = j
  <2> SUFFICES ASSUME NEW i \in 1 .. Len(p)
               PROVE  /\ p[i] \in Task /\ p[i] # t
                      /\ state[p[i]] = "ready" /\ level[p[i]] = level[t]
                      /\ \A j \in 1 .. Len(p) : p[i] = p[j] => i = j
    OBVIOUS
  <2>1. i + 1 \in 1 .. Len(q) /\ p[i] = q[i + 1] /\ i + 1 # 1 /\ 1 \in 1 .. Len(q)
    BY <1>1, <1>2
  <2>2. \A j \in 1 .. Len(p) : j + 1 \in 1 .. Len(q) /\ p[j] = q[j + 1]
    BY <1>1, <1>2
  <2>3. p[i] # t
    BY <1>1, <1>3, <2>1
  <2>4. ASSUME NEW j \in 1 .. Len(p), p[i] = p[j] PROVE i = j
    <3>1. i + 1 = j + 1
      BY <1>3, <2>1, <2>2, <2>4
    <3>2. QED
      BY <3>1
  <2>5. QED
    BY <1>3, <2>1, <2>3, <2>4
<1>5. ASSUME NEW u \in Task, u # t, state[u] = "ready", level[u] = level[t]
      PROVE  \E i \in 1 .. Len(p) : p[i] = u
  <2>1. PICK i \in 1 .. Len(q) : q[i] = u
    BY <1>5 DEF KernelInv, ReadyAreListed
  <2>2. i # 1
    BY <1>1, <1>5, <2>1
  <2>3. i - 1 \in 1 .. Len(p) /\ i - 1 \in 1 .. Len(q) - 1
    BY <1>1, <1>2, <2>2
  <2>4. p[i - 1] = q[i - 1 + 1] /\ i - 1 + 1 = i
    BY <1>2, <2>3
  <2>5. QED
    BY <2>1, <2>3, <2>4
\* The list m that t joins has the other ready tasks of level l.
<1>6. /\ m \in Seq(Task) /\ Len(m) \in Nat
      /\ \A i \in 1 .. Len(m) : /\ m[i] \in Task /\ m[i] # t
                                /\ state[m[i]] = "ready" /\ level[m[i]] = l
                                /\ \A j \in 1 .. Len(m) : m[i] = m[j] => i = j
  <2>1. CASE l = level[t]
    <3>1. m = p
      BY <2>1 DEF Others, p
    <3>2. QED
      BY <1>1, <1>2, <1>4, <2>1, <3>1
  <2>2. CASE l # level[t]
    <3>1. m = ready[l]
      BY <2>2 DEF Others
    <3>2. QED
      BY <2>2, <3>1, ListType DEF KernelInv, ListedAreReady, ListedOnce
  <2>3. QED
    BY <2>1, <2>2
<1>7. ASSUME NEW u \in Task, u # t, state[u] = "ready", level[u] = l
      PROVE  \E i \in 1 .. Len(m) : m[i] = u
  <2>1. CASE l = level[t]
    <3>1. m = p
      BY <2>1 DEF Others, p
    <3>2. QED
      BY <1>5, <1>7, <2>1, <3>1
  <2>2. CASE l # level[t]
    <3>1. m = ready[l]
      BY <2>2 DEF Others
    <3>2. QED
      BY <1>7, <2>2, <3>1 DEF KernelInv, ReadyAreListed
  <2>3. QED
    BY <2>1, <2>2
<1>8. /\ r \in Seq(Task) /\ Len(r) = Len(m) + 1
      /\ \A i \in 1 .. Len(m) : r[i] = m[i]
      /\ r[Len(m) + 1] = t
  BY <1>6, AppendElements
<1>9. /\ \A k \in Level : k # l /\ k # level[t] => ready'[k] = ready[k]
      /\ l # level[t] => ready'[level[t]] = p
      /\ ready'[l] = r
      /\ ready' \in [Level -> Seq(Task)]
      /\ level'[t] = l /\ state' = state /\ level' \in [Task -> Level]
      /\ \A u \in Task : u # t => level'[u] = level[u]
  <2>1. /\ ready' = [k \in Level |-> IF k = l THEN r ELSE IF k = level[t] THEN p ELSE ready[k]]
        /\ level' = [level EXCEPT ![t] = l] /\ state' = state
    BY DEF Moves, p
  <2> HIDE DEF r
  <2>2. QED
    BY <1>1, <1>2, <1>8, <2>1 DEF KernelInv, KernelTypeOK
<1> HIDE DEF m, r
<1>10. KernelTypeOK'
  BY <1>9 DEF KernelInv, KernelTypeOK
<1>11. ListedAreReady'
  <2> SUFFICES ASSUME NEW k \in Level, NEW i \in 1 .. Len(ready'[k])
               PROVE  state[ready'[k][i]] = "ready" /\ level'[ready'[k][i]] = k
    BY <1>9 DEF ListedAreReady
  <2>1. CASE k = l
    <3>1. CASE i = Len(m) + 1
      BY <1>1, <1>8, <1>9, <2>1, <3>1
    <3>2. CASE i # Len(m) + 1
      <4>1. i \in 1 .. Len(m) /\ ready'[k][i] = m[i]
        BY <1>6, <1>8, <1>9, <2>1, <3>2
      <4>2. QED
        BY <1>6, <1>9, <2>1, <4>1
    <3>3. QED
      BY <3>1, <3>2
  <2>2. CASE k # l /\ k = level[t]
    <3>1. ready'[k] = p /\ i \in 1 .. Len(p)
      BY <1>9, <2>2
    <3>2. /\ p[i] \in Task /\ p[i] # t
          /\ state[p[i]] = "ready" /\ level[p[i]] = level[t]
      BY <1>4, <3>1
    <3>3. QED
      BY <1>9, <2>2, <3>1, <3>2
  <2>3. CASE k # l /\ k # level[t]
    <3>1. ready'[k] = ready[k] /\ ready[k][i] \in Task
      BY <1>9, <2>3, ListType DEF KernelInv
    <3>2. state[ready[k][i]] = "ready" /\ level[ready[k][i]] = k
      BY <3>1 DEF KernelInv, ListedAreReady
    <3>3. QED
      BY <1>9, <2>3, <3>1, <3>2
  <2>4. QED
    BY <2>1, <2>2, <2>3
<1>12. ListedOnce'
  <2> SUFFICES ASSUME NEW k \in Level, NEW i \in 1 .. Len(ready'[k]),
                      NEW j \in 1 .. Len(ready'[k]), ready'[k][i] = ready'[k][j]
               PROVE  i = j
    BY DEF ListedOnce
  <2>1. CASE k = l
    <3>1. i \in 1 .. Len(m) + 1 /\ j \in 1 .. Len(m) + 1 /\ r[i] = r[j]
      BY <1>8, <1>9, <2>1
    <3>2. \A n \in 1 .. Len(m) : r[n] # t
      BY <1>6, <1>8
    <3>3. CASE i \in 1 .. Len(m) /\ j \in 1 .. Len(m)
      BY <1>6, <1>8, <3>1, <3>3
    <3>4. CASE i = Len(m) + 1 \/ j = Len(m) + 1
      BY <1>6, <1>8, <3>1, <3>2, <3>4
    <3>5. QED
      BY <1>6, <3>1, <3>3, <3>4
  <2>2. CASE k # l /\ k = level[t]
    BY <1>4, <1>9, <2>2
  <2>3. CASE k # l /\ k # level[t]
    BY <1>9, <2>3 DEF KernelInv, ListedOnce
  <2>4. QED
    BY <2>1, <2>2, <2>3
<1>13. ReadyAreListed'
  <2> SUFFICES ASSUME NEW u \in Task, state[u] = "ready"
               PROVE  \E i \in 1 .. Len(ready'[level'[u]]) : ready'[level'[u]][i] = u
    BY <1>9 DEF ReadyAreListed
  <2>1. CASE u = t
    <3>1. Len(m) + 1 \in 1 .. Len(r) /\ r[Len(m) + 1] = u
      BY <1>6, <1>8, <2>1
    <3>2. ready'[level'[u]] = r
      BY <1>9, <2>1
    <3>3. QED
      BY <3>1, <3>2
  <2>2. CASE u # t /\ level[u] = l
    <3>1. PICK i \in 1 .. Len(m) : m[i] = u
      BY <1>7, <2>2
    <3>2. i \in 1 .. Len(r) /\ r[i] = u
      BY <1>6, <1>8, <3>1
    <3>3. QED
      BY <1>9, <2>2, <3>2
  <2>3. CASE u # t /\ level[u] # l /\ level[u] = level[t]
    <3>1. PICK i \in 1 .. Len(p) : p[i] = u
      BY <1>5, <2>3
    <3>2. ready'[level'[u]] = p
      BY <1>9, <2>3
    <3>3. QED
      BY <3>1, <3>2
  <2>4. CASE u # t /\ level[u] # l /\ level[u] # level[t]
    <3>1. level[u] \in Level
      BY DEF KernelInv, KernelTypeOK
    <3>2. level'[u] = level[u] /\ ready'[level[u]] = ready[level[u]]
      BY <1>9, <2>4, <3>1
    <3>3. QED
      BY <3>2 DEF KernelInv, ReadyAreListed
  <2>5. QED
    BY <2>1, <2>2, <2>3, <2>4
<1>14. QED
  BY <1>10, <1>11, <1>12, <1>13 DEF KernelInv

\* Relinquishing puts the running task behind the others of its level.
LEMMA RelinquishKernel ==
    ASSUME KernelInv, NEW t \in Task, Runs(t), tm_thread_relinquish(t)
    PROVE  KernelInv'
<1>1. level[t] \in Level /\ level' = [level EXCEPT ![t] = level[t]] /\ state' = state
  BY DEF tm_thread_relinquish, KernelInv, KernelTypeOK
<1>2. ready' = [ready EXCEPT ![level[t]] = Append(Rest(t), t)]
  BY DEF tm_thread_relinquish, Rest
<1>3. Others(t, level[t]) = Rest(t)
  BY DEF Others
<1>4. Moves(t, level[t])
  BY <1>1, <1>2, <1>3 DEF Moves, KernelInv, KernelTypeOK
<1>5. QED
  BY <1>1, <1>4, MovesKernel

\* A new level puts the running task behind the tasks of that level.
LEMMA ChangeLevelKernel ==
    ASSUME KernelInv, NEW t \in Task, Runs(t), NEW l \in Level, l # level[t],
           ChangeLevel(t, l)
    PROVE  KernelInv'
<1>1. level[t] \in Level /\ level' = [level EXCEPT ![t] = l] /\ state' = state
  BY DEF ChangeLevel, KernelInv, KernelTypeOK
<1>2. ready' = [ready EXCEPT ![level[t]] = Rest(t), ![l] = Append(ready[l], t)]
  BY DEF ChangeLevel, Rest
<1>3. Others(t, l) = ready[l]
  BY DEF Others
<1>4. Moves(t, l)
  BY <1>1, <1>2, <1>3 DEF Moves, KernelInv, KernelTypeOK
<1>5. QED
  BY <1>4, MovesKernel

LEMMA MakeReadyKernel ==
    ASSUME KernelInv, NEW t \in Task, state[t] # "ready", MakeReady(t)
    PROVE  KernelInv'
<1>1. level[t] \in Level /\ level' = [level EXCEPT ![t] = level[t]]
  BY DEF MakeReady, KernelInv, KernelTypeOK
<1>2. QED
  BY <1>1, JoinsLast DEF MakeReady

LEMMA AddReadyKernel ==
    ASSUME KernelInv, NEW t \in Task, NEW l \in Level, AddReady(t, l)
    PROVE  KernelInv'
  BY JoinsLast DEF AddReady

\* A task that was absent is in no list, so no list changes.
LEMMA AddSuspendedKernel ==
    ASSUME KernelInv, NEW t \in Task, NEW l \in Level, AddSuspended(t, l)
    PROVE  KernelInv'
<1>1. /\ state[t] # "ready" /\ state' = [state EXCEPT ![t] = "suspended"]
      /\ level' = [level EXCEPT ![t] = l] /\ ready' = ready
  BY DEF AddSuspended
<1>2. /\ state'[t] = "suspended"
      /\ \A u \in Task : u # t => state'[u] = state[u] /\ level'[u] = level[u]
  BY <1>1 DEF KernelInv, KernelTypeOK
<1>3. KernelTypeOK'
  BY <1>1 DEF KernelInv, KernelTypeOK, State
<1>4. ListedAreReady'
  <2> SUFFICES ASSUME NEW k \in Level, NEW i \in 1 .. Len(ready[k])
               PROVE  state'[ready[k][i]] = "ready" /\ level'[ready[k][i]] = k
    BY <1>1 DEF ListedAreReady
  <2>1. ready[k][i] \in Task
    BY ListType DEF KernelInv
  <2>2. state[ready[k][i]] = "ready" /\ level[ready[k][i]] = k
    BY DEF KernelInv, ListedAreReady
  <2>3. QED
    BY <1>1, <1>2, <2>1, <2>2
<1>5. ListedOnce'
  BY <1>1 DEF KernelInv, ListedOnce
<1>6. ReadyAreListed'
  BY <1>1, <1>2 DEF KernelInv, ReadyAreListed
<1>7. QED
  BY <1>3, <1>4, <1>5, <1>6 DEF KernelInv

\* The started kernel.
LEMMA StartedKernel ==
    ASSUME NEW l \in Level, StartedWith(l)
    PROVE  KernelInv
<1>1. Main \in Task
  BY DEF Task
<1>2. /\ state[Main] = "ready" /\ level[Main] = l /\ ready[l] = <<Main>>
      /\ \A t \in Task : t # Main => state[t] = "absent"
      /\ \A k \in Level : k # l => ready[k] = << >>
  BY <1>1 DEF StartedWith
<1>3. Len(<<Main>>) = 1 /\ <<Main>>[1] = Main /\ <<Main>> \in Seq(Task)
  BY <1>1, Singleton
<1>4. KernelTypeOK
  <2>1. state \in [Task -> State] /\ level \in [Task -> Level]
    BY MaxPrioritiesAssumption DEF StartedWith, State, Level
  <2>2. ready \in [Level -> Seq(Task)]
    BY <1>3, NoElements DEF StartedWith
  <2>3. QED
    BY <2>1, <2>2 DEF KernelTypeOK
<1>5. ListedAreReady /\ ListedOnce
  <2>1. ASSUME NEW k \in Level, NEW i \in 1 .. Len(ready[k]) PROVE k = l /\ i = 1
    <3>1. k = l
      BY <1>2, <2>1, NoElements
    <3>2. QED
      <4>1. Len(ready[k]) = 1
        BY <1>2, <1>3, <3>1
      <4>2. QED
        BY <2>1, <3>1, <4>1
  <2>2. QED
    BY <1>2, <1>3, <2>1 DEF ListedAreReady, ListedOnce
<1>6. ReadyAreListed
  BY <1>2, <1>3 DEF ReadyAreListed
<1>7. QED
  BY <1>4, <1>5, <1>6 DEF KernelInv

LEMMA InitKernel ==
    ASSUME KernelInit
    PROVE  KernelInv /\ \A t \in Thread : state[t] = "absent"
<1>1. 1 \in Level /\ 30 \in Level
  BY MaxPrioritiesAssumption DEF Level
<1>2. PICK l \in {1, 30} : StartedWith(l)
  BY PortAssumption
  DEF KernelInit, rtos_main_freertos, rtos_main_threadx, rtos_main_zephyr
<1>3. QED
  BY <1>1, <1>2, StartedKernel, MainAssumption DEF StartedWith, Task

-----------------------------------------------------------------------------
(* The services of the porting layers.                                     *)

\* Creating a thread with a priority of the suite.
LEMMA CreateKernel ==
    ASSUME KernelInv, NEW t \in Thread, NEW priority \in 1 .. 31,
           tm_thread_create(t, priority)
    PROVE  /\ KernelInv'
           /\ state[t] = "absent" /\ state'[t] \in {"ready", "suspended"}
           /\ \A u \in Task : u # t => state'[u] = state[u] /\ level'[u] = level[u]
<1>1. t \in Task
  BY DEF Task
<1>2. PICK l \in Level : AddReady(t, l) \/ AddSuspended(t, l)
  <2>1. priority \in Level
    BY MaxPrioritiesAssumption DEF Level
  <2>2. MaxPriorities - priority + 1 \in Level
    BY MaxPrioritiesAssumption DEF Level
  <2>3. QED
    BY <2>1, <2>2, PortAssumption DEF tm_thread_create, freertos_thread_create,
       threadx_thread_create, zephyr_thread_create
<1>3. KernelInv'
  BY <1>1, <1>2, AddReadyKernel, AddSuspendedKernel
<1>4. QED
  BY <1>1, <1>2, <1>3 DEF AddReady, AddSuspended, KernelInv, KernelTypeOK

\* Resuming a thread changes it only if it was suspended.
LEMMA ResumeKernel ==
    ASSUME KernelInv, NEW t \in Task, tm_thread_resume(t)
    PROVE  /\ KernelInv'
           /\ level' = level
           /\ state' = IF state[t] = "suspended" THEN [state EXCEPT ![t] = "ready"]
                       ELSE state
<1>1. CASE state[t] = "suspended"
  BY <1>1, MakeReadyKernel DEF tm_thread_resume, MakeReady
<1>2. CASE state[t] # "suspended"
  BY <1>2 DEF tm_thread_resume, kernel, KernelInv, KernelTypeOK, ListedAreReady,
          ListedOnce, ReadyAreListed
<1>3. QED
  BY <1>1, <1>2

LEMMA SameKernel == ASSUME KernelInv, UNCHANGED kernel PROVE KernelInv'
  BY DEF kernel, KernelInv, KernelTypeOK, ListedAreReady, ListedOnce, ReadyAreListed

\* A set of numbers that is not empty has a least one.
LEMMA LeastExists ==
    ASSUME NEW S \in SUBSET Nat, S # {}
    PROVE  \E m \in S : \A n \in S : m <= n
<1> DEFINE R == OpToRel(<, Nat)
<1>1. IsWellFoundedOn(R, Nat)
  BY NatLessThanWellFounded
<1>2. \A x, y \in Nat : x < y => <<x, y>> \in R
  BY DEF OpToRel
<1> HIDE DEF R
<1>3. PICK m \in S : \A n \in S : ~(<<n, m>> \in R)
  BY <1>1, WFMin
<1>4. ASSUME NEW n \in S PROVE m <= n
  <2>1. m \in Nat /\ n \in Nat /\ ~(<<n, m>> \in R)
    BY <1>3
  <2>2. ~(n < m)
    BY <1>2, <2>1, Zenon
  <2>3. QED
    BY <2>1, <2>2
<1>5. QED
  BY <1>4

-----------------------------------------------------------------------------
(* The arithmetic of the counters and of the reports.                      *)

LEMMA IncType == ASSUME NEW x \in Word PROVE Inc(x) \in Word
  BY MaxWordAssumption DEF Inc, Word

LEMMA IncInjective ==
    ASSUME NEW x \in Word, NEW y \in Word, Inc(x) = Inc(y)
    PROVE  x = y
  BY MaxWordAssumption DEF Inc, Word

LEMMA PlusType == ASSUME NEW x \in Word, NEW y \in Word PROVE Plus(x, y) \in Word
  BY MaxWordAssumption DEF Plus, Word

LEMMA MinusType == ASSUME NEW x \in Word, NEW y \in Word PROVE Minus(x, y) \in Word
  BY MaxWordAssumption DEF Minus, Word

\* An increment of a summand is one of the sum.
LEMMA PlusInc ==
    ASSUME NEW x \in Word, NEW y \in Word
    PROVE  /\ Plus(Inc(x), y) = Inc(Plus(x, y))
           /\ Plus(x, Inc(y)) = Inc(Plus(x, y))
  BY MaxWordAssumption DEF Plus, Inc, Word

\* A total that grows by one is one more away from the last one.
LEMMA MinusInc ==
    ASSUME NEW x \in Word, NEW y \in Word
    PROVE  Minus(Inc(x), y) = Inc(Minus(x, y))
  BY MaxWordAssumption DEF Minus, Inc, Word

LEMMA MinusItself == ASSUME NEW x \in Word PROVE Minus(x, x) = 0
  BY MaxWordAssumption DEF Minus, Word

LEMMA TotalType == ASSUME NEW c \in [0 .. 4 -> Word] PROVE Total(c) \in Word
<1>1. /\ c[0] \in Word /\ c[1] \in Word /\ c[2] \in Word /\ c[3] \in Word
      /\ c[4] \in Word
  OBVIOUS
<1>2. QED
  BY <1>1, PlusType DEF Total

\* An increment of one of the five counters is one of their total.
LEMMA TotalInc ==
    ASSUME NEW c \in [0 .. 4 -> Word], NEW t \in 0 .. 4
    PROVE  Total([c EXCEPT ![t] = Inc(@)]) = Inc(Total(c))
<1> DEFINE d == [c EXCEPT ![t] = Inc(@)]
           two == Plus(c[0], c[1])
           three == Plus(two, c[2])
           four == Plus(three, c[3])
<1>1. /\ c[0] \in Word /\ c[1] \in Word /\ c[2] \in Word /\ c[3] \in Word
      /\ c[4] \in Word
  OBVIOUS
<1>2. two \in Word /\ three \in Word /\ four \in Word
  BY <1>1, PlusType
<1>3. \A i \in 0 .. 4 : d[i] = IF i = t THEN Inc(c[i]) ELSE c[i]
  OBVIOUS
<1>4. Total(d) = Plus(Plus(Plus(Plus(d[0], d[1]), d[2]), d[3]), d[4])
  BY DEF Total
<1>5. Total(c) = Plus(four, c[4])
  BY DEF Total
<1> HIDE DEF d
<1>6. CASE t \in {0, 1}
  <2>1. Plus(d[0], d[1]) = Inc(two) /\ d[2] = c[2] /\ d[3] = c[3] /\ d[4] = c[4]
    BY <1>1, <1>3, <1>6, PlusInc
  <2>2. QED
    BY <1>1, <1>2, <1>4, <1>5, <2>1, PlusInc DEF d
<1>7. CASE t = 2
  BY <1>1, <1>2, <1>3, <1>4, <1>5, <1>7, PlusInc DEF d
<1>8. CASE t = 3
  BY <1>1, <1>2, <1>3, <1>4, <1>5, <1>8, PlusInc DEF d
<1>9. CASE t = 4
  BY <1>1, <1>2, <1>3, <1>4, <1>5, <1>9, PlusInc DEF d
<1>10. QED
  BY <1>6, <1>7, <1>8, <1>9

\* Counters at most one apart, without a wrap, satisfy the report's check.
LEMMA InStepNoAlarm ==
    ASSUME NEW c \in [0 .. 4 -> Word], NEW v \in Word,
           \A i \in 0 .. 4 : c[i] \in {v, Inc(v)},
           \A i \in 0 .. 4 : c[i] >= 1 /\ 5 * c[i] <= MaxWord
    PROVE  ~Alarm(c)
<1>1. /\ c[0] \in Nat /\ c[1] \in Nat /\ c[2] \in Nat /\ c[3] \in Nat /\ c[4] \in Nat
      /\ MaxWord \in Nat
  BY MaxWordAssumption DEF Word
<1>2. PICK w \in Nat : /\ w >= 1 /\ 5 * w <= MaxWord
                       /\ \A i \in 0 .. 4 : c[i] = w \/ c[i] = w - 1
                       /\ \A i \in 0 .. 4 : c[i] >= 1
  <2>1. CASE \E i \in 0 .. 4 : c[i] = Inc(v) /\ v # MaxWord
    <3>1. Inc(v) = v + 1 /\ v \in Nat
      BY <2>1, MaxWordAssumption DEF Inc, Word
    <3>2. \A i \in 0 .. 4 : c[i] = v + 1 \/ c[i] = (v + 1) - 1
      BY <3>1
    <3>3. v + 1 \in Nat /\ v + 1 >= 1 /\ 5 * (v + 1) <= MaxWord
      BY <2>1, <3>1
    <3>4. QED
      BY <3>2, <3>3
  <2>2. CASE \A i \in 0 .. 4 : c[i] = v
    <3>1. v \in Nat /\ v >= 1 /\ 5 * v <= MaxWord
      BY <1>1, <2>2
    <3>2. QED
      BY <2>2, <3>1
  <2>3. CASE v = MaxWord
    <3>1. Inc(v) = 0
      BY <2>3 DEF Inc
    <3>2. \A i \in 0 .. 4 : c[i] = v
      BY <3>1
    <3>3. QED
      BY <2>2, <3>2
  <2>4. QED
    BY <2>1, <2>2, <2>3
<1>3. Total(c) = c[0] + c[1] + c[2] + c[3] + c[4]
  BY <1>1, <1>2 DEF Total, Plus
<1>4. /\ Total(c) \in Nat /\ Total(c) >= 5
      /\ Total(c) <= 5 * w /\ Total(c) >= 5 * (w - 1)
  BY <1>1, <1>2, <1>3
<1>5. Average(c) \in Nat /\ Average(c) >= 1 /\ (Average(c) = w \/ Average(c) = w - 1)
  BY <1>2, <1>4 DEF Average
<1>6. Minus(Average(c), 1) = Average(c) - 1
  BY <1>5 DEF Minus
<1>7. Plus(Average(c), 1) = Average(c) + 1
  BY <1>1, <1>2, <1>5, MaxWordAssumption DEF Plus
<1>8. QED
  BY <1>1, <1>2, <1>5, <1>6, <1>7 DEF Alarm

-----------------------------------------------------------------------------
(* Benchmarks without two ready tasks on one level, for any set of tasks   *)
(* and of levels: a list has at most its one ready task.                   *)

KernelTypes(tasks, levels) ==
    /\ state \in [tasks -> State]
    /\ level \in [tasks -> levels]
    /\ ready \in [levels -> Seq(tasks)]

AloneIn(tasks, levels) ==
    /\ KernelTypes(tasks, levels)
    /\ \A t \in tasks : state[t] = "ready" => ready[level[t]] = <<t>>
    /\ \A l \in levels : ready[l] # << >> =>
          \E t \in tasks : state[t] = "ready" /\ level[t] = l

\* The running task leaves its list.
LEMMA LeaveAloneIn ==
    ASSUME NEW tasks, NEW levels, AloneIn(tasks, levels),
           NEW t \in tasks, state[t] = "ready",
           NEW s \in State \ {"ready"}, state' = [state EXCEPT ![t] = s],
           ready' = [ready EXCEPT ![level[t]] = Tail(@)], level' = level
    PROVE  AloneIn(tasks, levels)'
<1>1. /\ level[t] \in levels /\ ready[level[t]] = <<t>>
      /\ Tail(<<t>>) = << >> /\ << >> \in Seq(tasks)
  BY DEF AloneIn, KernelTypes
<1>2. ready' = [ready EXCEPT ![level[t]] = << >>]
  BY <1>1
<1>3. KernelTypes(tasks, levels)'
  BY <1>1, <1>2 DEF AloneIn, KernelTypes
<1>4. ASSUME NEW u \in tasks, state'[u] = "ready" PROVE ready'[level'[u]] = <<u>>
  <2>1. u # t /\ state[u] = "ready" /\ ready[level[u]] = <<u>> /\ level[u] \in levels
    BY <1>4 DEF AloneIn, KernelTypes
  <2>2. <<u>> # <<t>>
    BY <2>1
  <2>3. level[u] # level[t]
    BY <1>1, <2>1, <2>2
  <2>4. QED
    BY <1>2, <2>1, <2>3 DEF AloneIn, KernelTypes
<1>5. ASSUME NEW l \in levels, ready'[l] # << >>
      PROVE  \E u \in tasks : state'[u] = "ready" /\ level'[u] = l
  <2>1. l # level[t] /\ ready[l] # << >>
    BY <1>1, <1>2, <1>5 DEF AloneIn, KernelTypes
  <2>2. PICK u \in tasks : state[u] = "ready" /\ level[u] = l
    BY <2>1 DEF AloneIn
  <2>3. u # t
    BY <2>1, <2>2
  <2>4. QED
    BY <2>2, <2>3 DEF AloneIn, KernelTypes
<1>6. QED
  BY <1>3, <1>4, <1>5 DEF AloneIn

\* A task becomes ready on a level without ready tasks.
LEMMA JoinAloneIn ==
    ASSUME NEW tasks, NEW levels, AloneIn(tasks, levels),
           NEW t \in tasks, state[t] # "ready", NEW l \in levels,
           \A u \in tasks : state[u] = "ready" => level[u] # l,
           state' = [state EXCEPT ![t] = "ready"], level' = [level EXCEPT ![t] = l],
           ready' = [ready EXCEPT ![l] = Append(@, t)]
    PROVE  AloneIn(tasks, levels)'
<1>1. ready[l] = << >> /\ Append(<< >>, t) = <<t>> /\ <<t>> \in Seq(tasks) /\ <<t>> # << >>
  BY DEF AloneIn, KernelTypes
<1>2. ready' = [ready EXCEPT ![l] = <<t>>]
  BY <1>1
<1>3. KernelTypes(tasks, levels)'
  BY <1>1, <1>2 DEF AloneIn, KernelTypes, State
<1>4. ASSUME NEW u \in tasks, state'[u] = "ready" PROVE ready'[level'[u]] = <<u>>
  BY <1>2, <1>4 DEF AloneIn, KernelTypes
<1>5. ASSUME NEW k \in levels, ready'[k] # << >>
      PROVE  \E u \in tasks : state'[u] = "ready" /\ level'[u] = k
  <2>1. CASE k = l
    BY <2>1 DEF AloneIn, KernelTypes
  <2>2. CASE k # l
    <3>1. ready[k] # << >>
      BY <1>2, <1>5, <2>2 DEF AloneIn, KernelTypes
    <3>2. PICK u \in tasks : state[u] = "ready" /\ level[u] = k
      BY <3>1 DEF AloneIn
    <3>3. QED
      BY <3>2 DEF AloneIn, KernelTypes
  <2>3. QED
    BY <2>1, <2>2
<1>6. QED
  BY <1>3, <1>4, <1>5 DEF AloneIn

LEMMA SameAloneIn ==
    ASSUME NEW tasks, NEW levels, AloneIn(tasks, levels), UNCHANGED kernel
    PROVE  AloneIn(tasks, levels)'
  BY DEF AloneIn, KernelTypes, kernel

\* It is woken on its own level.
LEMMA WakeAloneIn ==
    ASSUME NEW tasks, NEW levels, AloneIn(tasks, levels),
           NEW t \in tasks, state[t] # "ready",
           \A u \in tasks : state[u] = "ready" => level[u] # level[t],
           state' = [state EXCEPT ![t] = "ready"], level' = level,
           ready' = [ready EXCEPT ![level[t]] = Append(@, t)]
    PROVE  AloneIn(tasks, levels)'
<1>1. level[t] \in levels
  BY DEF AloneIn, KernelTypes
<1>2. ready[level[t]] = << >>
  BY <1>1 DEF AloneIn
<1>3. Append(<< >>, t) = <<t>> /\ <<t>> \in Seq(tasks) /\ <<t>> # << >>
  OBVIOUS
<1>4. ready' = [ready EXCEPT ![level[t]] = <<t>>]
  BY <1>2, <1>3
<1>5. KernelTypes(tasks, levels)'
  BY <1>1, <1>3, <1>4 DEF AloneIn, KernelTypes, State
<1>6. ASSUME NEW u \in tasks, state'[u] = "ready" PROVE ready'[level'[u]] = <<u>>
  BY <1>1, <1>4, <1>6 DEF AloneIn, KernelTypes
<1>7. ASSUME NEW k \in levels, ready'[k] # << >>
      PROVE  \E u \in tasks : state'[u] = "ready" /\ level'[u] = k
  <2>1. CASE k = level[t]
    BY <2>1 DEF AloneIn, KernelTypes
  <2>2. CASE k # level[t]
    <3>1. ready[k] # << >>
      BY <1>1, <1>4, <1>7, <2>2 DEF AloneIn, KernelTypes
    <3>2. PICK u \in tasks : state[u] = "ready" /\ level[u] = k
      BY <3>1 DEF AloneIn
    <3>3. QED
      BY <3>2 DEF AloneIn, KernelTypes
  <2>3. QED
    BY <2>1, <2>2
<1>8. QED
  BY <1>5, <1>6, <1>7 DEF AloneIn

\* A task is created and not started.
LEMMA SuspendAloneIn ==
    ASSUME NEW tasks, NEW levels, AloneIn(tasks, levels),
           NEW t \in tasks, state[t] # "ready", NEW s \in State \ {"ready"}, NEW l \in levels,
           state' = [state EXCEPT ![t] = s], level' = [level EXCEPT ![t] = l],
           ready' = ready
    PROVE  AloneIn(tasks, levels)'
<1>1. KernelTypes(tasks, levels)'
  BY DEF AloneIn, KernelTypes
<1>2. \A u \in tasks : (state'[u] = "ready" <=> state[u] = "ready")
                       /\ (state[u] = "ready" => level'[u] = level[u])
  BY DEF AloneIn, KernelTypes
<1>3. QED
  BY <1>1, <1>2 DEF AloneIn

\* The started kernel, whose only task is main.
LEMMA StartAloneIn ==
    ASSUME NEW tasks, NEW levels, NEW main \in tasks, NEW l \in levels, 0 \in levels,
           state = [t \in tasks |-> IF t = main THEN "ready" ELSE "absent"],
           level = [t \in tasks |-> IF t = main THEN l ELSE 0],
           ready = [k \in levels |-> IF k = l THEN <<main>> ELSE << >>]
    PROVE  AloneIn(tasks, levels)
<1>1. <<main>> \in Seq(tasks) /\ << >> \in Seq(tasks)
  OBVIOUS
<1>2. KernelTypes(tasks, levels)
  BY <1>1 DEF KernelTypes, State
<1>3. QED
  BY <1>2 DEF AloneIn

\* Each task stays on a level of its own, on which it is created.
FixedLevels(tasks, levels, own) ==
    /\ AloneIn(tasks, levels)
    /\ own \in [tasks -> levels] /\ \A t, u \in tasks : t # u => own[t] # own[u]
    /\ \A t \in tasks : level[t] = IF state[t] = "absent" THEN 0 ELSE own[t]

LEMMA FixedTypes ==
    ASSUME NEW tasks, NEW levels, NEW own, FixedLevels(tasks, levels, own)
    PROVE  /\ AloneIn(tasks, levels) /\ KernelTypes(tasks, levels)
           /\ state \in [tasks -> State] /\ level \in [tasks -> levels]
           /\ own \in [tasks -> levels]
           /\ \A t \in tasks : state[t] = "ready" =>
                 level[t] = own[t] /\ ready[own[t]] = <<t>> /\ ready[own[t]] # << >>
<1>1. AloneIn(tasks, levels) /\ own \in [tasks -> levels]
  BY DEF FixedLevels
<1>2. KernelTypes(tasks, levels) /\ state \in [tasks -> State] /\ level \in [tasks -> levels]
  BY <1>1 DEF AloneIn, KernelTypes
<1>3. ASSUME NEW t \in tasks, state[t] = "ready"
      PROVE  level[t] = own[t] /\ ready[own[t]] = <<t>> /\ ready[own[t]] # << >>
  <2>1. level[t] = own[t]
    BY <1>3 DEF FixedLevels
  <2>2. ready[own[t]] = <<t>> /\ <<t>> # << >>
    BY <1>1, <1>3, <2>1 DEF AloneIn
  <2>3. QED
    BY <2>1, <2>2
<1>4. QED
  BY <1>1, <1>2, <1>3

LEMMA FixedLeaves ==
    ASSUME NEW tasks, NEW levels, NEW own, FixedLevels(tasks, levels, own),
           NEW t \in tasks, state[t] = "ready", NEW s \in {"asleep", "blocked"},
           state' = [state EXCEPT ![t] = s], level' = level,
           ready' = [ready EXCEPT ![level[t]] = Tail(@)]
    PROVE  FixedLevels(tasks, levels, own)'
<1>1. AloneIn(tasks, levels) /\ state \in [tasks -> State] /\ s \in State \ {"ready"}
  BY FixedTypes DEF State
<1>2. AloneIn(tasks, levels)'
  BY <1>1, LeaveAloneIn
<1>3. \A u \in tasks : (state'[u] = "absent" <=> state[u] = "absent")
  BY <1>1
<1>4. QED
  BY <1>2, <1>3 DEF FixedLevels

LEMMA FixedWakes ==
    ASSUME NEW tasks, NEW levels, NEW own, FixedLevels(tasks, levels, own),
           NEW t \in tasks, state[t] # "absent", state[t] # "ready",
           state' = [state EXCEPT ![t] = "ready"], level' = level,
           ready' = [ready EXCEPT ![level[t]] = Append(@, t)]
    PROVE  FixedLevels(tasks, levels, own)'
<1>1. /\ AloneIn(tasks, levels) /\ state \in [tasks -> State]
      /\ \A u \in tasks : state[u] = "ready" => level[u] # level[t]
  BY FixedTypes DEF FixedLevels
<1>2. AloneIn(tasks, levels)'
  BY <1>1, WakeAloneIn
<1>3. QED
  BY <1>1, <1>2 DEF FixedLevels

\* Created and started at once.
LEMMA FixedAddReady ==
    ASSUME NEW tasks, NEW levels, NEW own, FixedLevels(tasks, levels, own),
           NEW t \in tasks, state[t] # "ready", NEW l, l = own[t],
           state' = [state EXCEPT ![t] = "ready"], level' = [level EXCEPT ![t] = l],
           ready' = [ready EXCEPT ![l] = Append(@, t)]
    PROVE  FixedLevels(tasks, levels, own)'
<1>1. AloneIn(tasks, levels) /\ l \in levels
  BY FixedTypes
<1>2. \A u \in tasks : state[u] = "ready" => level[u] # l
  BY FixedTypes DEF FixedLevels
<1>3. AloneIn(tasks, levels)'
  BY <1>1, <1>2, JoinAloneIn
<1>4. state \in [tasks -> State] /\ level \in [tasks -> levels]
  BY FixedTypes
<1>5. QED
  BY <1>3, <1>4 DEF FixedLevels

\* Created only.
LEMMA FixedAddSuspended ==
    ASSUME NEW tasks, NEW levels, NEW own, FixedLevels(tasks, levels, own),
           NEW t \in tasks, state[t] # "ready", NEW l, l = own[t],
           state' = [state EXCEPT ![t] = "suspended"], level' = [level EXCEPT ![t] = l],
           ready' = ready
    PROVE  FixedLevels(tasks, levels, own)'
<1>1. /\ AloneIn(tasks, levels) /\ state \in [tasks -> State] /\ level \in [tasks -> levels]
  BY FixedTypes
<1>2. l \in levels /\ "suspended" \in State \ {"ready"}
  BY FixedTypes DEF State
<1>3. AloneIn(tasks, levels)'
  BY <1>1, <1>2, SuspendAloneIn
<1>4. QED
  BY <1>1, <1>3 DEF FixedLevels

LEMMA FixedStays ==
    ASSUME NEW tasks, NEW levels, NEW own, FixedLevels(tasks, levels, own),
           UNCHANGED <<state, level, ready>>
    PROVE  FixedLevels(tasks, levels, own)'
<1>1. AloneIn(tasks, levels)'
  BY FixedTypes, SameAloneIn DEF kernel
<1>2. QED
  BY <1>1 DEF FixedLevels

LEMMA FixedStarts ==
    ASSUME NEW tasks, NEW levels, NEW own \in [tasks -> levels], NEW main \in tasks,
           0 \in levels, \A t, u \in tasks : t # u => own[t] # own[u],
           state = [t \in tasks |-> IF t = main THEN "ready" ELSE "absent"],
           level = [t \in tasks |-> IF t = main THEN own[main] ELSE 0],
           ready = [k \in levels |-> IF k = own[main] THEN <<main>> ELSE << >>]
    PROVE  FixedLevels(tasks, levels, own)
<1>1. AloneIn(tasks, levels)
  BY StartAloneIn
<1>2. QED
  BY <1>1 DEF FixedLevels
=============================================================================
