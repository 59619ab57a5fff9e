----------------------------- MODULE TmMutexes ------------------------------
(***************************************************************************)
(* The mutex services of the porting layers and tm_task_priority_get.  All *)
(* three kernels inherit: the owner runs on the level of its most urgent   *)
(* waiter until it puts the mutex.  A put of ThreadX and Zephyr hands the  *)
(* mutex to the waiter, a put of FreeRTOS frees it and the waiter, once    *)
(* awake, takes it.  No mutex of the suite has two waiters.                *)
(***************************************************************************)
EXTENDS TmThreads

CONSTANTS
    Mutex,    \* the mutex ids the benchmark uses
    Nobody    \* not a task: Nobody \notin Task

VARIABLES
    owner,    \* owner[m]: the task that has mutex m, or Nobody
    waiter,   \* waiter[m]: the task that waits for it, or Nobody
    base      \* base[t]: the level task t was created with

mutexes == <<owner, waiter, base>>

MutexTypeOK ==
    /\ owner \in [Mutex -> Task \cup {Nobody}]
    /\ waiter \in [Mutex -> Task \cup {Nobody}]
    /\ base \in [Task -> Level]

MutexInit ==
    /\ owner = [m \in Mutex |-> Nobody]
    /\ waiter = [m \in Mutex |-> Nobody]
    /\ base = level

\* The array the ids index has this many entries.
MaxMutexes == IF Port = "FreeRTOS" THEN 2 ELSE 4

tm_mutex_create(m) ==
    /\ m \in 0 .. MaxMutexes - 1
    /\ owner' = [owner EXCEPT ![m] = Nobody]
    /\ UNCHANGED <<waiter, base>>

\* Mutant: a mutex without TX_INHERIT.
WaitWithoutInheriting(self, m) == Block(self, "blocked")

\* The list q without its task t.
Unlinked(q, t) ==
    LET k == CHOOSE n \in 1 .. Len(q) : q[n] = t
    IN  [n \in 1 .. Len(q) - 1 |-> IF n < k THEN q[n] ELSE q[n + 1]]

\* The waiting task and the owner it lends its level to, unless that has more.
Inherit(self, m) ==
    LET o == owner[m]
        l == IF MoreUrgent(level[self], level[o]) THEN level[self] ELSE level[o]
    IN  /\ level' = [level EXCEPT ![o] = l]
        /\ ready' = IF l = level[o]
                    THEN [ready EXCEPT ![level[self]] = Tail(@)]
                    ELSE [ready EXCEPT ![level[self]] = Tail(@),
                                       ![level[o]] = Unlinked(@, o),
                                       ![l] = Append(@, o)]
        /\ state' = [state EXCEPT ![self] = "blocked"]

\* The owner is always ready: the suite never waits with a mutex.
freertos_mutex_get(self, m, done) ==
    /\ done = (owner[m] = Nobody)
    /\ IF done
       THEN owner' = [owner EXCEPT ![m] = self] /\ UNCHANGED <<kernel, waiter, base>>
       ELSE /\ Inherit(self, m)
            /\ waiter' = [waiter EXCEPT ![m] = self]
            /\ UNCHANGED <<owner, base>>

\* The call of a woken waiter returns: it has the mutex already.
threadx_mutex_get(self, m, done) ==
    IF owner[m] = self THEN done = TRUE /\ UNCHANGED <<kernel, mutexes>>
    ELSE freertos_mutex_get(self, m, done)

\* done is whether the call has returned, with TM_SUCCESS.
tm_mutex_get(self, m, done) ==
    IF Port = "FreeRTOS" THEN freertos_mutex_get(self, m, done)
    ELSE threadx_mutex_get(self, m, done)

\* Mutant: the owner keeps the level it has inherited.
PutKeepsLevel(self, m) ==
    LET w == waiter[m]
    IN  /\ IF w = Nobody THEN UNCHANGED kernel ELSE MakeReady(w)
        /\ owner' = [owner EXCEPT ![m] = IF Port = "FreeRTOS" THEN Nobody ELSE w]
        /\ waiter' = [waiter EXCEPT ![m] = Nobody]
        /\ UNCHANGED base

\* The owner falls back to its own level, then the waiter becomes ready.
tm_mutex_put(self, m) ==
    LET w == waiter[m]
        fallen == IF level[self] = base[self] THEN ready
                  ELSE [ready EXCEPT ![level[self]] = Tail(@),
                                     ![base[self]] = Append(@, self)]
    IN  /\ level' = [level EXCEPT ![self] = base[self]]
        /\ IF w = Nobody
           THEN ready' = fallen /\ UNCHANGED state
           ELSE /\ ready' = [fallen EXCEPT ![level[w]] = Append(@, w)]
                /\ state' = [state EXCEPT ![w] = "ready"]
        /\ owner' = [owner EXCEPT ![m] = IF Port = "FreeRTOS" THEN Nobody ELSE w]
        /\ waiter' = [waiter EXCEPT ![m] = Nobody]
        /\ UNCHANGED base

-----------------------------------------------------------------------------

\* The inverse of the conversion in freertos_thread_create.
freertos_task_priority_get(t) == MaxPriorities - level[t] + 1

threadx_task_priority_get(t) == level[t]

tm_task_priority_get(t) ==
    IF Port = "FreeRTOS" THEN freertos_task_priority_get(t)
    ELSE threadx_task_priority_get(t)
=============================================================================
