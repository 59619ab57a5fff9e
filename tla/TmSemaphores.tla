---------------------------- MODULE TmSemaphores ----------------------------
(***************************************************************************)
(* The semaphore services of the porting layers.  They promise a binary    *)
(* semaphore that starts available; underneath are a FreeRTOS binary       *)
(* semaphore, a ThreadX counting semaphore and a Zephyr semaphore with     *)
(* limit 1, so they differ when a full semaphore is put.                   *)
(*                                                                         *)
(* A put with a waiter hands the semaphore to the waiter.  No semaphore of *)
(* the suite has two waiters, so the order of the waiters is left open.    *)
(***************************************************************************)
EXTENDS TmThreads

CONSTANTS
    Semaphore,  \* the semaphore ids the benchmark uses
    None        \* not a semaphore

ASSUME NoneAssumption == None \notin Semaphore

VARIABLES
    count,  \* count[s]: what can be taken from semaphore s
    wants   \* wants[t]: the semaphore task t is blocked on

semaphores == <<count, wants>>

SemaphoreTypeOK ==
    /\ count \in [Semaphore -> Nat]
    /\ wants \in [Task -> Semaphore \cup {None}]

SemaphoreInit ==
    /\ count = [s \in Semaphore |-> 0]
    /\ wants = [t \in Task |-> None]

Waiter(s) == {t \in Task : wants[t] = s}

\* The array the ids index has this many entries.
MaxSemaphores == IF Port = "FreeRTOS" THEN 2 ELSE 4

\* xSemaphoreCreateBinary and a put, count 1, or initial count 1: available.
tm_semaphore_create(s) ==
    /\ count' = [count EXCEPT ![s] = 1]
    /\ UNCHANGED wants

\* Mutant: the semaphore stays available.
GetWithoutTaking(s, ok) ==
    /\ ok = (count[s] > 0)
    /\ UNCHANGED semaphores

\* tm_semaphore_get does not wait; ok is whether it returned TM_SUCCESS.
tm_semaphore_get(s, ok) ==
    /\ ok = (count[s] > 0)
    /\ count' = IF ok THEN [count EXCEPT ![s] = @ - 1] ELSE count
    /\ UNCHANGED wants

tm_semaphore_wait(self, s) ==
    IF count[s] > 0
    THEN /\ count' = [count EXCEPT ![s] = @ - 1]
         /\ UNCHANGED <<kernel, wants>>
    ELSE /\ Block(self, "blocked")
         /\ wants' = [wants EXCEPT ![self] = s]
         /\ UNCHANGED count

\* Mutant: a put with a waiter only counts.
GiveWithoutWaking(s) ==
    /\ count' = [count EXCEPT ![s] = 1]
    /\ UNCHANGED <<kernel, wants>>

\* The waiter gets the semaphore; without one it is counted.
Give(s) ==
    IF Waiter(s) = {}
    THEN count' = [count EXCEPT ![s] = @ + 1] /\ UNCHANGED <<kernel, wants>>
    ELSE \E t \in Waiter(s) : /\ MakeReady(t)
                              /\ wants' = [wants EXCEPT ![t] = None]
                              /\ UNCHANGED count

\* A full binary semaphore is an error.
freertos_semaphore_put(s, ok) ==
    /\ ok = (count[s] = 0)
    /\ IF ok THEN Give(s) ELSE UNCHANGED <<kernel, semaphores>>

\* A counting semaphore is never full.
threadx_semaphore_put(s, ok) == ok = TRUE /\ Give(s)

\* A semaphore at its limit stays as it is, which is not an error.
zephyr_semaphore_put(s, ok) ==
    /\ ok = TRUE
    /\ IF count[s] = 0 THEN Give(s) ELSE UNCHANGED <<kernel, semaphores>>

tm_semaphore_put(s, ok) ==
    CASE Port = "FreeRTOS" -> freertos_semaphore_put(s, ok)
      [] Port = "ThreadX" -> threadx_semaphore_put(s, ok)
      [] Port = "Zephyr" -> zephyr_semaphore_put(s, ok)
=============================================================================
