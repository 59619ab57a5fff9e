------------------------------ MODULE RtosSync ------------------------------
(***************************************************************************)
(* The native synchronisation of the porting layers: init_rtos_sync,       *)
(* rtos_sync_wait and rtos_sync_signal.  FreeRTOS notifies the task whose  *)
(* handle the last wait left behind; ThreadX sets an event flag; Zephyr    *)
(* raises a poll signal, which the waiter resets by hand.                  *)
(***************************************************************************)
EXTENDS TmThreads

CONSTANT NoTask  \* the NULL handle, no task

VARIABLES
    signals,  \* notification value, event flag, or signaled
    handle,   \* tm_sync_task_handle
    pollers   \* the tasks blocked in rtos_sync_wait

sync == <<signals, handle, pollers>>

SyncTypeOK ==
    /\ signals \in Nat
    /\ handle \in Task \cup {NoTask}
    /\ pollers \subseteq Task

SyncInit == signals = 0 /\ handle = NoTask /\ pollers = {}

\* The handle is not touched.
freertos_init_rtos_sync == UNCHANGED signals
\* The flag is set "so that a waiting call doesn't block immediately".
threadx_init_rtos_sync == signals' = 1
zephyr_init_rtos_sync == signals' = 0

init_rtos_sync ==
    /\ CASE Port = "FreeRTOS" -> freertos_init_rtos_sync
         [] Port = "ThreadX" -> threadx_init_rtos_sync
         [] Port = "Zephyr" -> zephyr_init_rtos_sync
    /\ UNCHANGED <<handle, pollers>>

\* The caller goes on with the signals reset to left, or waits for one.
WaitLeaving(self, left) ==
    \/ /\ signals > 0
       /\ signals' = left
       /\ UNCHANGED <<kernel, pollers>>
    \/ /\ signals = 0
       /\ Block(self, "blocked")
       /\ pollers' = pollers \cup {self}
       /\ UNCHANGED signals

freertos_sync_wait(self) == handle' = self /\ WaitLeaving(self, signals)
\* TX_OR_CLEAR: the flag is cleared in the call.
threadx_sync_wait(self) == WaitLeaving(self, 0) /\ UNCHANGED handle
zephyr_sync_wait(self) == WaitLeaving(self, signals) /\ UNCHANGED handle

rtos_sync_wait(self) ==
    CASE Port = "FreeRTOS" -> freertos_sync_wait(self)
      [] Port = "ThreadX" -> threadx_sync_wait(self)
      [] Port = "Zephyr" -> zephyr_sync_wait(self)

\* Mutant: the signal is not reset, the next wait does not wait.
WaitEndsWithoutReset == UNCHANGED sync

\* The rest of the call, when the caller has the processor again.
rtos_sync_wait_end ==
    /\ signals' = IF Port = "ThreadX" THEN signals ELSE 0
    /\ UNCHANGED <<handle, pollers>>

\* Mutant: the waiting task is not woken.
WakeNobody == UNCHANGED <<kernel, pollers>>

Unblock(t) == MakeReady(t) /\ pollers' = pollers \ {t}

WakePoller ==
    \/ pollers = {} /\ UNCHANGED <<kernel, pollers>>
    \/ \E t \in pollers : Unblock(t)

\* The notification goes to the task of the handle, waiting or not; there is no
\* one to notify before the first wait.
freertos_sync_signal ==
    IF handle = NoTask THEN UNCHANGED <<kernel, signals, pollers>>
    ELSE /\ signals' = signals + 1
         /\ IF handle \in pollers THEN Unblock(handle)
            ELSE UNCHANGED <<kernel, pollers>>

\* The flag is cleared for the waiter it wakes.
threadx_sync_signal == signals' = (IF pollers = {} THEN 1 ELSE 0) /\ WakePoller

zephyr_sync_signal == signals' = 1 /\ WakePoller

rtos_sync_signal ==
    /\ CASE Port = "FreeRTOS" -> freertos_sync_signal
         [] Port = "ThreadX" -> threadx_sync_signal
         [] Port = "Zephyr" -> zephyr_sync_signal
    /\ UNCHANGED handle
=============================================================================
