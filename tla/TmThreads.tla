----------------------------- MODULE TmThreads ------------------------------
(***************************************************************************)
(* The start-up of the suite and the thread services of the porting layers *)
(* (main*.c, tm_porting_layer_{freertos,threadx,zephyr}.c).  A service     *)
(* tm_* of tm_api.h is the one of the port the suite is built for; where   *)
(* the ports do the same there is one definition.                          *)
(*                                                                         *)
(* A benchmark extends this module, declares its own state, and conjoins   *)
(* the services it calls with Runs(self).                                  *)
(***************************************************************************)
EXTENDS Kernel

\* MAIN_TASK_PRI is 30 in FreeRTOS's numbering and 1 in the other two.
rtos_main_freertos == StartedWith(30)
rtos_main_threadx == StartedWith(1)

\* Mutant: the main task is less urgent than the threads it creates.
MainLessUrgent == StartedWith(11)

rtos_main_zephyr == StartedWith(1)

\* main, by the port that rtos_config.h defines.
KernelInit ==
    CASE Port = "FreeRTOS" -> rtos_main_freertos
      [] Port = "ThreadX" -> rtos_main_threadx
      [] Port = "Zephyr" -> rtos_main_zephyr

\* A main task that comes back from its benchmark is deleted or aborted.
Return(self) == Block(self, "done")

-----------------------------------------------------------------------------

\* The priority is mirrored, asserted, and the task starts at once.
freertos_thread_create(t, priority) ==
    LET new_priority == MaxPriorities - priority + 1
    IN  /\ new_priority <= MaxPriorities - 1
        /\ AddReady(t, new_priority)

\* Mutant: TX_AUTO_START instead of TX_DONT_START.
ThreadXAutoStart(t, priority) == AddReady(t, priority)

\* TX_DONT_START; the preemption threshold is the priority.
threadx_thread_create(t, priority) == AddSuspended(t, priority)

\* K_FOREVER, then suspended, then woken from the sleep before the start.
zephyr_thread_create(t, priority) == AddSuspended(t, priority)

tm_thread_create(t, priority) ==
    CASE Port = "FreeRTOS" -> freertos_thread_create(t, priority)
      [] Port = "ThreadX" -> threadx_thread_create(t, priority)
      [] Port = "Zephyr" -> zephyr_thread_create(t, priority)

\* Resuming a task that is not suspended is refused or ignored by the kernel.
tm_thread_resume(t) ==
    IF state[t] = "suspended" THEN MakeReady(t) ELSE UNCHANGED kernel

\* Every caller in the suite suspends itself.
tm_thread_suspend(self) == Block(self, "suspended")

\* Mutant: the caller stays at the head of its list.
RelinquishIgnored(self) == UNCHANGED kernel

\* Mutant: the caller goes behind the next task only.
RelinquishToOne(self) ==
    LET l == level[self]
        q == ready[l]
    IN  /\ ready' = IF Len(q) = 1 THEN ready
                    ELSE [ready EXCEPT ![l] = <<q[2], self>> \o SubSeq(q, 3, Len(q))]
        /\ UNCHANGED <<state, level>>

tm_thread_relinquish(self) ==
    /\ ready' = [ready EXCEPT ![level[self]] = Append(Tail(@), self)]
    /\ UNCHANGED <<state, level>>

tm_thread_sleep(self) == Block(self, "asleep")

\* FreeRTOS deletes the task, the other two only suspend it.
freertos_thread_exit(self) == Block(self, "done")

tm_thread_exit(self) ==
    IF Port = "FreeRTOS" THEN freertos_thread_exit(self)
    ELSE tm_thread_suspend(self)
=============================================================================
