------------------------------- MODULE Kernel -------------------------------
(***************************************************************************)
(* The kernels under the porting layers, as the layers use them on one     *)
(* processor.  Each keeps, per priority level, a FIFO list of its ready    *)
(* tasks, and the processor always belongs to the head of the most urgent  *)
(* list that is not empty.  A call that makes a more urgent task ready     *)
(* therefore loses the processor inside the call.                          *)
(***************************************************************************)
EXTENDS Integers, Sequences

CONSTANTS
    Port,           \* the kernel the suite is built for
    MaxPriorities,  \* configMAX_PRIORITIES: levels 0 .. MaxPriorities - 1
    Thread,         \* the thread ids the benchmark uses
    Main            \* the task that runs tm_main_*

ASSUME PortAssumption == Port \in {"FreeRTOS", "ThreadX", "Zephyr"}
ASSUME MaxPrioritiesAssumption == MaxPriorities \in Nat /\ MaxPriorities > 31
ASSUME ThreadAssumption == Thread \subseteq 0 .. 9   \* TM_*_THREADS is 10
ASSUME MainAssumption == Main \notin Thread

VARIABLES
    state,  \* state[t]: what the kernel does with task t
    level,  \* level[t]: its priority in the kernel's own numbering
    ready   \* ready[l]: the ready tasks of level l, head first

kernel == <<state, level, ready>>

Task == Thread \cup {Main}
Level == 0 .. MaxPriorities
\* "blocked" waits for a semaphore, mutex, queue or signal; "done" has ended.
State == {"absent", "suspended", "asleep", "ready", "blocked", "done"}

KernelTypeOK ==
    /\ state \in [Task -> State]
    /\ level \in [Task -> Level]
    /\ ready \in [Level -> Seq(Task)]

\* FreeRTOS numbers its priorities upwards, the other two downwards.
MoreUrgent(a, b) == IF Port = "FreeRTOS" THEN a > b ELSE a < b

\* The started kernel, whose only task is the main task on level l.
StartedWith(l) ==
    /\ state = [t \in Task |-> IF t = Main THEN "ready" ELSE "absent"]
    /\ level = [t \in Task |-> IF t = Main THEN l ELSE 0]
    /\ ready = [k \in Level |-> IF k = l THEN <<Main>> ELSE <<>>]

\* Task t owns the processor.
Runs(t) ==
    /\ state[t] = "ready"
    /\ Head(ready[level[t]]) = t
    /\ \A l \in Level : MoreUrgent(l, level[t]) => ready[l] = <<>>

AddSuspended(t, l) ==
    /\ state[t] = "absent"
    /\ state' = [state EXCEPT ![t] = "suspended"]
    /\ level' = [level EXCEPT ![t] = l]
    /\ UNCHANGED ready

AddReady(t, l) ==
    /\ state[t] = "absent"
    /\ state' = [state EXCEPT ![t] = "ready"]
    /\ level' = [level EXCEPT ![t] = l]
    /\ ready' = [ready EXCEPT ![l] = Append(@, t)]

MakeReady(t) ==
    /\ state' = [state EXCEPT ![t] = "ready"]
    /\ ready' = [ready EXCEPT ![level[t]] = Append(@, t)]
    /\ UNCHANGED level

\* The running task t leaves the processor and waits in state s.
Block(t, s) ==
    /\ state' = [state EXCEPT ![t] = s]
    /\ ready' = [ready EXCEPT ![level[t]] = Tail(@)]
    /\ UNCHANGED level

\* The running task t gets the level l, behind the tasks that are ready there.
ChangeLevel(t, l) ==
    /\ level' = [level EXCEPT ![t] = l]
    /\ ready' = [ready EXCEPT ![level[t]] = Tail(@), ![l] = Append(@, t)]
    /\ UNCHANGED state

\* The tick interrupt ends the sleep of t; the sleeper joins its list last.
TickWakes(t) == state[t] = "asleep" /\ MakeReady(t)
=============================================================================
