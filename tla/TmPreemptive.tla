---------------------------- MODULE TmPreemptive ----------------------------
(***************************************************************************)
(* The preemptive scheduling benchmark, tm_preemptive_scheduling_test.c,   *)
(* on the thread services of a porting layer.                              *)
(*                                                                         *)
(* Threads 0 .. 4 have rising urgency.  Each one resumes the next, counts  *)
(* when it gets the processor back and suspends itself; thread 0 never     *)
(* suspends.  The main task creates them, resumes thread 0 and then sleeps *)
(* and reports for ever.                                                   *)
(***************************************************************************)
EXTENDS TmThreads, TmReport

ASSUME FiveThreads == Thread = 0 .. 4

VARIABLES
    pc,          \* pc[t]: the statement task t executes next
    counter,     \* tm_preemptive_thread_<t>_counter
    last_total,  \* the report's own variable
    alarm        \* the last report printed its ERROR line

vars == <<kernel, pc, counter, last_total, alarm>>

Label == {"create", "resume", "sleep", "report", "count", "suspend"}

FirstLabel(t) == IF t = Main THEN "create" ELSE IF t = 4 THEN "count" ELSE "resume"

Goto(t, label) == pc' = [pc EXCEPT ![t] = label]

Init ==
    /\ KernelInit
    /\ pc = [t \in Task |-> FirstLabel(t)]
    /\ counter = [t \in Thread |-> 0]
    /\ last_total = 0
    /\ alarm = FALSE

-----------------------------------------------------------------------------
(* tm_preemptive_scheduling_initialize, in the main task.                  *)

\* Mutant: the five threads are created with the same priority.
CreateAllEqual(t) ==
    /\ Runs(Main) /\ pc[Main] = "create"
    /\ \A u \in Thread : state[u] = "absent" <=> u >= t
    /\ tm_thread_create(t, 10)
    /\ Goto(Main, IF t = 4 THEN "resume" ELSE "create")
    /\ UNCHANGED <<counter, last_total, alarm>>

Create(t) ==
    /\ Runs(Main) /\ pc[Main] = "create"
    /\ \A u \in Thread : state[u] = "absent" <=> u >= t
    /\ tm_thread_create(t, 10 - t)
    /\ Goto(Main, IF t = 4 THEN "resume" ELSE "create")
    /\ UNCHANGED <<counter, last_total, alarm>>

ResumeFirst ==
    /\ Runs(Main) /\ pc[Main] = "resume"
    /\ tm_thread_resume(0)
    /\ Goto(Main, "sleep")
    /\ UNCHANGED <<counter, last_total, alarm>>

-----------------------------------------------------------------------------
(* tm_preemptive_thread_report, in the main task.                          *)

Sleep ==
    /\ Runs(Main) /\ pc[Main] = "sleep"
    /\ tm_thread_sleep(Main)
    /\ Goto(Main, "report")
    /\ UNCHANGED <<counter, last_total, alarm>>

Wake == TickWakes(Main) /\ UNCHANGED <<pc, counter, last_total, alarm>>

Report ==
    /\ Runs(Main) /\ pc[Main] = "report"
    /\ alarm' = Alarm(counter)
    /\ last_total' = Total(counter)
    /\ Goto(Main, "sleep")
    /\ UNCHANGED <<kernel, counter>>

-----------------------------------------------------------------------------
(* tm_preemptive_thread_<t>_entry.                                         *)

\* Mutant: the thread counts without resuming the next one.
ResumeForgotten(t) ==
    /\ Runs(t) /\ pc[t] = "resume"
    /\ Goto(t, "count")
    /\ UNCHANGED <<kernel, counter, last_total, alarm>>

ResumeNext(t) ==
    /\ Runs(t) /\ pc[t] = "resume"
    /\ tm_thread_resume(t + 1)
    /\ Goto(t, "count")
    /\ UNCHANGED <<counter, last_total, alarm>>

Count(t) ==
    /\ Runs(t) /\ pc[t] = "count"
    /\ counter' = [counter EXCEPT ![t] = Inc(@)]
    /\ Goto(t, IF t = 0 THEN "resume" ELSE "suspend")
    /\ UNCHANGED <<kernel, last_total, alarm>>

Suspend(t) ==
    /\ Runs(t) /\ pc[t] = "suspend"
    /\ tm_thread_suspend(t)
    /\ Goto(t, FirstLabel(t))
    /\ UNCHANGED <<counter, last_total, alarm>>

-----------------------------------------------------------------------------

MainStep == (\E t \in Thread : Create(t)) \/ ResumeFirst \/ Sleep \/ Report

ThreadStep == \E t \in Thread : ResumeNext(t) \/ Count(t) \/ Suspend(t)

Next == MainStep \/ Wake \/ ThreadStep

(***************************************************************************)
(* The processor always executes the running task, and the tick goes on.   *)
(* The main task sleeps TM_TEST_DURATION seconds between two reports, so   *)
(* whenever the threads get the processor again and again they do run:     *)
(* strong fairness, because the report takes the processor away from them. *)
(***************************************************************************)
Fairness == WF_vars(MainStep) /\ WF_vars(Wake) /\ SF_vars(ThreadStep)

Spec == Init /\ [][Next]_vars /\ Fairness

-----------------------------------------------------------------------------

TypeOK ==
    /\ KernelTypeOK
    /\ pc \in [Task -> Label]
    /\ counter \in [Thread -> Word]
    /\ last_total \in Word
    /\ alarm \in BOOLEAN

(***************************************************************************)
(* "We won't get back here until threads 1, 2, 3, and 4 all execute and    *)
(* self-suspend" (lines 117-120, 140-143, 166-169, 192-195): when thread t *)
(* counts, every more urgent thread is suspended and one round ahead, that *)
(* is, it has run exactly once since t last counted.                       *)
(***************************************************************************)
ChildrenRanOnce(t) ==
    \A u \in Thread : u > t => /\ state[u] = "suspended"
                               /\ counter[u] = Inc(counter[t])

BackAfterChildren ==
    [][\A t \in Thread : counter'[t] # counter[t] => ChildrenRanOnce(t)]_vars

(***************************************************************************)
(* "Preemptive counters should not be more that 1 different than the       *)
(* average" (line 265): as long as the total fits the word and every       *)
(* thread has counted, the check of the report never prints its ERROR      *)
(* line, whenever the tick lets the main task in.                          *)
(***************************************************************************)
NoFalseAlarm ==
    (\A t \in Thread : counter[t] >= 1 /\ 5 * counter[t] <= MaxWord)
        => ~Alarm(counter)

\* The benchmark counts in rounds, the most urgent thread first.
RoundsSpec == INSTANCE Rounds WITH Slot <- [t \in Thread |-> 4 - t]

(***************************************************************************)
(* The benchmark implements Rounds: however the tick interrupt and the     *)
(* report interleave with the threads, the counters advance exactly as     *)
(* complete rounds.                                                        *)
(***************************************************************************)
CountsInRounds == RoundsSpec!Spec
=============================================================================
