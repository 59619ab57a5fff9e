----------------------------- MODULE Processing -----------------------------
(***************************************************************************)
(* The Thread-Metric benchmarks with one thread, which works against       *)
(* memory, a pool, its own queue or its own semaphore:                     *)
(* tm_basic_processing_test.c, tm_memory_allocation_test.c,                *)
(* tm_message_processing_test.c, tm_synchronization_processing_test.c.     *)
(* They are the same program but for the services they use.                *)
(*                                                                         *)
(* A message is its last word; the basic benchmark's array is left out.    *)
(***************************************************************************)
EXTENDS TmSemaphores, TmQueues, TmMemory, UnsignedLong

\* What the benchmark is built with.
Configuration ==
    /\ Thread = {0} /\ Semaphore = {0}
    /\ HeapBlocks \in Nat \ {0} /\ NoBlock \notin 1 .. MaxBlocks

VARIABLES
    test,         \* the benchmark
    calls,        \* calls of the initialisation made so far
    pc,           \* pc[t]: the statement task t executes next
    sent,         \* tm_message_sent[3]
    counter,      \* tm_*_counter
    last_counter  \* the report's own variable

objects == <<semaphores, queues, memory>>
vars == <<kernel, objects, test, calls, pc, sent, counter, last_counter>>

Label == {"initialize", "sleep", "report", "take", "give", "count", "break"}

Goto(t, label) == pc' = [pc EXCEPT ![t] = label]

\* The order of the calls in the four initialisations.
Calls ==
    [basic |-> <<"thread", "resume">>,
     memory |-> <<"pool", "thread", "resume">>,
     message |-> <<"thread", "resume", "queue">>,
     synchronization |-> <<"thread", "resume", "semaphore">>]

Init ==
    /\ KernelInit /\ SemaphoreInit /\ QueueInit /\ MemoryInit
    /\ test \in DOMAIN Calls
    /\ calls = 0
    /\ pc = [t \in Task |-> IF t = Main THEN "initialize" ELSE "take"]
    /\ sent = 0
    /\ counter = 0 /\ last_counter = 0

Initialized == calls = Len(Calls[test])

Initialize ==
    /\ Runs(Main) /\ pc[Main] = "initialize"
    /\ calls' = calls + 1
    /\ LET call == Calls[test][calls']
       IN  \/ call = "thread" /\ tm_thread_create(0, 10) /\ UNCHANGED objects
           \/ call = "resume" /\ tm_thread_resume(0) /\ UNCHANGED objects
           \/ call = "semaphore" /\ tm_semaphore_create(0)
              /\ UNCHANGED <<kernel, queues, memory>>
           \/ call = "queue" /\ tm_queue_create
              /\ UNCHANGED <<kernel, semaphores, memory>>
           \/ call = "pool" /\ tm_memory_pool_create
              /\ UNCHANGED <<kernel, semaphores, queues>>
    /\ Goto(Main, IF calls' = Len(Calls[test]) THEN "sleep" ELSE "initialize")
    /\ UNCHANGED <<test, sent, counter, last_counter>>

-----------------------------------------------------------------------------
(* tm_*_thread_0_entry.                                                    *)

At(label) == Runs(0) /\ pc[0] = label
Then(next) == Goto(0, next) /\ UNCHANGED <<test, calls, sent, counter, last_counter>>

\* Nobody looks at the status of the first service of a loop.
Allocate ==
    /\ test = "memory" /\ At("take")
    /\ \E ok \in BOOLEAN : tm_memory_pool_allocate(ok)
    /\ Then("give") /\ UNCHANGED <<kernel, semaphores, queues>>

Deallocate ==
    /\ test = "memory" /\ At("give")
    /\ \E ok \in BOOLEAN : /\ tm_memory_pool_deallocate(ok)
                           /\ Then(IF ok THEN "count" ELSE "break")
    /\ UNCHANGED <<kernel, semaphores, queues>>

Send ==
    /\ test = "message" /\ At("take")
    /\ \E done \in BOOLEAN : /\ tm_queue_send(0, sent, done)
                             /\ Then(IF done THEN "give" ELSE "take")
    /\ UNCHANGED <<semaphores, memory>>

Receive ==
    /\ test = "message" /\ At("give")
    /\ \E done \in BOOLEAN : /\ tm_queue_receive(0, done)
                             /\ Then(IF done THEN "count" ELSE "give")
    /\ UNCHANGED <<semaphores, memory>>

Get ==
    /\ test = "synchronization" /\ At("take")
    /\ \E ok \in BOOLEAN : tm_semaphore_get(0, ok)
    /\ Then("give") /\ UNCHANGED <<kernel, queues, memory>>

Put ==
    /\ test = "synchronization" /\ At("give")
    /\ \E ok \in BOOLEAN : /\ tm_semaphore_put(0, ok)
                           /\ Then(IF ok THEN "count" ELSE "break")
    /\ UNCHANGED <<queues, memory>>

\* One pass over the array.
Compute == test = "basic" /\ At("take") /\ Then("count") /\ UNCHANGED <<kernel, objects>>

\* A message that is not the one sent ends the loop.
Count ==
    /\ At("count")
    /\ IF test = "message" /\ buffer[0] # sent
       THEN Goto(0, "break") /\ UNCHANGED <<sent, counter>>
       ELSE /\ Goto(0, "take")
            /\ counter' = Inc(counter)
            /\ sent' = IF test = "message" THEN Inc(sent) ELSE sent
    /\ UNCHANGED <<kernel, objects, test, calls, last_counter>>

Break == At("break") /\ Return(0) /\ Then("break") /\ UNCHANGED objects

-----------------------------------------------------------------------------
(* tm_*_thread_report, in the main task.                                   *)

Sleep ==
    /\ Runs(Main) /\ pc[Main] = "sleep"
    /\ tm_thread_sleep(Main)
    /\ Goto(Main, "report")
    /\ UNCHANGED <<objects, test, calls, sent, counter, last_counter>>

Wake ==
    /\ TickWakes(Main)
    /\ UNCHANGED <<objects, test, calls, pc, sent, counter, last_counter>>

Report ==
    /\ Runs(Main) /\ pc[Main] = "report"
    /\ last_counter' = counter
    /\ Goto(Main, "sleep")
    /\ UNCHANGED <<kernel, objects, test, calls, sent, counter>>

-----------------------------------------------------------------------------

MainStep == Initialize \/ Sleep \/ Report
ThreadStep ==
    Allocate \/ Deallocate \/ Send \/ Receive \/ Get \/ Put \/ Compute \/ Count \/ Break

Next == MainStep \/ Wake \/ ThreadStep

\* The running task executes; the thread has TM_TEST_DURATION seconds.
Fairness == WF_vars(MainStep) /\ WF_vars(Wake) /\ SF_vars(ThreadStep)

Spec == Init /\ [][Next]_vars /\ Fairness

-----------------------------------------------------------------------------

TypeOK ==
    /\ KernelTypeOK /\ SemaphoreTypeOK /\ QueueTypeOK(Word) /\ MemoryTypeOK
    /\ calls \in 0 .. 3
    /\ pc \in [Task -> Label]
    /\ {sent, counter, last_counter} \subseteq Word

(***************************************************************************)
(* Two of the benchmarks resume the thread before they create the queue or *)
(* semaphore it uses (tm_message_processing_test.c:82-85,                  *)
(* tm_synchronization_processing_test.c:80-83), and FreeRTOS starts it     *)
(* even earlier: it gets the processor only when everything exists.        *)
(***************************************************************************)
CreatedInTime == Runs(0) => Initialized

(***************************************************************************)
(* What a turn takes it gives back, so that no status is ever bad: at the  *)
(* start of each turn the pool is complete, the semaphore available and    *)
(* the queue empty, and in between exactly one block, unit or message is   *)
(* with the thread.  A pool that lost blocks would go unnoticed, nobody    *)
(* looks at the status of the allocation (tm_memory_allocation_test.c:98). *)
(***************************************************************************)
Full ==
    CASE test = "basic" -> TRUE
      [] test = "memory" -> free = Pool
      [] test = "message" -> queue = <<>>
      [] test = "synchronization" -> count[0] = 1

OneOut ==
    CASE test = "basic" -> TRUE
      [] test = "memory" -> <<memory_ptr>> \o free = Pool
      [] test = "message" -> queue = <<sent>>
      [] test = "synchronization" -> count[0] = 0

TurnsBalance ==
    /\ pc[0] # "break"
    /\ Initialized => IF pc[0] = "give" THEN OneOut ELSE Full
    /\ pc[0] = "count" /\ test = "message" => buffer[0] = sent
=============================================================================
