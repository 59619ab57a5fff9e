---------------------------- MODULE MessageTask -----------------------------
(***************************************************************************)
(* The thread to thread message benchmark, message_task_test.c: three      *)
(* producers and three consumers of one priority on one queue, and a more  *)
(* urgent reporter.  FreeRTOS is left out, its assertion stops the         *)
(* benchmark when it creates the reporter with priority 1.                 *)
(*                                                                         *)
(* A message is its producer and its number; the pattern and the checksum  *)
(* follow from these.                                                      *)
(***************************************************************************)
EXTENDS TmQueues, UnsignedLong, FiniteSets

\* What the benchmark is built with.
Configuration == Port \in {"ThreadX", "Zephyr"} /\ Thread = 0 .. 6

Producer == 0 .. 2
Consumer == 3 .. 5
Reporter == 6  \* REPORTING_THREAD_ID

VARIABLES
    calls,                   \* calls of the initialisation made so far
    pc,                      \* pc[t]: the statement task t executes next
    local_counter,           \* local_counter[p]: of producer p
    total_sent_counter,
    total_received_counter,
    last_total,              \* the reporter's last_total_sent and _received
    open                     \* history: the messages sent and not yet checked

totals == <<total_sent_counter, total_received_counter>>
vars == <<kernel, queues, calls, pc, local_counter, totals, last_total, open>>

Label == {"initialize", "send", "sent", "receive", "check", "sleep", "report"}

Goto(t, label) == pc' = [pc EXCEPT ![t] = label]

Init ==
    /\ KernelInit
    /\ QueueInit
    /\ calls = 0
    /\ pc = [t \in Task |-> CASE t = Main -> "initialize"
                              [] t \in Producer -> "send"
                              [] t \in Consumer -> "receive"
                              [] t = Reporter -> "sleep"]
    /\ local_counter = [p \in Producer |-> 0]
    /\ total_sent_counter = 0 /\ total_received_counter = 0
    /\ last_total = [sent |-> 0, received |-> 0]
    /\ open = {}

(***************************************************************************)
(* message_queue_test_initialize: the queue, then a create and a resume of *)
(* every thread; the main task ends after it.                              *)
(***************************************************************************)
Initialize ==
    /\ Runs(Main)
    /\ calls' = calls + 1
    /\ \/ calls = 0 /\ tm_queue_create /\ UNCHANGED kernel
       \/ \E t \in Thread : /\ calls = 2 * t + 1
                            /\ tm_thread_create(t, IF t = Reporter THEN 1 ELSE 5)
       \/ \E t \in Thread : calls = 2 * t + 2 /\ tm_thread_resume(t)
       \/ calls = 15 /\ Return(Main)
    /\ calls # 0 => UNCHANGED queues
    /\ UNCHANGED <<pc, local_counter, totals, last_total, open>>

-----------------------------------------------------------------------------
(* producer_thread_entry_generic.                                          *)

Send(p) ==
    /\ Runs(p) /\ pc[p] = "send"
    /\ \E done \in BOOLEAN :
         /\ tm_queue_send(p, <<p, local_counter[p]>>, done)
         /\ Goto(p, IF done THEN "sent" ELSE "send")
    /\ open' = open \cup {<<p, local_counter[p]>>}
    /\ UNCHANGED <<calls, local_counter, totals, last_total>>

\* Mutant: the next message gets the number of this one.
SentWithoutNumbering(p) ==
    /\ Runs(p) /\ pc[p] = "sent"
    /\ total_sent_counter' = Inc(total_sent_counter)
    /\ Goto(p, "send")
    /\ UNCHANGED <<kernel, queues, calls, local_counter, total_received_counter,
                   last_total, open>>

Sent(p) ==
    /\ Runs(p) /\ pc[p] = "sent"
    /\ total_sent_counter' = Inc(total_sent_counter)
    /\ local_counter' = [local_counter EXCEPT ![p] = Inc(@)]
    /\ Goto(p, "send")
    /\ UNCHANGED <<kernel, queues, calls, total_received_counter, last_total, open>>

-----------------------------------------------------------------------------
(* consumer_thread_entry_generic.                                          *)

Receive(c) ==
    /\ Runs(c) /\ pc[c] = "receive"
    /\ \E done \in BOOLEAN :
         /\ tm_queue_receive(c, done)
         /\ Goto(c, IF done THEN "check" ELSE "receive")
    /\ UNCHANGED <<calls, local_counter, totals, last_total, open>>

\* The message is read here, whoever got processor time since it arrived.
Check(c) ==
    /\ Runs(c) /\ pc[c] = "check"
    /\ total_received_counter' = Inc(total_received_counter)
    /\ open' = open \ {buffer[c]}
    /\ Goto(c, "receive")
    /\ UNCHANGED <<kernel, queues, calls, local_counter, total_sent_counter, last_total>>

-----------------------------------------------------------------------------
(* reporting_thread_entry.                                                 *)

Sleep ==
    /\ Runs(Reporter) /\ pc[Reporter] = "sleep"
    /\ tm_thread_sleep(Reporter)
    /\ Goto(Reporter, "report")
    /\ UNCHANGED <<queues, calls, local_counter, totals, last_total, open>>

Wake ==
    /\ TickWakes(Reporter)
    /\ UNCHANGED <<queues, calls, pc, local_counter, totals, last_total, open>>

Report ==
    /\ Runs(Reporter) /\ pc[Reporter] = "report"
    /\ last_total' = [sent |-> total_sent_counter, received |-> total_received_counter]
    /\ Goto(Reporter, "sleep")
    /\ UNCHANGED <<kernel, queues, calls, local_counter, totals, open>>

-----------------------------------------------------------------------------

ThreadStep ==
    \/ \E p \in Producer : Send(p) \/ Sent(p)
    \/ \E c \in Consumer : Receive(c) \/ Check(c)

MainStep == Initialize \/ Sleep \/ Report

Next == MainStep \/ ThreadStep \/ Wake

\* The running task executes; the threads have TEST_DURATION seconds.
Fairness ==
    /\ WF_vars(MainStep)
    /\ WF_vars(Wake)
    /\ SF_vars(ThreadStep)

Spec == Init /\ [][Next]_vars /\ Fairness

-----------------------------------------------------------------------------

TypeOK ==
    /\ KernelTypeOK
    /\ QueueTypeOK(Producer \X Word)
    /\ calls \in 0 .. 16
    /\ pc \in [Task -> Label]
    /\ local_counter \in [Producer -> Word]
    /\ {total_sent_counter, total_received_counter} \subseteq Word
    /\ last_total \in [sent : Word, received : Word]
    /\ open \subseteq Producer \X Word

\* The messages on their way, and the tasks whose call ended uncounted.
Taken(p) == pc[p] = "sent" /\ \A i \in DOMAIN senders : senders[i][1] # p
Given(c) == pc[c] = "check" /\ \A i \in DOMAIN receivers : receivers[i] # c

UnderWay ==
    {queue[i] : i \in DOMAIN queue} \cup {senders[i][2] : i \in DOMAIN senders}
        \cup {buffer[c] : c \in {d \in Consumer : Given(d)}}

(***************************************************************************)
(* Every message built by a producer (lines 150-163) is checked once: it   *)
(* is at one place, with a waiting producer, in the queue or with one      *)
(* consumer, until a consumer has checked it.  The order need not last: a  *)
(* running consumer overtakes consumers that were handed older messages.   *)
(***************************************************************************)
EachMessageOnce ==
    /\ UnderWay = open
    /\ Cardinality(open) = Len(queue) + Len(senders)
                             + Cardinality({c \in Consumer : Given(c)})

(***************************************************************************)
(* Nothing is lost between the two totals of the report (lines 238-241):   *)
(* the messages sent but not received are in the queue or in the hands of  *)
(* a consumer that has not counted yet, less those already taken from a    *)
(* producer that has not counted yet, so that the report may show more     *)
(* received than sent.                                                     *)
(***************************************************************************)
TotalsBalance ==
    Plus(total_sent_counter, Cardinality({p \in Producer : Taken(p)}))
      = Plus(total_received_counter,
             Len(queue) + Cardinality({c \in Consumer : Given(c)}))
=============================================================================
