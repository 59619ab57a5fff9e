------------------------------ MODULE TmQueues ------------------------------
(***************************************************************************)
(* The queue services of the porting layers.  Every benchmark with a queue *)
(* uses queue 0 only, in blocking mode.                                    *)
(*                                                                         *)
(* The kernels differ in what a waiting task gets.  ThreadX and Zephyr     *)
(* serve it: a message goes straight to a waiting receiver, and a receive  *)
(* moves the message of a waiting sender into the queue.  FreeRTOS only    *)
(* makes the task ready, and it repeats its call.                          *)
(*                                                                         *)
(* The tasks waiting on a queue have one priority, so they wait in FIFO    *)
(* order with each of the kernels.                                         *)
(***************************************************************************)
EXTENDS TmThreads

CONSTANT NoMessage  \* what a buffer holds before the first receive

VARIABLES
    capacity,   \* 0 until the queue is created
    queue,      \* the messages, oldest first
    senders,    \* <<task, message>> of the tasks blocked in a send
    receivers,  \* the tasks blocked in a receive
    buffer      \* buffer[t]: what message_ptr of t's last receive points to

queues == <<capacity, queue, senders, receivers, buffer>>

QueueTypeOK(Message) ==
    /\ capacity \in {0, 1, 8, 10}
    /\ queue \in Seq(Message) /\ Len(queue) <= capacity
    /\ senders \in Seq(Task \X Message)
    /\ receivers \in Seq(Task)
    /\ buffer \in [Task -> Message \cup {NoMessage}]

QueueInit ==
    /\ capacity = 0
    /\ queue = <<>> /\ senders = <<>> /\ receivers = <<>>
    /\ buffer = [t \in Task |-> NoMessage]

freertos_queue_create == capacity' = 10
threadx_queue_create == capacity' = 1  \* NUM_QUEUE_MESSAGES
zephyr_queue_create == capacity' = 8   \* MSGQ_NUM_MESSAGES

tm_queue_create ==
    /\ CASE Port = "FreeRTOS" -> freertos_queue_create
         [] Port = "ThreadX" -> threadx_queue_create
         [] Port = "Zephyr" -> zephyr_queue_create
    /\ UNCHANGED <<queue, senders, receivers, buffer>>

\* Mutant: a message for a waiting receiver is only queued.
DeliverWithoutWaking(m) == queue' = Append(queue, m) /\ UNCHANGED <<kernel, receivers, buffer>>

\* A message arrives: for the first waiting receiver, or in the queue.
Deliver(m) ==
    /\ IF receivers = <<>>
       THEN UNCHANGED <<kernel, receivers>>
       ELSE MakeReady(Head(receivers)) /\ receivers' = Tail(receivers)
    /\ IF receivers # <<>> /\ Port # "FreeRTOS"
       THEN buffer' = [buffer EXCEPT ![Head(receivers)] = m] /\ UNCHANGED queue
       ELSE queue' = Append(queue, m) /\ UNCHANGED buffer

(***************************************************************************)
(* done: the message is sent when the caller has the processor again; a    *)
(* FreeRTOS task that had to wait sends it then.                           *)
(***************************************************************************)
tm_queue_send(self, m, done) ==
    \/ /\ Len(queue) < capacity
       /\ Deliver(m)
       /\ done = TRUE
       /\ UNCHANGED <<capacity, senders>>
    \/ /\ Len(queue) = capacity
       /\ Block(self, "blocked")
       /\ senders' = Append(senders, <<self, m>>)
       /\ done = (Port # "FreeRTOS")
       /\ UNCHANGED <<capacity, queue, receivers, buffer>>

\* Does not wait: no room is an error.
freertos_queue_send_from_isr(m, ok) ==
    /\ ok = (Len(queue) < capacity)
    /\ IF ok THEN Deliver(m) ELSE UNCHANGED <<kernel, queue, receivers, buffer>>

\* TX_WAIT_FOREVER and K_FOREVER: without room the handler does not return.
threadx_queue_send_from_isr(m, ok) ==
    /\ Len(queue) < capacity
    /\ ok = TRUE
    /\ Deliver(m)

tm_queue_send_from_isr(m, ok) ==
    /\ IF Port = "FreeRTOS" THEN freertos_queue_send_from_isr(m, ok)
       ELSE threadx_queue_send_from_isr(m, ok)
    /\ UNCHANGED <<capacity, senders>>

\* Mutant: the waiting sender is served but not resumed.
MessageOnly == queue' = Tail(queue) /\ UNCHANGED <<kernel, senders>>

\* Mutant: the waiting sender is resumed and its message forgotten.
SenderOnly ==
    /\ queue' = Tail(queue)
    /\ IF senders = <<>> THEN UNCHANGED <<kernel, senders>>
       ELSE MakeReady(Head(senders)[1]) /\ senders' = Tail(senders)

\* The oldest message leaves the queue, and the first waiting sender is woken.
TakeMessage ==
    IF senders = <<>>
    THEN queue' = Tail(queue) /\ UNCHANGED <<kernel, senders>>
    ELSE /\ queue' = Tail(queue) \o (IF Port = "FreeRTOS" THEN <<>> ELSE <<Head(senders)[2]>>)
         /\ MakeReady(Head(senders)[1])
         /\ senders' = Tail(senders)

\* done: message_ptr holds the message when the caller has the processor again.
tm_queue_receive(self, done) ==
    \/ /\ queue # <<>>
       /\ buffer' = [buffer EXCEPT ![self] = Head(queue)]
       /\ TakeMessage
       /\ done = TRUE
       /\ UNCHANGED <<capacity, receivers>>
    \/ /\ queue = <<>>
       /\ Block(self, "blocked")
       /\ receivers' = Append(receivers, self)
       /\ done = (Port # "FreeRTOS")
       /\ UNCHANGED <<capacity, queue, senders, buffer>>
=============================================================================
