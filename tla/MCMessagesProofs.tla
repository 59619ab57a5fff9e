-------------------------- MODULE MCMessagesProofs ---------------------------
(***************************************************************************)
(* Proofs about the two message benchmarks of MCMessages, and about the    *)
(* benchmarks with one thread of MCProcessing, on every port they are      *)
(* built for.                                                              *)
(*                                                                         *)
(* The totals and the interrupt's messages need not know the order in      *)
(* which the kernel runs the threads: what counts is that a task in one of *)
(* the queue's lists of waiters is blocked, so that it cannot go on before *)
(* it has been served.  That no two messages on their way are the same     *)
(* does need it, since the producers' numbers wrap: a message must be      *)
(* checked before its number comes again.  With one thread the order is    *)
(* all: it must not start before the main task has created what it uses.   *)
(***************************************************************************)
EXTENDS MCMessages, MCProcessing, TmLemmas, FiniteSetTheorems

-----------------------------------------------------------------------------
(* Thread to thread.                                                       *)

\* The tasks in a list of waiters, and those in one of <<task, message>>.
Elements(s) == {s[k] : k \in 1 .. Len(s)}
Firsts(s) == {s[k][1] : k \in 1 .. Len(s)}

\* Nobody waits twice.
Once(s) == \A k, m \in 1 .. Len(s) : s[k] = s[m] => k = m
OnceFirst(s) == \A k, m \in 1 .. Len(s) : s[k][1] = s[m][1] => k = m

\* Who waits in a send has built its message.
SendersWait ==
    /\ \A p \in Firsts(senders) : p \in Producer /\ state[p] = "blocked" /\ pc[p] = "sent"
    /\ OnceFirst(senders)

ReceiversWait ==
    /\ \A c \in Elements(receivers) :
           c \in Consumer /\ state[c] = "blocked" /\ pc[c] = "check"
    /\ Once(receivers)

\* The queue is created before the threads.
QueueFirst ==
    calls = 0 => queue = << >> /\ \A t \in Thread : state[t] = "absent"

TaskInv ==
    /\ TypeOK
    /\ KernelInv
    /\ capacity \in {0, 1, 8}
    /\ QueueFirst
    /\ SendersWait
    /\ ReceiversWait
    /\ TotalsBalance

\* The producers whose send ended uncounted, the consumers with a message.
Takers == {p \in Producer : pc[p] = "sent" /\ p \notin Firsts(senders)}
Holders == {c \in Consumer : pc[c] = "check" /\ c \notin Elements(receivers)}

LEMMA TaskNames ==
    /\ Port = "Zephyr" /\ Thread = 0 .. 6 /\ Main \notin 0 .. 6 /\ Task = 0 .. 6 \cup {Main}
    /\ Producer = {0, 1, 2} /\ Consumer = {3, 4, 5} /\ Reporter = 6
    /\ 1 \in Level /\ 5 \in Level
  BY MessagesConfiguration, MainAssumption, MaxPrioritiesAssumption
  DEF Configuration, Task, Producer, Consumer, Reporter, Level

(* The lists of waiters.                                                   *)

LEMMA ElementsAppend ==
    ASSUME NEW s \in Seq(Task), NEW e \in Task, e \notin Elements(s), Once(s)
    PROVE  /\ Append(s, e) \in Seq(Task)
           /\ Elements(Append(s, e)) = Elements(s) \cup {e}
           /\ Once(Append(s, e))
<1> DEFINE a == Append(s, e)
<1>1. /\ a \in Seq(Task) /\ Len(a) = Len(s) + 1 /\ Len(s) \in Nat
      /\ \A k \in 1 .. Len(s) : a[k] = s[k]
      /\ a[Len(s) + 1] = e
  BY AppendElements, LenProperties
<1> HIDE DEF a
<1>2. 1 .. Len(a) = 1 .. Len(s) \cup {Len(s) + 1}
  BY <1>1
<1>3. Elements(a) = Elements(s) \cup {e}
  BY <1>1, <1>2 DEF Elements
<1>4. Once(a)
  BY <1>1, <1>2 DEF Once, Elements
<1>5. QED
  BY <1>1, <1>3, <1>4 DEF a

LEMMA ElementsTail ==
    ASSUME NEW s \in Seq(Task), s # << >>, Once(s)
    PROVE  /\ Head(s) \in Elements(s) /\ Tail(s) \in Seq(Task)
           /\ Elements(Tail(s)) = Elements(s) \ {Head(s)}
           /\ Once(Tail(s))
<1> DEFINE r == Tail(s)
<1>1. Len(s) \in Nat /\ Len(s) > 0
  BY EmptySeq, LenProperties
<1>2. /\ Head(s) = s[1] /\ r \in Seq(Task) /\ Len(r) = Len(s) - 1
      /\ \A k \in 1 .. Len(s) - 1 : r[k] = s[k + 1]
  BY <1>1, TailElements
<1> HIDE DEF r
<1>3. Elements(r) = Elements(s) \ {s[1]}
  <2>1. ASSUME NEW k \in 1 .. Len(r) PROVE r[k] \in Elements(s) /\ r[k] # s[1]
    <3>1. k + 1 \in 1 .. Len(s) /\ k + 1 # 1 /\ r[k] = s[k + 1] /\ 1 \in 1 .. Len(s)
      BY <1>1, <1>2
    <3>2. QED
      BY <3>1 DEF Elements, Once
  <2>2. ASSUME NEW k \in 1 .. Len(s), s[k] # s[1] PROVE s[k] \in Elements(r)
    <3>1. k # 1
      BY <2>2
    <3>2. k - 1 \in 1 .. Len(r) /\ r[k - 1] = s[(k - 1) + 1] /\ (k - 1) + 1 = k
      BY <1>1, <1>2, <3>1
    <3>3. QED
      BY <3>2 DEF Elements
  <2>3. QED
    BY <2>1, <2>2 DEF Elements
<1>4. Once(r)
  <2> SUFFICES ASSUME NEW k \in 1 .. Len(r), NEW m \in 1 .. Len(r), r[k] = r[m]
               PROVE  k = m
    BY DEF Once
  <2>1. /\ k + 1 \in 1 .. Len(s) /\ m + 1 \in 1 .. Len(s)
        /\ s[k + 1] = s[m + 1]
    BY <1>1, <1>2
  <2>2. k + 1 = m + 1
    BY <2>1 DEF Once
  <2>3. QED
    BY <1>1, <1>2, <2>2
<1>5. Head(s) \in Elements(s)
  BY <1>1, <1>2 DEF Elements
<1>6. QED
  BY <1>2, <1>3, <1>4, <1>5 DEF r

LEMMA FirstsAppend ==
    ASSUME NEW M, NEW s \in Seq(Task \X M), NEW t \in Task, NEW m \in M,
           t \notin Firsts(s), OnceFirst(s)
    PROVE  /\ Append(s, <<t, m>>) \in Seq(Task \X M)
           /\ Firsts(Append(s, <<t, m>>)) = Firsts(s) \cup {t}
           /\ OnceFirst(Append(s, <<t, m>>))
<1> DEFINE e == <<t, m>>
           a == Append(s, e)
<1>1. e \in Task \X M /\ e[1] = t
  OBVIOUS
<1> HIDE DEF e
<1>2. /\ a \in Seq(Task \X M) /\ Len(a) = Len(s) + 1 /\ Len(s) \in Nat
      /\ \A k \in 1 .. Len(s) : a[k] = s[k]
      /\ a[Len(s) + 1] = e
  BY <1>1, AppendProperties, LenProperties
<1> HIDE DEF a
<1>3. 1 .. Len(a) = 1 .. Len(s) \cup {Len(s) + 1}
  BY <1>2
<1>4. Firsts(a) = Firsts(s) \cup {t}
  BY <1>1, <1>2, <1>3 DEF Firsts
<1>5. OnceFirst(a)
  BY <1>1, <1>2, <1>3 DEF OnceFirst, Firsts
<1>6. QED
  BY <1>2, <1>4, <1>5 DEF a, e

LEMMA FirstsTail ==
    ASSUME NEW M, NEW s \in Seq(Task \X M), s # << >>, OnceFirst(s)
    PROVE  /\ Head(s) \in Task \X M /\ Head(s)[1] \in Firsts(s)
           /\ Tail(s) \in Seq(Task \X M)
           /\ Firsts(Tail(s)) = Firsts(s) \ {Head(s)[1]}
           /\ OnceFirst(Tail(s))
<1> DEFINE r == Tail(s)
<1>1. Len(s) \in Nat /\ Len(s) > 0
  BY EmptySeq, LenProperties
<1>2. /\ Head(s) = s[1] /\ r \in Seq(Task \X M) /\ Len(r) = Len(s) - 1
      /\ \A k \in 1 .. Len(s) - 1 : r[k] = s[k + 1]
  BY <1>1, HeadTailProperties
<1> HIDE DEF r
<1>3. Firsts(r) = Firsts(s) \ {s[1][1]}
  <2>1. ASSUME NEW k \in 1 .. Len(r) PROVE r[k][1] \in Firsts(s) /\ r[k][1] # s[1][1]
    <3>1. k + 1 \in 1 .. Len(s) /\ k + 1 # 1 /\ r[k] = s[k + 1] /\ 1 \in 1 .. Len(s)
      BY <1>1, <1>2
    <3>2. QED
      BY <3>1 DEF Firsts, OnceFirst
  <2>2. ASSUME NEW k \in 1 .. Len(s), s[k][1] # s[1][1] PROVE s[k][1] \in Firsts(r)
    <3>1. k # 1
      BY <2>2
    <3>2. k - 1 \in 1 .. Len(r) /\ r[k - 1] = s[(k - 1) + 1] /\ (k - 1) + 1 = k
      BY <1>1, <1>2, <3>1
    <3>3. QED
      BY <3>2 DEF Firsts
  <2>3. QED
    BY <2>1, <2>2 DEF Firsts
<1>4. OnceFirst(r)
  <2> SUFFICES ASSUME NEW k \in 1 .. Len(r), NEW m \in 1 .. Len(r), r[k][1] = r[m][1]
               PROVE  k = m
    BY DEF OnceFirst
  <2>1. /\ k + 1 \in 1 .. Len(s) /\ m + 1 \in 1 .. Len(s)
        /\ s[k + 1][1] = s[m + 1][1]
    BY <1>1, <1>2
  <2>2. k + 1 = m + 1
    BY <2>1 DEF OnceFirst
  <2>3. QED
    BY <1>1, <1>2, <2>2
<1>5. Head(s) \in Task \X M /\ Head(s)[1] \in Firsts(s)
  BY <1>1, <1>2, ElementOfSeq DEF Firsts
<1>6. QED
  BY <1>2, <1>3, <1>4, <1>5 DEF r

(* The two ports take the same steps after the initialisation.             *)

LEMMA SameRuns == \A t \in Task : ThreadX!Runs(t) <=> Runs(t)
  BY TaskNames DEF Runs, MoreUrgent, Level, ThreadX!Runs, ThreadX!MoreUrgent, ThreadX!Level

LEMMA SameSend ==
    ASSUME NEW p \in Producer, ThreadX!Send(p) PROVE Send(p)
<1>1. p \in Task
  BY TaskNames
<1>2. Runs(p)
  BY <1>1, SameRuns DEF ThreadX!Send
<1>3. \A m, done : ThreadX!tm_queue_send(p, m, done) => tm_queue_send(p, m, done)
  BY TaskNames
  DEF tm_queue_send, Deliver, MakeReady, Block, kernel, ThreadX!tm_queue_send,
   ThreadX!Deliver, ThreadX!MakeReady, ThreadX!Block, ThreadX!kernel
<1>4. QED
  BY <1>2, <1>3 DEF Send, Goto, totals, ThreadX!Send, ThreadX!Goto, ThreadX!totals

LEMMA SameSent ==
    ASSUME NEW p \in Producer, ThreadX!Sent(p) PROVE Sent(p)
  BY TaskNames, SameRuns
  DEF Sent, Inc, Goto, kernel, queues, ThreadX!Sent, ThreadX!Inc, ThreadX!Goto,
   ThreadX!kernel, ThreadX!queues

LEMMA SameReceive ==
    ASSUME NEW c \in Consumer, ThreadX!Receive(c) PROVE Receive(c)
<1>1. c \in Task
  BY TaskNames
<1>2. Runs(c)
  BY <1>1, SameRuns DEF ThreadX!Receive
<1>3. \A done : ThreadX!tm_queue_receive(c, done) => tm_queue_receive(c, done)
  BY TaskNames
  DEF tm_queue_receive, TakeMessage, MakeReady, Block, kernel, ThreadX!tm_queue_receive,
   ThreadX!TakeMessage, ThreadX!MakeReady, ThreadX!Block, ThreadX!kernel
<1>4. QED
  BY <1>2, <1>3 DEF Receive, Goto, totals, ThreadX!Receive, ThreadX!Goto, ThreadX!totals

LEMMA SameCheck ==
    ASSUME NEW c \in Consumer, ThreadX!Check(c) PROVE Check(c)
  BY TaskNames, SameRuns
  DEF Check, Inc, Goto, kernel, queues, ThreadX!Check, ThreadX!Inc, ThreadX!Goto,
   ThreadX!kernel, ThreadX!queues

LEMMA SameThreadStep == ASSUME ThreadX!ThreadStep PROVE ThreadStep
  BY SameSend, SameSent, SameReceive, SameCheck
  DEF ThreadStep, ThreadX!ThreadStep, Producer, Consumer, ThreadX!Producer, ThreadX!Consumer

LEMMA SameReporter ==
    /\ ThreadX!Sleep => Sleep
    /\ ThreadX!Report => Report
<1>1. ThreadX!Reporter = Reporter /\ Reporter \in Task
  BY TaskNames DEF Reporter, ThreadX!Reporter
<1>2. ThreadX!Sleep => Sleep
  BY <1>1, SameRuns
  DEF Sleep, tm_thread_sleep, Block, Goto, queues, totals, ThreadX!Sleep,
   ThreadX!tm_thread_sleep, ThreadX!Block, ThreadX!Goto, ThreadX!queues, ThreadX!totals
<1>3. ThreadX!Report => Report
  BY <1>1, SameRuns
  DEF Report, Goto, kernel, queues, totals, ThreadX!Report, ThreadX!Goto, ThreadX!kernel,
   ThreadX!queues, ThreadX!totals
<1>4. QED
  BY <1>2, <1>3

(* What the ports do differently is the size of the queue.                 *)
LEMMA TaskCalls ==
    ASSUME Initialize \/ ThreadX!Initialize
    PROVE  /\ Heads(Main) /\ calls' = calls + 1
           /\ UNCHANGED <<senders, receivers, queue, buffer, pc, taskvars>>
           /\ calls # 0 => UNCHANGED capacity
           /\ \/ calls = 0 /\ capacity' \in {1, 8} /\ UNCHANGED kernel
              \/ \E t \in Thread, l \in {1, 5} : calls = 2 * t + 1 /\ AddSuspended(t, l)
              \/ \E t \in Thread : calls = 2 * t + 2 /\ tm_thread_resume(t)
              \/ calls = 15 /\ Block(Main, "done")
<1>1. Port = "Zephyr"
  BY TaskNames
<1>2. Heads(Main)
  BY DEF Heads, Initialize, Runs, ThreadX!Initialize, ThreadX!Runs
<1>3. /\ calls' = calls + 1 /\ UNCHANGED <<pc, taskvars>>
      /\ calls # 0 => UNCHANGED <<capacity, queue, senders, receivers, buffer>>
  BY DEF Initialize, queues, totals, taskvars, ThreadX!Initialize, ThreadX!queues,
   ThreadX!totals
<1>4. \/ /\ calls = 0 /\ UNCHANGED kernel
         /\ tm_queue_create \/ ThreadX!tm_queue_create
      \/ \E t \in Thread, l \in {1, 5} :
             /\ calls = 2 * t + 1
             /\ tm_thread_create(t, l) \/ ThreadX!tm_thread_create(t, l)
      \/ \E t \in Thread : /\ calls = 2 * t + 2
                           /\ tm_thread_resume(t) \/ ThreadX!tm_thread_resume(t)
      \/ calls = 15 /\ (Return(Main) \/ ThreadX!Return(Main))
  BY DEF Initialize, kernel, ThreadX!Initialize, ThreadX!kernel
<1>5. CASE calls = 0 /\ UNCHANGED kernel /\ (tm_queue_create \/ ThreadX!tm_queue_create)
  <2>1. capacity' \in {1, 8} /\ UNCHANGED <<queue, senders, receivers, buffer>>
    BY <1>1, <1>5
    DEF tm_queue_create, zephyr_queue_create, ThreadX!tm_queue_create,
     ThreadX!threadx_queue_create
  <2>2. QED
    BY <1>2, <1>3, <1>5, <2>1
<1>6. ASSUME NEW t \in Thread, NEW l \in {1, 5}, calls = 2 * t + 1,
             tm_thread_create(t, l) \/ ThreadX!tm_thread_create(t, l)
      PROVE  AddSuspended(t, l) /\ calls # 0
  <2>1. AddSuspended(t, l)
    BY <1>1, <1>6
    DEF tm_thread_create, zephyr_thread_create, AddSuspended, ThreadX!tm_thread_create,
     ThreadX!threadx_thread_create, ThreadX!AddSuspended
  <2>2. QED
    BY <1>6, <2>1, TaskNames
<1>7. ASSUME NEW t \in Thread, calls = 2 * t + 2,
             tm_thread_resume(t) \/ ThreadX!tm_thread_resume(t)
      PROVE  tm_thread_resume(t) /\ calls # 0
  <2>1. tm_thread_resume(t)
    BY <1>7
    DEF tm_thread_resume, MakeReady, kernel, ThreadX!tm_thread_resume, ThreadX!MakeReady,
     ThreadX!kernel
  <2>2. QED
    BY <1>7, <2>1, TaskNames
<1>8. ASSUME calls = 15, Return(Main) \/ ThreadX!Return(Main)
      PROVE  Block(Main, "done") /\ calls # 0
  BY <1>8 DEF Return, Block, ThreadX!Return, ThreadX!Block
<1>9. QED
  <2>1. CASE \E t \in Thread, l \in {1, 5} :
                 /\ calls = 2 * t + 1
                 /\ tm_thread_create(t, l) \/ ThreadX!tm_thread_create(t, l)
    BY <1>2, <1>3, <1>6, <2>1
  <2>2. CASE \E t \in Thread : /\ calls = 2 * t + 2
                               /\ tm_thread_resume(t) \/ ThreadX!tm_thread_resume(t)
    BY <1>2, <1>3, <1>7, <2>2
  <2>3. CASE calls = 15 /\ (Return(Main) \/ ThreadX!Return(Main))
    BY <1>2, <1>3, <1>8, <2>3
  <2>4. QED
    BY <1>4, <1>5, <2>1, <2>2, <2>3

(* The types of the benchmark's variables, one by one.                     *)

LEMMA TaskTypes ==
    ASSUME TaskInv
    PROVE  /\ KernelInv /\ state \in [Task -> State] /\ level \in [Task -> Level]
           /\ capacity \in {0, 1, 8}
           /\ queue \in Seq(Producer \X Word) /\ Len(queue) \in Nat /\ Len(queue) <= capacity
           /\ senders \in Seq(Task \X (Producer \X Word)) /\ receivers \in Seq(Task)
           /\ buffer \in [Task -> (Producer \X Word) \cup {NoMessage}]
           /\ calls \in 0 .. 16 /\ pc \in [Task -> Label]
           /\ local_counter \in [Producer -> Word]
           /\ total_sent_counter \in Word /\ total_received_counter \in Word
           /\ last_total \in [sent : Word, received : Word]
           /\ open \subseteq Producer \X Word
           /\ OnceFirst(senders) /\ Once(receivers)
<1>1. TypeOK /\ KernelTypeOK /\ QueueTypeOK(Producer \X Word)
  BY DEF TaskInv, TypeOK
<1>2. /\ queue \in Seq(Producer \X Word) /\ Len(queue) <= capacity
      /\ senders \in Seq(Task \X (Producer \X Word)) /\ receivers \in Seq(Task)
      /\ buffer \in [Task -> (Producer \X Word) \cup {NoMessage}]
  BY <1>1 DEF QueueTypeOK
<1>3. Len(queue) \in Nat
  BY <1>2, LenProperties
<1>4. state \in [Task -> State] /\ level \in [Task -> Level]
  BY <1>1 DEF KernelTypeOK
<1>5. KernelInv /\ capacity \in {0, 1, 8} /\ OnceFirst(senders) /\ Once(receivers)
  BY DEF TaskInv, SendersWait, ReceiversWait
<1>6. /\ calls \in 0 .. 16 /\ pc \in [Task -> Label]
      /\ local_counter \in [Producer -> Word]
      /\ total_sent_counter \in Word /\ total_received_counter \in Word
      /\ last_total \in [sent : Word, received : Word]
      /\ open \subseteq Producer \X Word
  BY <1>1 DEF TypeOK
<1>7. QED
  BY <1>2, <1>3, <1>4, <1>5, <1>6

LEMMA TaskTypesJoin ==
    ASSUME KernelInv', capacity' \in {0, 1, 8},
           queue' \in Seq(Producer \X Word), Len(queue') <= capacity',
           senders' \in Seq(Task \X (Producer \X Word)), receivers' \in Seq(Task),
           buffer' \in [Task -> (Producer \X Word) \cup {NoMessage}],
           calls' \in 0 .. 16, pc' \in [Task -> Label],
           local_counter' \in [Producer -> Word],
           total_sent_counter' \in Word, total_received_counter' \in Word,
           last_total' \in [sent : Word, received : Word],
           open' \subseteq Producer \X Word
    PROVE  TypeOK'
<1>1. KernelTypeOK'
  BY DEF KernelInv
<1>2. QueueTypeOK(Producer \X Word)'
  BY DEF QueueTypeOK
<1>3. QED
  BY <1>1, <1>2 DEF TypeOK

-----------------------------------------------------------------------------
(* What the totals count.                                                  *)

LEMMA NotFirst ==
    ASSUME NEW M, NEW s \in Seq(M), NEW p
    PROVE  (\A k \in DOMAIN s : s[k][1] # p) <=> p \notin Firsts(s)
  BY LenProperties DEF Firsts

LEMMA NotElement ==
    ASSUME NEW M, NEW s \in Seq(M), NEW c
    PROVE  (\A k \in DOMAIN s : s[k] # c) <=> c \notin Elements(s)
  BY LenProperties DEF Elements

LEMMA SmallSet ==
    ASSUME NEW a \in Int, NEW S \in SUBSET (a .. a + 2)
    PROVE  IsFiniteSet(S) /\ Cardinality(S) \in 0 .. 3
<1>1. IsFiniteSet(a .. a + 2) /\ Cardinality(a .. a + 2) = 3
  BY FS_Interval
<1>2. IsFiniteSet(S) /\ Cardinality(S) <= Cardinality(a .. a + 2)
  BY <1>1, FS_Subset
<1>3. Cardinality(S) \in Nat
  BY <1>2, FS_CardinalityType
<1>4. QED
  BY <1>1, <1>2, <1>3

\* The queue has room for eight messages, and there are three consumers.
LEMMA AtMostEleven ==
    ASSUME NEW n \in Nat, NEW c \in {0, 1, 8}, n <= c, NEW k \in 0 .. 3
    PROVE  n + k \in 0 .. 11
  OBVIOUS

\* The two sides of the balance.
SentTaken == Plus(total_sent_counter, Cardinality(Takers))
ReceivedGiven == Plus(total_received_counter, Len(queue) + Cardinality(Holders))

LEMMA Counted ==
    TypeOK /\ capacity \in {0, 1, 8} =>
        /\ IsFiniteSet(Takers) /\ IsFiniteSet(Holders)
        /\ Cardinality(Takers) \in 0 .. 3
        /\ Cardinality(Holders) \in 0 .. 3
        /\ Len(queue) + Cardinality(Holders) \in 0 .. 11
        /\ TotalsBalance <=> SentTaken = ReceivedGiven
<1> SUFFICES ASSUME TypeOK, capacity \in {0, 1, 8}
             PROVE  /\ IsFiniteSet(Takers) /\ IsFiniteSet(Holders)
                    /\ Cardinality(Takers) \in 0 .. 3
                    /\ Cardinality(Holders) \in 0 .. 3
                    /\ Len(queue) + Cardinality(Holders) \in 0 .. 11
                    /\ TotalsBalance <=> SentTaken = ReceivedGiven
  OBVIOUS
<1>1. /\ queue \in Seq(Producer \X Word) /\ Len(queue) <= capacity
      /\ senders \in Seq(Task \X (Producer \X Word)) /\ receivers \in Seq(Task)
  BY DEF TypeOK, QueueTypeOK
<1>2. Len(queue) \in Nat /\ Len(queue) <= capacity
  BY <1>1, LenProperties
<1>3. Takers \in SUBSET (0 .. 0 + 2) /\ Holders \in SUBSET (3 .. 3 + 2)
  BY DEF Takers, Holders, Producer, Consumer
<1>4. /\ IsFiniteSet(Takers) /\ Cardinality(Takers) \in 0 .. 3
      /\ IsFiniteSet(Holders) /\ Cardinality(Holders) \in 0 .. 3
  BY <1>3, SmallSet
<1>5. {p \in Producer : Taken(p)} = Takers
  BY <1>1, NotFirst DEF Taken, Takers
<1>6. {c \in Consumer : Given(c)} = Holders
  BY <1>1, NotElement DEF Given, Holders
<1>7. TotalsBalance <=> SentTaken = ReceivedGiven
  BY <1>5, <1>6 DEF TotalsBalance, SentTaken, ReceivedGiven
<1>8. Len(queue) + Cardinality(Holders) \in 0 .. 11
  BY <1>2, <1>4, AtMostEleven
<1>9. QED
  BY <1>4, <1>7, <1>8

LEMMA CountedNext ==
    ASSUME TypeOK', capacity' \in {0, 1, 8}
    PROVE  /\ IsFiniteSet(Takers') /\ IsFiniteSet(Holders')
           /\ Cardinality(Takers') \in 0 .. 3
           /\ Cardinality(Holders') \in 0 .. 3
           /\ Len(queue') + Cardinality(Holders') \in 0 .. 11
           /\ TotalsBalance' <=> SentTaken' = ReceivedGiven'
<1>1. (TypeOK /\ capacity \in {0, 1, 8} =>
        /\ IsFiniteSet(Takers) /\ IsFiniteSet(Holders)
        /\ Cardinality(Takers) \in 0 .. 3
        /\ Cardinality(Holders) \in 0 .. 3
        /\ Len(queue) + Cardinality(Holders) \in 0 .. 11
        /\ TotalsBalance <=> SentTaken = ReceivedGiven)'
  BY Counted, PTL
<1>2. QED
  BY <1>1

LEMMA PlusBoth ==
    ASSUME MaxWord >= 11, NEW x \in Word, NEW y \in Word, NEW n \in 0 .. 10,
           NEW m \in 0 .. 10, Plus(x, n) = Plus(y, m)
    PROVE  Plus(x, n + 1) = Plus(y, m + 1)
  BY MaxWordAssumption DEF Plus, Word

LEMMA PlusMoved ==
    ASSUME MaxWord >= 11, NEW x \in Word, NEW n \in 0 .. 10
    PROVE  Plus(Inc(x), n) = Plus(x, n + 1)
  BY MaxWordAssumption DEF Plus, Inc, Word

\* A message less in the queue is one more with a consumer.
LEMMA BalanceSame ==
    ASSUME TaskInv, TypeOK', capacity' \in {0, 1, 8}, UNCHANGED totals, Takers' = Takers,
           \/ Len(queue') = Len(queue) /\ Holders' = Holders
           \/ /\ Len(queue') = Len(queue) - 1
              /\ \E c : c \notin Holders /\ Holders' = Holders \cup {c}
    PROVE  TotalsBalance'
<1>1. IsFiniteSet(Holders) /\ Cardinality(Holders) \in 0 .. 3 /\ SentTaken = ReceivedGiven
  BY Counted DEF TaskInv
<1>2. Len(queue) \in Nat
  BY TaskTypes
<1>3. Len(queue') + Cardinality(Holders') = Len(queue) + Cardinality(Holders)
  <2>1. CASE Len(queue') = Len(queue) /\ Holders' = Holders
    BY <2>1
  <2>2. CASE /\ Len(queue') = Len(queue) - 1
             /\ \E c : c \notin Holders /\ Holders' = Holders \cup {c}
    <3>1. Cardinality(Holders') = Cardinality(Holders) + 1
      BY <1>1, <2>2, FS_AddElement
    <3>2. QED
      BY <1>1, <1>2, <2>2, <3>1
  <2>3. QED
    BY <2>1, <2>2
<1>4. SentTaken' = ReceivedGiven'
  BY <1>1, <1>3 DEF SentTaken, ReceivedGiven, totals
<1>5. QED
  BY <1>4, CountedNext

\* A message more, in the queue or with a consumer, of a producer that has not
\* counted it.
LEMMA BalanceBoth ==
    ASSUME MaxWord >= 11, TaskInv, TypeOK', capacity' \in {0, 1, 8}, UNCHANGED totals,
           \E p : p \notin Takers /\ Takers' = Takers \cup {p},
           \/ Len(queue') = Len(queue) + 1 /\ Holders' = Holders
           \/ /\ Len(queue') = Len(queue)
              /\ \E c : c \notin Holders /\ Holders' = Holders \cup {c}
    PROVE  TotalsBalance'
<1> DEFINE n == Cardinality(Takers)
           m == Len(queue) + Cardinality(Holders)
<1>1. /\ IsFiniteSet(Takers) /\ IsFiniteSet(Holders) /\ n \in 0 .. 3
      /\ Cardinality(Holders) \in 0 .. 3 /\ m \in 0 .. 11 /\ SentTaken = ReceivedGiven
  BY Counted DEF TaskInv
<1>2. Len(queue) \in Nat /\ total_sent_counter \in Word /\ total_received_counter \in Word
  BY TaskTypes
<1>3. Cardinality(Takers') = n + 1
  BY <1>1, FS_AddElement
<1>4. Len(queue') + Cardinality(Holders') = m + 1
  <2>1. CASE Len(queue') = Len(queue) + 1 /\ Holders' = Holders
    BY <1>1, <1>2, <2>1
  <2>2. CASE /\ Len(queue') = Len(queue)
             /\ \E c : c \notin Holders /\ Holders' = Holders \cup {c}
    <3>1. Cardinality(Holders') = Cardinality(Holders) + 1
      BY <1>1, <2>2, FS_AddElement
    <3>2. QED
      BY <1>1, <1>2, <2>2, <3>1
  <2>3. QED
    BY <2>1, <2>2
<1>5. Cardinality(Takers') \in 0 .. 3 /\ Len(queue') + Cardinality(Holders') \in 0 .. 11
  BY CountedNext
<1>6. n \in 0 .. 10 /\ m \in 0 .. 10
  BY <1>1, <1>3, <1>4, <1>5
<1>7. Plus(total_sent_counter, n) = Plus(total_received_counter, m)
  BY <1>1 DEF SentTaken, ReceivedGiven
<1>8. Plus(total_sent_counter, n + 1) = Plus(total_received_counter, m + 1)
  BY <1>2, <1>6, <1>7, PlusBoth
<1>9. SentTaken' = ReceivedGiven'
  BY <1>3, <1>4, <1>8 DEF SentTaken, ReceivedGiven, totals
<1>10. QED
  BY <1>9, CountedNext

\* A producer counts its message.
LEMMA BalanceSent ==
    ASSUME MaxWord >= 11, TaskInv, TypeOK', capacity' \in {0, 1, 8},
           total_sent_counter' = Inc(total_sent_counter), UNCHANGED total_received_counter,
           \E p \in Takers : Takers' = Takers \ {p}, UNCHANGED queue, Holders' = Holders
    PROVE  TotalsBalance'
<1> DEFINE n == Cardinality(Takers)
<1>1. IsFiniteSet(Takers) /\ n \in 0 .. 3 /\ SentTaken = ReceivedGiven
  BY Counted DEF TaskInv
<1>2. total_sent_counter \in Word
  BY TaskTypes
<1>3. Cardinality(Takers') = n - 1
  BY <1>1, FS_RemoveElement
<1>4. Cardinality(Takers') \in 0 .. 3
  BY CountedNext
<1>5. n - 1 \in 0 .. 10 /\ (n - 1) + 1 = n
  BY <1>1, <1>3, <1>4
<1>6. Plus(Inc(total_sent_counter), n - 1) = Plus(total_sent_counter, n)
  BY <1>2, <1>5, PlusMoved
<1>7. SentTaken' = ReceivedGiven'
  BY <1>1, <1>3, <1>6 DEF SentTaken, ReceivedGiven
<1>8. QED
  BY <1>7, CountedNext

\* A consumer counts its message.
LEMMA BalanceReceived ==
    ASSUME MaxWord >= 11, TaskInv, TypeOK', capacity' \in {0, 1, 8},
           total_received_counter' = Inc(total_received_counter), UNCHANGED total_sent_counter,
           \E c \in Holders : Holders' = Holders \ {c}, UNCHANGED queue, Takers' = Takers
    PROVE  TotalsBalance'
<1> DEFINE k == Cardinality(Holders)
           m == Len(queue) + k
<1>1. IsFiniteSet(Holders) /\ k \in 0 .. 3 /\ m \in 0 .. 11 /\ SentTaken = ReceivedGiven
  BY Counted DEF TaskInv
<1>2. Len(queue) \in Nat /\ total_received_counter \in Word
  BY TaskTypes
<1>3. Cardinality(Holders') = k - 1
  BY <1>1, FS_RemoveElement
<1>4. Len(queue') + Cardinality(Holders') = m - 1
  BY <1>1, <1>2, <1>3
<1>5. Len(queue') + Cardinality(Holders') \in 0 .. 11
  BY CountedNext
<1>6. m - 1 \in 0 .. 10 /\ (m - 1) + 1 = m
  BY <1>1, <1>4, <1>5
<1>7. Plus(Inc(total_received_counter), m - 1) = Plus(total_received_counter, m)
  BY <1>2, <1>6, PlusMoved
<1>8. SentTaken' = ReceivedGiven'
  BY <1>1, <1>4, <1>7 DEF SentTaken, ReceivedGiven
<1>9. QED
  BY <1>8, CountedNext

-----------------------------------------------------------------------------
(* Thread to thread, step by step.                                         *)

LEMMA TaskInit == ASSUME Init \/ ThreadX!Init PROVE TaskInv
<1>1. StartedWith(1)
  BY TaskNames
  DEF Init, KernelInit, rtos_main_zephyr, StartedWith, Task, Level, ThreadX!Init,
   ThreadX!KernelInit, ThreadX!rtos_main_threadx, ThreadX!StartedWith, ThreadX!Task,
   ThreadX!Level
<1>2. /\ capacity = 0 /\ queue = << >> /\ senders = << >> /\ receivers = << >>
      /\ buffer = [t \in Task |-> NoMessage]
  BY DEF Init, QueueInit, Task, ThreadX!Init, ThreadX!QueueInit, ThreadX!Task
<1>3. /\ calls = 0 /\ open = {} /\ last_total = [sent |-> 0, received |-> 0]
      /\ local_counter = [p \in Producer |-> 0]
      /\ total_sent_counter = 0 /\ total_received_counter = 0
  BY DEF Init, ThreadX!Init, Producer, ThreadX!Producer
<1>4. pc = [t \in Task |-> CASE t = Main -> "initialize"
                             [] t \in Producer -> "send"
                             [] t \in Consumer -> "receive"
                             [] t = Reporter -> "sleep"]
  BY DEF Init, Task, Producer, Consumer, Reporter, ThreadX!Init, ThreadX!Task,
     ThreadX!Producer, ThreadX!Consumer, ThreadX!Reporter
<1>5. KernelInv /\ \A t \in Thread : state[t] = "absent"
  BY <1>1, StartedKernel, TaskNames DEF StartedWith
<1>6. /\ \A p \in Producer : pc[p] = "send"
      /\ \A c \in Consumer : pc[c] = "receive"
      /\ pc \in [Task -> Label]
  BY <1>4, TaskNames DEF Label
<1>7. /\ << >> \in Seq(Producer \X Word) /\ << >> \in Seq(Task \X (Producer \X Word))
      /\ << >> \in Seq(Task) /\ Len(<< >>) = 0 /\ 0 \in Word
  BY MaxWordAssumption DEF Word
<1>8. TypeOK
  <2>1. QueueTypeOK(Producer \X Word)
    BY <1>2, <1>7 DEF QueueTypeOK
  <2>2. QED
    BY <1>3, <1>5, <1>6, <1>7, <2>1 DEF TypeOK, KernelInv
<1>9. SendersWait /\ ReceiversWait
  BY <1>2, <1>7 DEF SendersWait, ReceiversWait, Firsts, Elements, OnceFirst, Once
<1>10. TotalsBalance
  <2>1. Takers = {} /\ Holders = {}
    BY <1>6 DEF Takers, Holders
  <2>2. SentTaken = ReceivedGiven
    BY <1>2, <1>3, <1>7, <2>1, FS_EmptySet DEF SentTaken, ReceivedGiven
  <2>3. QED
    BY <1>2, <1>8, <2>2, Counted
<1>11. QED
  BY <1>2, <1>5, <1>8, <1>9, <1>10 DEF TaskInv, QueueFirst

\* A thread that runs waits for nothing, and the queue has been created.
LEMMA TaskRuns ==
    ASSUME TaskInv, NEW t \in Thread, Runs(t)
    PROVE  /\ t \in Task /\ Heads(t) /\ state[t] = "ready" /\ calls # 0
           /\ t \notin Firsts(senders) /\ t \notin Elements(receivers)
<1>1. t \in Task /\ Heads(t) /\ state[t] = "ready"
  BY DEF Runs, Heads, Task
<1>2. QED
  BY <1>1 DEF TaskInv, QueueFirst, SendersWait, ReceiversWait

\* A step that does not touch the queue, the producers or the consumers.
LEMMA TaskOther ==
    ASSUME TaskInv, KernelInv', TypeOK', capacity' \in {0, 1, 8}, QueueFirst',
           UNCHANGED <<queue, senders, receivers, totals>>,
           \A t \in Producer \cup Consumer :
               pc'[t] = pc[t] /\ (state[t] = "blocked" => state'[t] = "blocked")
    PROVE  TaskInv'
<1>1. SendersWait' /\ ReceiversWait'
  BY DEF TaskInv, SendersWait, ReceiversWait
<1>2. Takers' = Takers /\ Holders' = Holders
  BY DEF Takers, Holders
<1>3. TotalsBalance'
  BY <1>2, BalanceSame
<1>4. QED
  BY <1>1, <1>3 DEF TaskInv

LEMMA TaskInitializeInv ==
    ASSUME TaskInv, Initialize \/ ThreadX!Initialize
    PROVE  TaskInv'
<1>1. /\ Heads(Main) /\ calls' = calls + 1
      /\ UNCHANGED <<senders, receivers, queue, buffer, pc>>
      /\ calls # 0 => UNCHANGED capacity
      /\ \/ calls = 0 /\ capacity' \in {1, 8} /\ UNCHANGED kernel
         \/ \E t \in Thread, l \in {1, 5} : calls = 2 * t + 1 /\ AddSuspended(t, l)
         \/ \E t \in Thread : calls = 2 * t + 2 /\ tm_thread_resume(t)
         \/ calls = 15 /\ Block(Main, "done")
  BY TaskCalls
<1>2. UNCHANGED <<local_counter, totals, last_total, open>>
  BY TaskCalls DEF taskvars
<1>3. KernelInv /\ state \in [Task -> State] /\ calls \in 0 .. 15 /\ Main \in Task
  BY <1>1, TaskTypes, TaskNames
<1>4. KernelInv' /\ \A t \in Task : state[t] = "blocked" => state'[t] = "blocked"
  <2>1. CASE UNCHANGED kernel
    BY <1>3, <2>1, SameKernel DEF kernel
  <2>2. ASSUME NEW t \in Thread, NEW l \in {1, 5}, AddSuspended(t, l)
        PROVE  KernelInv' /\ \A u \in Task : state[u] = "blocked" => state'[u] = "blocked"
    <3>1. t \in Task /\ l \in Level
      BY TaskNames
    <3>2. KernelInv'
      BY <1>3, <2>2, <3>1, AddSuspendedKernel
    <3>3. QED
      BY <1>3, <2>2, <3>1, <3>2 DEF AddSuspended
  <2>3. ASSUME NEW t \in Thread, tm_thread_resume(t)
        PROVE  KernelInv' /\ \A u \in Task : state[u] = "blocked" => state'[u] = "blocked"
    <3>1. t \in Task
      BY TaskNames
    <3>2. QED
      BY <1>3, <2>3, <3>1, ResumeKernel
  <2>4. CASE Block(Main, "done")
    <3>1. state[Main] = "ready"
      BY <1>1 DEF Heads
    <3>2. KernelInv'
      BY <1>1, <1>3, <2>4, HeadLeaves DEF State
    <3>3. QED
      BY <1>3, <2>4, <3>1, <3>2 DEF Block
  <2>5. QED
    BY <1>1, <2>1, <2>2, <2>3, <2>4
<1>5. QueueFirst'
  BY <1>1, <1>3 DEF QueueFirst
<1>6. capacity' \in {0, 1, 8} /\ Len(queue') <= capacity'
  <2>1. CASE calls = 0
    <3>1. queue' = << >> /\ Len(<< >>) = 0 /\ capacity' \in {1, 8}
      <4>1. queue = << >>
        BY <2>1 DEF TaskInv, QueueFirst
      <4>2. capacity' \in {1, 8}
        BY <1>1, <2>1, TaskNames
      <4>3. QED
        BY <1>1, <4>1, <4>2
    <3>2. QED
      BY <3>1
  <2>2. CASE calls # 0
    BY <1>1, <2>2, TaskTypes
  <2>3. QED
    BY <2>1, <2>2
<1>7. TypeOK'
  <2>1. calls' \in 0 .. 16
    BY <1>1, <1>3
  <2>2. QED
    BY <1>1, <1>2, <1>4, <1>6, <2>1, TaskTypes, TaskTypesJoin DEF totals
<1>8. QED
  BY <1>1, <1>2, <1>4, <1>5, <1>6, <1>7, TaskOther, TaskNames

LEMMA TaskSleepInv == ASSUME TaskInv, Sleep PROVE TaskInv'
<1>1. /\ Runs(Reporter) /\ Block(Reporter, "asleep")
      /\ pc' = [pc EXCEPT ![Reporter] = "report"]
      /\ UNCHANGED <<capacity, queue, senders, receivers, buffer, calls, local_counter,
                     totals, last_total, open>>
  BY DEF Sleep, tm_thread_sleep, Goto, queues
<1>2. Reporter \in Task /\ Heads(Reporter) /\ state[Reporter] = "ready" /\ calls # 0
  BY <1>1, TaskRuns, TaskNames
<1>3. KernelInv'
  BY <1>1, <1>2, HeadLeaves DEF TaskInv, State
<1>4. \A t \in Producer \cup Consumer :
          pc'[t] = pc[t] /\ (state[t] = "blocked" => state'[t] = "blocked")
  BY <1>1, TaskTypes, TaskNames DEF Block
<1>5. TypeOK'
  <2>1. pc' \in [Task -> Label]
    BY <1>1, <1>2, TaskTypes DEF Label
  <2>2. QED
    BY <1>1, <1>3, <2>1, TaskTypes, TaskTypesJoin DEF totals
<1>6. capacity' \in {0, 1, 8} /\ QueueFirst'
  BY <1>1, <1>2, TaskTypes DEF QueueFirst
<1>7. QED
  BY <1>1, <1>3, <1>4, <1>5, <1>6, TaskOther

LEMMA TaskWakeInv == ASSUME TaskInv, Wake PROVE TaskInv'
<1>1. /\ state[Reporter] = "asleep" /\ MakeReady(Reporter)
      /\ UNCHANGED <<capacity, queue, senders, receivers, buffer, calls, pc,
                     local_counter, totals, last_total, open>>
  BY DEF Wake, TickWakes, queues
<1>2. Reporter \in Task
  BY TaskNames
<1>3. KernelInv'
  BY <1>1, <1>2, MakeReadyKernel DEF TaskInv
<1>4. \A t \in Producer \cup Consumer :
          pc'[t] = pc[t] /\ (state[t] = "blocked" => state'[t] = "blocked")
  BY <1>1, TaskTypes, TaskNames DEF MakeReady
<1>5. TypeOK'
  BY <1>1, <1>3, TaskTypes, TaskTypesJoin DEF totals
<1>6. capacity' \in {0, 1, 8} /\ QueueFirst'
  <2>1. calls # 0
    BY <1>1, TaskNames DEF TaskInv, QueueFirst
  <2>2. QED
    BY <1>1, <2>1, TaskTypes DEF QueueFirst
<1>7. QED
  BY <1>1, <1>3, <1>4, <1>5, <1>6, TaskOther

LEMMA TaskReportInv == ASSUME TaskInv, Report PROVE TaskInv'
<1>1. /\ Runs(Reporter) /\ UNCHANGED kernel
      /\ last_total' = [sent |-> total_sent_counter, received |-> total_received_counter]
      /\ pc' = [pc EXCEPT ![Reporter] = "sleep"]
      /\ UNCHANGED <<capacity, queue, senders, receivers, buffer, calls, local_counter,
                     totals, open>>
  BY DEF Report, Goto, queues
<1>2. Reporter \in Task /\ calls # 0
  BY <1>1, TaskRuns, TaskNames
<1>3. KernelInv'
  BY <1>1, SameKernel DEF TaskInv
<1>4. \A t \in Producer \cup Consumer :
          pc'[t] = pc[t] /\ (state[t] = "blocked" => state'[t] = "blocked")
  BY <1>1, TaskTypes, TaskNames DEF kernel
<1>5. TypeOK'
  <2>1. pc' \in [Task -> Label]
    BY <1>1, <1>2, TaskTypes DEF Label
  <2>2. last_total' \in [sent : Word, received : Word]
    BY <1>1, TaskTypes
  <2>3. QED
    BY <1>1, <1>3, <2>1, <2>2, TaskTypes, TaskTypesJoin DEF totals
<1>6. capacity' \in {0, 1, 8} /\ QueueFirst'
  BY <1>1, <1>2, TaskTypes DEF QueueFirst
<1>7. QED
  BY <1>1, <1>3, <1>4, <1>5, <1>6, TaskOther

LEMMA TaskSentInv ==
    ASSUME MaxWord >= 11, TaskInv, NEW p \in Producer, Sent(p)
    PROVE  TaskInv'
<1>1. /\ Runs(p) /\ pc[p] = "sent" /\ pc' = [pc EXCEPT ![p] = "send"]
      /\ total_sent_counter' = Inc(total_sent_counter)
      /\ local_counter' = [local_counter EXCEPT ![p] = Inc(@)]
      /\ UNCHANGED <<kernel, capacity, queue, senders, receivers, buffer, calls,
                     total_received_counter, last_total, open>>
  BY DEF Sent, Goto, queues
<1>2. p \in Task /\ p \notin Firsts(senders) /\ p \notin Consumer /\ calls # 0
  BY <1>1, TaskRuns, TaskNames
<1>3. KernelInv'
  BY <1>1, SameKernel DEF TaskInv
<1>4. pc'[p] = "send" /\ \A t \in Task : t # p => pc'[t] = pc[t]
  BY <1>1, <1>2, TaskTypes
<1>5. TypeOK' /\ capacity' \in {0, 1, 8}
  <2>1. pc' \in [Task -> Label]
    BY <1>1, TaskTypes DEF Label
  <2>2. local_counter' \in [Producer -> Word] /\ total_sent_counter' \in Word
    BY <1>1, TaskTypes, IncType
  <2>3. QED
    BY <1>1, <1>3, <2>1, <2>2, TaskTypes, TaskTypesJoin
<1>6. QueueFirst'
  BY <1>1, <1>2 DEF QueueFirst
<1>7. SendersWait' /\ ReceiversWait'
  BY <1>1, <1>2, <1>4, TaskNames DEF TaskInv, SendersWait, ReceiversWait, kernel
<1>8. TotalsBalance'
  <2>1. p \in Takers /\ Takers' = Takers \ {p}
    BY <1>1, <1>2, <1>4, TaskNames DEF Takers
  <2>2. Holders' = Holders
    BY <1>1, <1>2, <1>4, TaskNames DEF Holders
  <2>3. QED
    BY <1>1, <1>5, <2>1, <2>2, BalanceSent
<1>9. QED
  BY <1>3, <1>5, <1>6, <1>7, <1>8 DEF TaskInv

LEMMA TaskCheckInv ==
    ASSUME MaxWord >= 11, TaskInv, NEW c \in Consumer, Check(c)
    PROVE  TaskInv'
<1>1. /\ Runs(c) /\ pc[c] = "check" /\ pc' = [pc EXCEPT ![c] = "receive"]
      /\ total_received_counter' = Inc(total_received_counter)
      /\ open' = open \ {buffer[c]}
      /\ UNCHANGED <<kernel, capacity, queue, senders, receivers, buffer, calls,
                     local_counter, total_sent_counter, last_total>>
  BY DEF Check, Goto, queues
<1>2. c \in Task /\ c \notin Elements(receivers) /\ c \notin Producer /\ calls # 0
  BY <1>1, TaskRuns, TaskNames
<1>3. KernelInv'
  BY <1>1, SameKernel DEF TaskInv
<1>4. pc'[c] = "receive" /\ \A t \in Task : t # c => pc'[t] = pc[t]
  BY <1>1, <1>2, TaskTypes
<1>5. TypeOK' /\ capacity' \in {0, 1, 8}
  <2>1. pc' \in [Task -> Label]
    BY <1>1, TaskTypes DEF Label
  <2>2. open' \subseteq Producer \X Word /\ total_received_counter' \in Word
    BY <1>1, TaskTypes, IncType
  <2>3. QED
    BY <1>1, <1>3, <2>1, <2>2, TaskTypes, TaskTypesJoin
<1>6. QueueFirst'
  BY <1>1, <1>2 DEF QueueFirst
<1>7. SendersWait' /\ ReceiversWait'
  BY <1>1, <1>2, <1>4, TaskNames DEF TaskInv, SendersWait, ReceiversWait, kernel
<1>8. TotalsBalance'
  <2>1. c \in Holders /\ Holders' = Holders \ {c}
    BY <1>1, <1>2, <1>4, TaskNames DEF Holders
  <2>2. Takers' = Takers
    BY <1>1, <1>2, <1>4, TaskNames DEF Takers
  <2>3. QED
    BY <1>1, <1>5, <2>1, <2>2, BalanceReceived
<1>9. QED
  BY <1>3, <1>5, <1>6, <1>7, <1>8 DEF TaskInv

\* A message goes into the queue, to a waiting consumer, or its producer waits.
LEMMA TaskSendInv ==
    ASSUME MaxWord >= 11, TaskInv, NEW p \in Producer, Send(p)
    PROVE  TaskInv'
<1> DEFINE M == Producer \X Word
           m == <<p, local_counter[p]>>
<1>1. /\ Runs(p) /\ pc[p] = "send" /\ open' = open \cup {m}
      /\ UNCHANGED <<calls, local_counter, totals, last_total>>
  BY DEF Send
<1>2. /\ p \in Task /\ Heads(p) /\ state[p] = "ready" /\ calls # 0
      /\ p \notin Firsts(senders) /\ p \notin Elements(receivers) /\ p \notin Consumer
  BY <1>1, TaskRuns, TaskNames
<1>3. m \in M /\ open' \subseteq M
  BY <1>1, TaskTypes
<1> HIDE DEF m
<1>4. /\ pc' = [pc EXCEPT ![p] = "sent"] /\ UNCHANGED capacity
      /\ \/ /\ receivers = << >> /\ Len(queue) < capacity /\ queue' = Append(queue, m)
            /\ UNCHANGED <<state, level, ready, senders, receivers, buffer>>
         \/ /\ receivers # << >> /\ MakeReady(Head(receivers))
            /\ receivers' = Tail(receivers)
            /\ buffer' = [buffer EXCEPT ![Head(receivers)] = m]
            /\ UNCHANGED <<queue, senders>>
         \/ /\ Block(p, "blocked") /\ senders' = Append(senders, <<p, m>>)
            /\ UNCHANGED <<queue, receivers, buffer>>
  BY TaskNames DEF Send, tm_queue_send, Deliver, Goto, kernel, m
<1>5. /\ pc'[p] = "sent" /\ (\A t \in Task : t # p => pc'[t] = pc[t])
      /\ pc' \in [Task -> Label]
  BY <1>2, <1>4, TaskTypes DEF Label
<1>6. QueueFirst'
  BY <1>1, <1>2 DEF QueueFirst
<1>7. capacity' \in {0, 1, 8} /\ total_sent_counter' \in Word /\ total_received_counter' \in Word
  BY <1>1, <1>4, TaskTypes DEF totals
<1>8. CASE /\ receivers = << >> /\ Len(queue) < capacity /\ queue' = Append(queue, m)
           /\ UNCHANGED <<state, level, ready, senders, receivers, buffer>>
  <2>1. KernelInv'
    BY <1>8, SameKernel DEF TaskInv, kernel
  <2>2. queue' \in Seq(M) /\ Len(queue') = Len(queue) + 1
    BY <1>3, <1>8, TaskTypes, AppendProperties
  <2>3. TypeOK'
    <3>1. Len(queue') <= capacity'
      BY <1>4, <1>8, <2>2, TaskTypes
    <3>2. QED
      BY <1>1, <1>3, <1>5, <1>7, <1>8, <2>1, <2>2, <3>1, TaskTypes, TaskTypesJoin
  <2>4. SendersWait' /\ ReceiversWait'
    BY <1>2, <1>5, <1>8, TaskNames DEF TaskInv, SendersWait, ReceiversWait
  <2>5. TotalsBalance'
    <3>1. p \notin Takers /\ Takers' = Takers \cup {p}
      BY <1>1, <1>2, <1>5, <1>8, TaskNames DEF Takers
    <3>2. Holders' = Holders
      BY <1>2, <1>5, <1>8, TaskNames DEF Holders
    <3>3. QED
      BY <1>1, <1>7, <2>2, <2>3, <3>1, <3>2, BalanceBoth
  <2>6. QED
    BY <1>6, <1>7, <2>1, <2>3, <2>4, <2>5 DEF TaskInv
<1>9. CASE /\ receivers # << >> /\ MakeReady(Head(receivers))
           /\ receivers' = Tail(receivers)
           /\ buffer' = [buffer EXCEPT ![Head(receivers)] = m]
           /\ UNCHANGED <<queue, senders>>
  <2> DEFINE c == Head(receivers)
  <2>1. /\ c \in Elements(receivers) /\ receivers' \in Seq(Task) /\ Once(receivers')
        /\ Elements(receivers') = Elements(receivers) \ {c}
    BY <1>9, ElementsTail, TaskTypes
  <2>2. c \in Consumer /\ c \in Task /\ state[c] = "blocked" /\ pc[c] = "check" /\ c # p
    BY <1>2, <2>1, TaskNames DEF TaskInv, ReceiversWait
  <2> HIDE DEF c
  <2>3. /\ KernelInv'
        /\ \A t \in Task : t # c => state'[t] = state[t]
    <3>1. MakeReady(c)
      BY <1>9 DEF c
    <3>2. QED
      BY <2>2, <3>1, MakeReadyKernel, TaskTypes DEF MakeReady
  <2>4. TypeOK'
    <3>1. buffer' \in [Task -> M \cup {NoMessage}]
      BY <1>3, <1>9, TaskTypes
    <3>2. Len(queue') <= capacity'
      BY <1>4, <1>9, TaskTypes
    <3>3. QED
      BY <1>1, <1>3, <1>5, <1>7, <1>9, <2>1, <2>3, <3>1, <3>2, TaskTypes, TaskTypesJoin
  <2>5. SendersWait' /\ ReceiversWait'
    <3>1. SendersWait'
      BY <1>2, <1>5, <1>9, <2>2, <2>3, TaskNames DEF TaskInv, SendersWait
    <3>2. ReceiversWait'
      BY <1>2, <1>5, <2>1, <2>3, TaskNames DEF TaskInv, ReceiversWait
    <3>3. QED
      BY <3>1, <3>2
  <2>6. TotalsBalance'
    <3>1. p \notin Takers /\ Takers' = Takers \cup {p}
      BY <1>1, <1>2, <1>5, <1>9, TaskNames DEF Takers
    <3>2. c \notin Holders /\ Holders' = Holders \cup {c}
      BY <1>2, <1>5, <2>1, <2>2, TaskNames DEF Holders
    <3>3. QED
      BY <1>1, <1>7, <1>9, <2>4, <3>1, <3>2, BalanceBoth
  <2>7. QED
    BY <1>6, <1>7, <2>3, <2>4, <2>5, <2>6 DEF TaskInv
<1>10. CASE /\ Block(p, "blocked") /\ senders' = Append(senders, <<p, m>>)
            /\ UNCHANGED <<queue, receivers, buffer>>
  <2>1. /\ senders' \in Seq(Task \X M) /\ OnceFirst(senders')
        /\ Firsts(senders') = Firsts(senders) \cup {p}
    <3>1. senders \in Seq(Task \X M) /\ OnceFirst(senders)
      BY TaskTypes
    <3>2. p \in Task /\ m \in M /\ p \notin Firsts(senders)
      BY <1>2, <1>3
    <3> HIDE DEF M
    <3>3. /\ Append(senders, <<p, m>>) \in Seq(Task \X M)
          /\ Firsts(Append(senders, <<p, m>>)) = Firsts(senders) \cup {p}
          /\ OnceFirst(Append(senders, <<p, m>>))
      BY <3>1, <3>2, FirstsAppend
    <3>4. QED
      BY <1>10, <3>3
  <2>2. KernelInv'
    BY <1>2, <1>10, HeadLeaves DEF TaskInv, State
  <2>3. state'[p] = "blocked" /\ \A t \in Task : t # p => state'[t] = state[t]
    BY <1>2, <1>10, TaskTypes DEF Block
  <2>4. TypeOK'
    <3>1. Len(queue') <= capacity'
      BY <1>4, <1>10, TaskTypes
    <3>2. QED
      BY <1>1, <1>3, <1>5, <1>7, <1>10, <2>1, <2>2, <3>1, TaskTypes, TaskTypesJoin
  <2>5. SendersWait' /\ ReceiversWait'
    <3>1. SendersWait'
      BY <1>5, <2>1, <2>3, TaskNames DEF TaskInv, SendersWait
    <3>2. ReceiversWait'
      BY <1>2, <1>5, <1>10, <2>3, TaskNames DEF TaskInv, ReceiversWait
    <3>3. QED
      BY <3>1, <3>2
  <2>6. TotalsBalance'
    <3>1. Takers' = Takers
      BY <1>1, <1>5, <2>1, TaskNames DEF Takers
    <3>2. Holders' = Holders
      BY <1>2, <1>5, <1>10, TaskNames DEF Holders
    <3>3. QED
      BY <1>1, <1>7, <1>10, <2>4, <3>1, <3>2, BalanceSame
  <2>7. QED
    BY <1>6, <1>7, <2>2, <2>4, <2>5, <2>6 DEF TaskInv
<1>11. QED
  BY <1>4, <1>8, <1>9, <1>10

\* A consumer gets a message, and the first waiting producer its room, or it waits.
LEMMA TaskReceiveInv ==
    ASSUME MaxWord >= 11, TaskInv, NEW c \in Consumer, Receive(c)
    PROVE  TaskInv'
<1> DEFINE M == Producer \X Word
<1>1. /\ Runs(c) /\ pc[c] = "receive"
      /\ UNCHANGED <<calls, local_counter, totals, last_total, open>>
  BY DEF Receive
<1>2. /\ c \in Task /\ Heads(c) /\ state[c] = "ready" /\ calls # 0
      /\ c \notin Firsts(senders) /\ c \notin Elements(receivers) /\ c \notin Producer
  BY <1>1, TaskRuns, TaskNames
<1>3. /\ pc' = [pc EXCEPT ![c] = "check"] /\ UNCHANGED capacity
      /\ \/ /\ queue # << >> /\ senders = << >> /\ queue' = Tail(queue)
            /\ buffer' = [buffer EXCEPT ![c] = Head(queue)]
            /\ UNCHANGED <<state, level, ready, senders, receivers>>
         \/ /\ queue # << >> /\ senders # << >>
            /\ queue' = Tail(queue) \o <<Head(senders)[2]>>
            /\ buffer' = [buffer EXCEPT ![c] = Head(queue)]
            /\ MakeReady(Head(senders)[1]) /\ senders' = Tail(senders)
            /\ UNCHANGED receivers
         \/ /\ Block(c, "blocked") /\ receivers' = Append(receivers, c)
            /\ UNCHANGED <<queue, senders, buffer>>
  BY TaskNames DEF Receive, tm_queue_receive, TakeMessage, Goto, kernel
<1>4. /\ pc'[c] = "check" /\ (\A t \in Task : t # c => pc'[t] = pc[t])
      /\ pc' \in [Task -> Label]
  BY <1>2, <1>3, TaskTypes DEF Label
<1>5. QueueFirst'
  BY <1>1, <1>2 DEF QueueFirst
<1>6. /\ capacity' \in {0, 1, 8}
      /\ total_sent_counter' \in Word /\ total_received_counter' \in Word
  BY <1>1, <1>3, TaskTypes DEF totals
<1>7. queue # << >> =>
          /\ Head(queue) \in M /\ Tail(queue) \in Seq(M)
          /\ Len(queue) > 0 /\ Len(Tail(queue)) = Len(queue) - 1
  BY TaskTypes, HeadTailProperties, EmptySeq
<1>8. CASE /\ queue # << >> /\ senders = << >> /\ queue' = Tail(queue)
           /\ buffer' = [buffer EXCEPT ![c] = Head(queue)]
           /\ UNCHANGED <<state, level, ready, senders, receivers>>
  <2>1. KernelInv'
    BY <1>8, SameKernel DEF TaskInv, kernel
  <2>2. TypeOK'
    <3>1. buffer' \in [Task -> M \cup {NoMessage}]
      BY <1>7, <1>8, TaskTypes
    <3>2. queue' \in Seq(M) /\ Len(queue') <= capacity'
      BY <1>3, <1>7, <1>8, TaskTypes
    <3>3. QED
      BY <1>1, <1>4, <1>6, <1>8, <2>1, <3>1, <3>2, TaskTypes, TaskTypesJoin
  <2>3. SendersWait' /\ ReceiversWait'
    BY <1>2, <1>4, <1>8, TaskNames DEF TaskInv, SendersWait, ReceiversWait
  <2>4. TotalsBalance'
    <3>1. Takers' = Takers
      BY <1>2, <1>4, <1>8, TaskNames DEF Takers
    <3>2. c \notin Holders /\ Holders' = Holders \cup {c}
      BY <1>1, <1>2, <1>4, <1>8, TaskNames DEF Holders
    <3>3. Len(queue') = Len(queue) - 1
      BY <1>7, <1>8
    <3>4. QED
      BY <1>1, <1>6, <2>2, <3>1, <3>2, <3>3, BalanceSame
  <2>5. QED
    BY <1>5, <1>6, <2>1, <2>2, <2>3, <2>4 DEF TaskInv
<1>9. CASE /\ queue # << >> /\ senders # << >>
           /\ queue' = Tail(queue) \o <<Head(senders)[2]>>
           /\ buffer' = [buffer EXCEPT ![c] = Head(queue)]
           /\ MakeReady(Head(senders)[1]) /\ senders' = Tail(senders)
           /\ UNCHANGED receivers
  <2> DEFINE p == Head(senders)[1]
             m == Head(senders)[2]
  <2>1. /\ m \in M /\ p \in Firsts(senders) /\ senders' \in Seq(Task \X M)
        /\ Firsts(senders') = Firsts(senders) \ {p} /\ OnceFirst(senders')
    <3>1. senders \in Seq(Task \X M) /\ OnceFirst(senders) /\ senders # << >>
      BY <1>9, TaskTypes
    <3> HIDE DEF M
    <3>2. /\ Head(senders) \in Task \X M /\ Head(senders)[1] \in Firsts(senders)
          /\ Tail(senders) \in Seq(Task \X M)
          /\ Firsts(Tail(senders)) = Firsts(senders) \ {Head(senders)[1]}
          /\ OnceFirst(Tail(senders))
      BY <3>1, FirstsTail
    <3>3. QED
      BY <1>9, <3>2
  <2>2. p \in Producer /\ p \in Task /\ state[p] = "blocked" /\ pc[p] = "sent" /\ c # p
    BY <1>2, <2>1, TaskNames DEF TaskInv, SendersWait
  <2>3. queue' \in Seq(M) /\ Len(queue') = Len(queue)
    <3>1. queue' = Append(Tail(queue), m)
      BY <1>7, <1>9, <2>1
    <3>2. QED
      BY <1>7, <1>9, <2>1, <3>1, TaskTypes, AppendProperties
  <2>4. /\ KernelInv'
        /\ \A t \in Task : t # p => state'[t] = state[t]
    BY <1>9, <2>2, MakeReadyKernel, TaskTypes DEF MakeReady
  <2> HIDE DEF p, m
  <2>5. TypeOK'
    <3>1. buffer' \in [Task -> M \cup {NoMessage}]
      BY <1>7, <1>9, TaskTypes
    <3>2. Len(queue') <= capacity'
      BY <1>3, <2>3, TaskTypes
    <3>3. QED
      BY <1>1, <1>4, <1>6, <1>9, <2>1, <2>3, <2>4, <3>1, <3>2, TaskTypes, TaskTypesJoin
  <2>6. SendersWait'
    BY <1>2, <1>4, <2>1, <2>2, <2>4, TaskNames DEF TaskInv, SendersWait
  <2>7. ReceiversWait'
    BY <1>2, <1>4, <1>9, <2>2, <2>4, TaskNames DEF TaskInv, ReceiversWait
  <2>8. TotalsBalance'
    <3>1. p \notin Takers /\ Takers' = Takers \cup {p}
      BY <1>2, <1>4, <2>1, <2>2, TaskNames DEF Takers
    <3>2. c \notin Holders /\ Holders' = Holders \cup {c}
      BY <1>1, <1>2, <1>4, <1>9, TaskNames DEF Holders
    <3>3. QED
      BY <1>1, <1>6, <2>3, <2>5, <3>1, <3>2, BalanceBoth
  <2>9. QED
    BY <1>5, <1>6, <2>4, <2>5, <2>6, <2>7, <2>8 DEF TaskInv
<1>10. CASE /\ Block(c, "blocked") /\ receivers' = Append(receivers, c)
            /\ UNCHANGED <<queue, senders, buffer>>
  <2>1. /\ receivers' \in Seq(Task) /\ Once(receivers')
        /\ Elements(receivers') = Elements(receivers) \cup {c}
    <3>1. /\ Append(receivers, c) \in Seq(Task)
          /\ Elements(Append(receivers, c)) = Elements(receivers) \cup {c}
          /\ Once(Append(receivers, c))
      BY <1>2, ElementsAppend, TaskTypes
    <3>2. QED
      BY <1>10, <3>1
  <2>2. KernelInv'
    BY <1>2, <1>10, HeadLeaves DEF TaskInv, State
  <2>3. state'[c] = "blocked" /\ \A t \in Task : t # c => state'[t] = state[t]
    BY <1>2, <1>10, TaskTypes DEF Block
  <2>4. TypeOK'
    <3>1. Len(queue') <= capacity'
      BY <1>3, <1>10, TaskTypes
    <3>2. QED
      BY <1>1, <1>4, <1>6, <1>10, <2>1, <2>2, <3>1, TaskTypes, TaskTypesJoin
  <2>5. SendersWait'
    BY <1>2, <1>4, <1>10, <2>3, TaskNames DEF TaskInv, SendersWait
  <2>6. ReceiversWait'
    BY <1>4, <2>1, <2>3, TaskNames DEF TaskInv, ReceiversWait
  <2>7. TotalsBalance'
    <3>1. Takers' = Takers
      BY <1>2, <1>4, <1>10, TaskNames DEF Takers
    <3>2. Holders' = Holders
      BY <1>1, <1>4, <2>1, TaskNames DEF Holders
    <3>3. QED
      BY <1>1, <1>6, <1>10, <2>4, <3>1, <3>2, BalanceSame
  <2>8. QED
    BY <1>5, <1>6, <2>2, <2>4, <2>5, <2>6, <2>7 DEF TaskInv
<1>11. QED
  BY <1>3, <1>8, <1>9, <1>10

-----------------------------------------------------------------------------
(* Interrupt to task.                                                      *)

\* The messages the handler has sent: those of the iterations before i, or of
\* i as well.
Unsent == isr_message_counter = i
SentOff == isr_message_counter = i + 1

\* Nothing is on its way.
Idle == ~pending /\ queue = << >> /\ receivers = << >>

\* Iteration i from its start to its end.
ToRaise == pc = "raise" /\ Unsent /\ Idle

\* The thread is before its receive, or waits in it.
Raised ==
    /\ pending /\ Unsent /\ queue = << >>
    /\ \/ pc = "receive" /\ receivers = << >>
       \/ /\ receivers = <<0>> /\ state[0] = "blocked"
          /\ pc = IF port = "FreeRTOS" THEN "receive" ELSE "end"

Queued == pc = "receive" /\ SentOff /\ ~pending /\ queue = <<i>> /\ receivers = << >>

Received == pc \in {"end", "check"} /\ SentOff /\ Idle /\ buffer[0] = i

Finished == pc \in {"report", "stopped"} /\ Unsent /\ Idle /\ i = IterationCount

MessageIs ==
    \/ i < IterationCount /\ (ToRaise \/ Raised \/ Queued \/ Received)
    \/ Finished

\* The queue and the thread are created before they are used.
IsrFirst ==
    /\ calls = 0 => state[0] = "absent" /\ queue = << >>
    /\ calls > 0 => capacity \in {1, 8, 10}
    /\ state[0] = "absent" => pc = "raise"

\* How far the log is; on Zephyr the handler's start belongs to iteration i.
IsrLog ==
    IF port = "Zephyr"
    THEN /\ logIndex = IF pc = "check" THEN i + 1 ELSE i
         /\ pc \in {"receive", "end"} /\ ~pending => point[i].name = i
    ELSE logIndex = 0

IsrInv ==
    /\ IsrZephyr!TypeOK
    /\ KernelInv
    /\ senders = << >>
    /\ ~refused
    /\ IsrFirst
    /\ MessageIs
    /\ IsrLog
    /\ IsrZephyr!MeasurementsMatch

LEMMA IsrNames ==
    /\ Thread = 0 .. 6 /\ Main \notin 0 .. 6 /\ 0 \in Task /\ Main \in Task /\ 0 # Main
    /\ IterationCount \in Nat /\ IterationCount >= 1 /\ IterationCount <= MaxWord
    /\ MaxLogEntries \in Nat /\ IterationCount <= MaxLogEntries
    /\ NoName \notin Nat
    /\ MaxWord \in Nat /\ MaxPriorities \in Nat /\ MaxPriorities > 31
  BY MessagesConfiguration, MainAssumption, MaxPrioritiesAssumption, MaxWordAssumption
  DEF Configuration, IsrZephyr!Configuration, Task

\* The build that is chosen does what it does.
OnPort(freertos, threadx, zephyr) ==
    \/ port = "FreeRTOS" /\ freertos
    \/ port = "ThreadX" /\ threadx
    \/ port = "Zephyr" /\ zephyr

LEMMA IsrTypes ==
    ASSUME IsrInv
    PROVE  /\ state \in [Task -> State] /\ level \in [Task -> Level]
           /\ calls \in 0 .. 4 /\ i \in 0 .. IterationCount
           /\ queue \in Seq(Word) /\ receivers \in Seq(Task)
           /\ capacity \in {0, 1, 8, 10} /\ Len(queue) <= capacity
           /\ buffer \in [Task -> Word \cup {NoMessage}]
           /\ logIndex \in 0 .. MaxLogEntries
           /\ point \in [0 .. MaxLogEntries - 1 -> [name : Nat \cup {NoName},
                                                    ended : Nat \cup {NoName}]]
           /\ pc \in {"raise", "receive", "end", "check", "report", "stopped"}
           /\ tm_isr_counter \in Word /\ isr_message_counter \in Word
           /\ tm_isr_to_task_counter \in Word
<1>1. IsrZephyr!TypeOK
  BY DEF IsrInv
<1>2. KernelTypeOK
  BY DEF IsrInv, KernelInv
<1>3. /\ calls \in 0 .. 4 /\ i \in 0 .. IterationCount
      /\ tm_isr_counter \in Word /\ isr_message_counter \in Word
      /\ tm_isr_to_task_counter \in Word
      /\ pc \in {"raise", "receive", "end", "check", "report", "stopped"}
  BY <1>1 DEF IsrZephyr!TypeOK, IsrZephyr!Word, Word, IsrZephyr!Label
<1>4. /\ queue \in Seq(Word) /\ receivers \in Seq(Task)
      /\ capacity \in {0, 1, 8, 10} /\ Len(queue) <= capacity
      /\ buffer \in [Task -> Word \cup {NoMessage}]
  BY <1>1 DEF IsrZephyr!TypeOK, IsrZephyr!QueueTypeOK, IsrZephyr!Task, Task,
     IsrZephyr!Word, Word
<1>5. /\ logIndex \in 0 .. MaxLogEntries
      /\ point \in [0 .. MaxLogEntries - 1 -> [name : Nat \cup {NoName},
                                               ended : Nat \cup {NoName}]]
  BY <1>1 DEF IsrZephyr!TypeOK, IsrZephyr!PmuTypeOK, IsrZephyr!Entry, IsrZephyr!Name
<1>6. QED
  BY <1>2, <1>3, <1>4, <1>5 DEF KernelTypeOK

LEMMA IsrBooleans ==
    ASSUME IsrInv PROVE pending \in BOOLEAN /\ enabled \in BOOLEAN
  BY DEF IsrInv, IsrZephyr!TypeOK, IsrZephyr!InterruptTypeOK

LEMMA IsrTypesJoin ==
    ASSUME KernelInv', calls' \in 0 .. 4, i' \in 0 .. IterationCount,
           queue' \in Seq(Word), receivers' \in Seq(Task), senders' = << >>,
           capacity' \in {0, 1, 8, 10}, Len(queue') <= capacity',
           buffer' \in [Task -> Word \cup {NoMessage}],
           logIndex' \in 0 .. MaxLogEntries,
           point' \in [0 .. MaxLogEntries - 1 -> [name : Nat \cup {NoName},
                                                  ended : Nat \cup {NoName}]],
           pc' \in {"raise", "receive", "end", "check", "report", "stopped"},
           tm_isr_counter' \in Word, isr_message_counter' \in Word,
           tm_isr_to_task_counter' \in Word,
           pending' \in BOOLEAN, enabled' \in BOOLEAN, ~refused', refused' \in BOOLEAN
    PROVE  IsrZephyr!TypeOK'
<1>1. IsrZephyr!KernelTypeOK'
  BY DEF KernelInv, KernelTypeOK, IsrZephyr!KernelTypeOK, IsrZephyr!Task, Task,
     IsrZephyr!State, State, IsrZephyr!Level, Level
<1>2. IsrZephyr!QueueTypeOK(IsrZephyr!Word)'
  <2>1. << >> \in Seq(Task \X Word)
    OBVIOUS
  <2>2. QED
    BY <2>1 DEF IsrZephyr!QueueTypeOK, IsrZephyr!Task, Task, IsrZephyr!Word, Word
<1>3. IsrZephyr!PmuTypeOK'
  BY DEF IsrZephyr!PmuTypeOK, IsrZephyr!Entry, IsrZephyr!Name
<1>4. IsrZephyr!InterruptTypeOK'
  BY DEF IsrZephyr!InterruptTypeOK
<1>5. QED
  BY <1>1, <1>2, <1>3, <1>4 DEF IsrZephyr!TypeOK, IsrZephyr!Word, Word, IsrZephyr!Label

LEMMA IsrStarted ==
    ASSUME OnPort(IsrFreeRTOS!KernelInit, IsrThreadX!KernelInit, IsrZephyr!KernelInit)
    PROVE  KernelInv /\ state[0] = "absent"
<1>1. 1 \in Level /\ 30 \in Level
  BY MaxPrioritiesAssumption DEF Level
<1>2. PICK l \in {1, 30} : StartedWith(l)
  <2>1. CASE port = "FreeRTOS" /\ IsrFreeRTOS!KernelInit
    BY <2>1 DEF IsrFreeRTOS!KernelInit, IsrFreeRTOS!rtos_main_freertos,
       IsrFreeRTOS!StartedWith, StartedWith, IsrFreeRTOS!Task, Task, IsrFreeRTOS!Level, Level
  <2>2. CASE port = "ThreadX" /\ IsrThreadX!KernelInit
    BY <2>2 DEF IsrThreadX!KernelInit, IsrThreadX!rtos_main_threadx,
       IsrThreadX!StartedWith, StartedWith, IsrThreadX!Task, Task, IsrThreadX!Level, Level
  <2>3. CASE port = "Zephyr" /\ IsrZephyr!KernelInit
    BY <2>3 DEF IsrZephyr!KernelInit, IsrZephyr!rtos_main_zephyr,
       IsrZephyr!StartedWith, StartedWith, IsrZephyr!Task, Task, IsrZephyr!Level, Level
  <2>4. QED
    BY <2>1, <2>2, <2>3 DEF OnPort
<1>3. QED
  BY <1>1, <1>2, StartedKernel, IsrNames DEF StartedWith

LEMMA IsrInit ==
    ASSUME OnPort(IsrFreeRTOS!Init, IsrThreadX!Init, IsrZephyr!Init)
    PROVE  IsrInv
<1>1. OnPort(IsrFreeRTOS!KernelInit, IsrThreadX!KernelInit, IsrZephyr!KernelInit)
  BY DEF OnPort, IsrFreeRTOS!Init, IsrThreadX!Init, IsrZephyr!Init
<1>2. /\ calls = 0 /\ pc = "raise" /\ i = 0 /\ refused = FALSE
      /\ tm_isr_counter = 0 /\ isr_message_counter = 0 /\ tm_isr_to_task_counter = 0
  BY DEF OnPort, IsrFreeRTOS!Init, IsrThreadX!Init, IsrZephyr!Init
<1>3. /\ capacity = 0 /\ queue = << >> /\ senders = << >> /\ receivers = << >>
      /\ buffer = [t \in Task |-> NoMessage]
  BY DEF OnPort, IsrFreeRTOS!Init, IsrThreadX!Init, IsrZephyr!Init,
     IsrFreeRTOS!QueueInit, IsrThreadX!QueueInit, IsrZephyr!QueueInit,
     IsrFreeRTOS!Task, IsrThreadX!Task, IsrZephyr!Task, Task
<1>4. /\ logIndex = 0
      /\ point = [n \in 0 .. MaxLogEntries - 1 |-> [name |-> NoName, ended |-> NoName]]
  BY DEF OnPort, IsrFreeRTOS!Init, IsrThreadX!Init, IsrZephyr!Init,
     IsrFreeRTOS!Clear, IsrThreadX!Clear, IsrZephyr!Clear,
     IsrFreeRTOS!ClearEntry, IsrThreadX!ClearEntry, IsrZephyr!ClearEntry,
     IsrFreeRTOS!Entry, IsrThreadX!Entry, IsrZephyr!Entry
<1>5. pending = FALSE /\ enabled = TRUE
  BY DEF OnPort, IsrFreeRTOS!Init, IsrThreadX!Init, IsrZephyr!Init,
     IsrFreeRTOS!InterruptInit, IsrThreadX!InterruptInit, IsrZephyr!InterruptInit,
     IsrFreeRTOS!freertos_setup_interrupt, IsrThreadX!threadx_setup_interrupt,
     IsrZephyr!zephyr_setup_interrupt
<1>6. KernelInv /\ state[0] = "absent"
  BY <1>1, IsrStarted
<1>7. IsrZephyr!TypeOK
  <2>1. << >> \in Seq(Word) /\ << >> \in Seq(Task) /\ Len(<< >>) = 0
    OBVIOUS
  <2>2. 0 \in Word
    BY MaxWordAssumption DEF Word
  <2>3. IsrZephyr!KernelTypeOK
    BY <1>6 DEF KernelInv, KernelTypeOK, IsrZephyr!KernelTypeOK, IsrZephyr!Task, Task,
       IsrZephyr!State, State, IsrZephyr!Level, Level
  <2>4. IsrZephyr!QueueTypeOK(IsrZephyr!Word)
    BY <1>3, <2>1 DEF IsrZephyr!QueueTypeOK, IsrZephyr!Task, Task, IsrZephyr!Word, Word
  <2>5. IsrZephyr!PmuTypeOK
    BY <1>4, IsrNames DEF IsrZephyr!PmuTypeOK, IsrZephyr!Entry, IsrZephyr!Name
  <2>6. IsrZephyr!InterruptTypeOK
    BY <1>5 DEF IsrZephyr!InterruptTypeOK
  <2>7. refused \in BOOLEAN
    BY <1>2
  <2>8. QED
    BY <1>2, <2>2, <2>3, <2>4, <2>5, <2>6, <2>7, IsrNames
    DEF IsrZephyr!TypeOK, IsrZephyr!Word, Word, IsrZephyr!Label
<1>8. IsrFirst
  BY <1>2, <1>3, <1>6 DEF IsrFirst
<1>9. MessageIs
  BY <1>2, <1>3, <1>5, IsrNames DEF MessageIs, ToRaise, Unsent, Idle
<1>10. IsrLog /\ IsrZephyr!MeasurementsMatch
  BY <1>2, <1>4 DEF IsrLog, IsrZephyr!MeasurementsMatch, IsrZephyr!Entry
<1>11. QED
  BY <1>2, <1>3, <1>6, <1>7, <1>8, <1>9, <1>10 DEF IsrInv

LEMMA IsrHeads ==
    ASSUME NEW t, OnPort(IsrFreeRTOS!Runs(t), IsrThreadX!Runs(t), IsrZephyr!Runs(t))
    PROVE  Heads(t)
  BY DEF OnPort, Heads, IsrFreeRTOS!Runs, IsrThreadX!Runs, IsrZephyr!Runs

\* The calls of the initialisation.
LEMMA IsrCalls ==
    ASSUME OnPort(IsrFreeRTOS!Initialize, IsrThreadX!Initialize, IsrZephyr!Initialize)
    PROVE  /\ Heads(Main) /\ calls' = calls + 1
           /\ UNCHANGED <<senders, receivers, queue, buffer, isrvars, pc>>
           /\ calls # 0 => UNCHANGED capacity
           /\ \/ calls = 0 /\ capacity' \in {1, 8, 10} /\ UNCHANGED kernel
              \/ calls = 1 /\ \E l \in Level : AddReady(0, l) \/ AddSuspended(0, l)
              \/ calls = 2 /\ tm_thread_resume(0)
              \/ calls = 3 /\ Block(Main, "done")
<1>1. /\ OnPort(IsrFreeRTOS!Runs(Main), IsrThreadX!Runs(Main), IsrZephyr!Runs(Main))
      /\ calls' = calls + 1 /\ UNCHANGED <<isrvars, pc>>
  BY DEF OnPort, isrvars, IsrFreeRTOS!Initialize, IsrThreadX!Initialize,
   IsrZephyr!Initialize, IsrFreeRTOS!interrupts, IsrThreadX!interrupts,
   IsrZephyr!interrupts, IsrFreeRTOS!pmu, IsrThreadX!pmu, IsrZephyr!pmu,
   IsrFreeRTOS!counters, IsrThreadX!counters, IsrZephyr!counters
<1>2. Heads(Main)
  BY <1>1, IsrHeads
<1>3. CASE calls = 0
  <2>1. /\ capacity' \in {1, 8, 10} /\ UNCHANGED <<queue, senders, receivers, buffer>>
        /\ UNCHANGED kernel
    BY <1>3
    DEF OnPort, kernel, IsrFreeRTOS!freertos_queue_create,
     IsrThreadX!threadx_queue_create, IsrZephyr!zephyr_queue_create,
     IsrFreeRTOS!Initialize, IsrThreadX!Initialize, IsrZephyr!Initialize,
     IsrFreeRTOS!tm_queue_create, IsrThreadX!tm_queue_create, IsrZephyr!tm_queue_create,
     IsrFreeRTOS!kernel, IsrThreadX!kernel, IsrZephyr!kernel
  <2>2. QED
    BY <1>1, <1>2, <1>3, <2>1
<1>4. CASE calls # 0
  <2>1. UNCHANGED <<capacity, queue, senders, receivers, buffer>>
    BY <1>4
    DEF OnPort, IsrFreeRTOS!Initialize, IsrThreadX!Initialize, IsrZephyr!Initialize,
     IsrFreeRTOS!queues, IsrThreadX!queues, IsrZephyr!queues
  <2>2. CASE calls = 1
    <3>1. 5 \in Level /\ MaxPriorities - 5 + 1 \in Level
      BY IsrNames DEF Level
    <3>2. AddReady(0, MaxPriorities - 5 + 1) \/ AddSuspended(0, 5)
      BY <2>2
      DEF OnPort, AddReady, AddSuspended, IsrFreeRTOS!freertos_thread_create,
       IsrThreadX!threadx_thread_create, IsrZephyr!zephyr_thread_create,
       IsrFreeRTOS!Initialize, IsrThreadX!Initialize, IsrZephyr!Initialize,
       IsrFreeRTOS!tm_thread_create, IsrThreadX!tm_thread_create,
       IsrZephyr!tm_thread_create, IsrFreeRTOS!AddReady, IsrThreadX!AddReady,
       IsrZephyr!AddReady, IsrFreeRTOS!AddSuspended, IsrThreadX!AddSuspended,
       IsrZephyr!AddSuspended
    <3>3. QED
      BY <1>1, <1>2, <2>1, <2>2, <3>1, <3>2
  <2>3. CASE calls = 2
    <3>1. tm_thread_resume(0)
      BY <2>3
      DEF OnPort, tm_thread_resume, MakeReady, kernel, IsrFreeRTOS!Initialize,
       IsrThreadX!Initialize, IsrZephyr!Initialize, IsrFreeRTOS!tm_thread_resume,
       IsrThreadX!tm_thread_resume, IsrZephyr!tm_thread_resume, IsrFreeRTOS!MakeReady,
       IsrThreadX!MakeReady, IsrZephyr!MakeReady, IsrFreeRTOS!kernel, IsrThreadX!kernel,
       IsrZephyr!kernel
    <3>2. QED
      BY <1>1, <1>2, <2>1, <2>3, <3>1
  <2>4. CASE calls = 3
    <3>1. Block(Main, "done")
      BY <2>4
      DEF OnPort, Block, IsrFreeRTOS!Initialize, IsrThreadX!Initialize,
       IsrZephyr!Initialize, IsrFreeRTOS!Return, IsrThreadX!Return, IsrZephyr!Return,
       IsrFreeRTOS!Block, IsrThreadX!Block, IsrZephyr!Block
    <3>2. QED
      BY <1>1, <1>2, <2>1, <2>4, <3>1
  <2>5. calls \in {0, 1, 2, 3}
    BY DEF OnPort, IsrFreeRTOS!Initialize, IsrThreadX!Initialize, IsrZephyr!Initialize
  <2>6. QED
    BY <1>4, <2>2, <2>3, <2>4, <2>5
<1>5. QED
  BY <1>3, <1>4

LEMMA IsrInitializeInv ==
    ASSUME IsrInv, UNCHANGED port,
           OnPort(IsrFreeRTOS!Initialize, IsrThreadX!Initialize, IsrZephyr!Initialize)
    PROVE  IsrInv'
<1>1. /\ Heads(Main) /\ calls' = calls + 1
      /\ UNCHANGED <<senders, receivers, queue, buffer, pc>>
      /\ calls # 0 => UNCHANGED capacity
      /\ \/ calls = 0 /\ capacity' \in {1, 8, 10} /\ UNCHANGED kernel
         \/ calls = 1 /\ \E l \in Level : AddReady(0, l) \/ AddSuspended(0, l)
         \/ calls = 2 /\ tm_thread_resume(0)
         \/ calls = 3 /\ Block(Main, "done")
  BY IsrCalls
<1>2. UNCHANGED <<logIndex, point, i, pending, enabled, tm_isr_counter,
                  isr_message_counter, tm_isr_to_task_counter, refused>>
  BY IsrCalls DEF isrvars
<1>3. calls \in {0, 1, 2, 3}
  BY <1>1
<1>4. KernelInv /\ state \in [Task -> State]
  BY IsrTypes DEF IsrInv
<1>5. /\ KernelInv'
      /\ state[0] = "blocked" => state'[0] = "blocked"
      /\ state'[0] = "absent" => state[0] = "absent"
      /\ calls = 0 => state' = state
  <2>1. CASE calls = 0
    BY <1>1, <1>4, <2>1, SameKernel DEF kernel
  <2>2. CASE calls = 1
    <3>1. PICK l \in Level : AddReady(0, l) \/ AddSuspended(0, l)
      BY <1>1, <2>2
    <3>2. KernelInv'
      BY <1>4, <3>1, IsrNames, AddReadyKernel, AddSuspendedKernel
    <3>3. state[0] = "absent" /\ state'[0] \in {"ready", "suspended"}
      BY <1>4, <3>1, IsrNames DEF AddReady, AddSuspended
    <3>4. QED
      BY <2>2, <3>2, <3>3
  <2>3. CASE calls = 2
    BY <1>1, <1>4, <2>3, IsrNames, ResumeKernel
  <2>4. CASE calls = 3
    <3>1. KernelInv'
      BY <1>1, <1>4, <2>4, IsrNames, HeadLeaves DEF State
    <3>2. state'[0] = state[0]
      BY <1>1, <1>4, <2>4, IsrNames DEF Block
    <3>3. QED
      BY <2>4, <3>1, <3>2
  <2>5. QED
    BY <1>3, <2>1, <2>2, <2>3, <2>4
<1>6. IsrFirst'
  BY <1>1, <1>3, <1>5 DEF IsrInv, IsrFirst
<1>7. IsrZephyr!TypeOK'
  <2>1. pending' \in BOOLEAN /\ enabled' \in BOOLEAN
    BY <1>2, IsrBooleans
  <2>2. ~refused' /\ refused' \in BOOLEAN
    BY <1>2 DEF IsrInv, IsrZephyr!TypeOK
  <2>3. senders' = << >> /\ calls' \in 0 .. 4
    BY <1>1, <1>3 DEF IsrInv
  <2>4. capacity' \in {0, 1, 8, 10} /\ Len(queue') <= capacity'
    <3>1. CASE calls = 0
      BY <1>1, <3>1 DEF IsrInv, IsrFirst
    <3>2. CASE calls # 0
      BY <1>1, <3>2, IsrTypes
    <3>3. QED
      BY <3>1, <3>2
  <2>5. QED
    BY <1>1, <1>2, <1>5, <2>1, <2>2, <2>3, <2>4, IsrTypes, IsrTypesJoin
<1>8. MessageIs'
  BY <1>1, <1>2, <1>5 DEF IsrInv, MessageIs, ToRaise, Raised, Queued, Received, Finished,
     Idle, Unsent, SentOff
<1>9. IsrLog' /\ IsrZephyr!MeasurementsMatch'
  BY <1>1, <1>2 DEF IsrInv, IsrLog, IsrZephyr!MeasurementsMatch, IsrZephyr!Entry
<1>10. senders' = << >> /\ ~refused'
  BY <1>1, <1>2 DEF IsrInv
<1>11. QED
  BY <1>5, <1>6, <1>7, <1>8, <1>9, <1>10 DEF IsrInv

\* A thread that runs has been created, behind the queue.
LEMMA IsrRuns ==
    ASSUME IsrInv, OnPort(IsrFreeRTOS!Runs(0), IsrThreadX!Runs(0), IsrZephyr!Runs(0))
    PROVE  /\ state[0] = "ready" /\ Heads(0)
           /\ calls > 0 /\ capacity \in {1, 8, 10}
<1>1. state[0] = "ready" /\ Heads(0)
  BY IsrHeads DEF Heads
<1>2. QED
  BY <1>1, IsrTypes DEF IsrInv, IsrFirst

LEMMA IsrRaiseInv ==
    ASSUME IsrInv, UNCHANGED port,
           OnPort(IsrFreeRTOS!Raise, IsrThreadX!Raise, IsrZephyr!Raise)
    PROVE  IsrInv'
<1>1. /\ pc = "raise" /\ pc' = "receive"
      /\ OnPort(IsrFreeRTOS!Runs(0), IsrThreadX!Runs(0), IsrZephyr!Runs(0))
      /\ UNCHANGED <<state, level, ready, capacity, queue, senders, receivers, buffer,
                     logIndex, point, calls, i, tm_isr_counter, isr_message_counter,
                     tm_isr_to_task_counter, refused>>
  BY DEF OnPort, IsrFreeRTOS!Raise, IsrThreadX!Raise, IsrZephyr!Raise, IsrFreeRTOS!kernel,
   IsrThreadX!kernel, IsrZephyr!kernel, IsrFreeRTOS!queues, IsrThreadX!queues,
   IsrZephyr!queues, IsrFreeRTOS!pmu, IsrThreadX!pmu, IsrZephyr!pmu,
   IsrFreeRTOS!counters, IsrThreadX!counters, IsrZephyr!counters
<1>2. pending' = TRUE /\ UNCHANGED enabled
  BY DEF OnPort, IsrFreeRTOS!Raise, IsrThreadX!Raise, IsrZephyr!Raise,
   IsrFreeRTOS!tm_interrupt_raise, IsrThreadX!tm_interrupt_raise,
   IsrZephyr!tm_interrupt_raise
<1>3. state[0] = "ready" /\ calls > 0
  BY <1>1, IsrRuns
<1>4. KernelInv'
  BY <1>1, SameKernel DEF IsrInv, kernel
<1>5. senders' = << >> /\ ~refused'
  BY <1>1 DEF IsrInv
<1>6. IsrZephyr!TypeOK'
  <2>1. pending' \in BOOLEAN /\ enabled' \in BOOLEAN
    BY <1>2, IsrBooleans
  <2>2. refused' \in BOOLEAN
    BY <1>1 DEF IsrInv, IsrZephyr!TypeOK
  <2>3. QED
    BY <1>1, <1>4, <1>5, <2>1, <2>2, IsrTypes, IsrTypesJoin
<1>7. IsrFirst'
  BY <1>1, <1>3 DEF IsrInv, IsrFirst
<1>8. MessageIs' /\ ~pending
  <2>1. i < IterationCount /\ ToRaise
    BY <1>1 DEF IsrInv, MessageIs, ToRaise, Raised, Queued, Received, Finished
  <2>2. ~pending
    BY <2>1 DEF ToRaise, Idle
  <2>3. Raised'
    BY <1>1, <1>2, <2>1 DEF ToRaise, Raised, Idle, Unsent
  <2>4. QED
    BY <1>1, <2>1, <2>2, <2>3 DEF MessageIs
<1>9. IsrLog' /\ IsrZephyr!MeasurementsMatch'
  BY <1>1, <1>2 DEF IsrInv, IsrLog, IsrZephyr!MeasurementsMatch, IsrZephyr!Entry
<1>10. QED
  BY <1>4, <1>5, <1>6, <1>7, <1>8, <1>9 DEF IsrInv

LEMMA IsrReceiveInv ==
    ASSUME IsrInv, UNCHANGED port,
           OnPort(IsrFreeRTOS!Receive, IsrThreadX!Receive, IsrZephyr!Receive)
    PROVE  IsrInv'
<1>1. /\ pc = "receive"
      /\ OnPort(IsrFreeRTOS!Runs(0), IsrThreadX!Runs(0), IsrZephyr!Runs(0))
      /\ UNCHANGED <<pending, enabled, logIndex, point, calls, i, tm_isr_counter,
                     isr_message_counter, tm_isr_to_task_counter, refused>>
  BY DEF OnPort, IsrFreeRTOS!Receive, IsrThreadX!Receive, IsrZephyr!Receive,
   IsrFreeRTOS!interrupts, IsrThreadX!interrupts, IsrZephyr!interrupts, IsrFreeRTOS!pmu,
   IsrThreadX!pmu, IsrZephyr!pmu, IsrFreeRTOS!counters, IsrThreadX!counters,
   IsrZephyr!counters
<1>2. /\ state[0] = "ready" /\ Heads(0) /\ calls > 0
      /\ state \in [Task -> State] /\ 0 \in Task
  BY <1>1, IsrRuns, IsrTypes, IsrNames
<1>3. \/ /\ queue # << >> /\ pc' = "end"
         /\ buffer' = [buffer EXCEPT ![0] = Head(queue)] /\ queue' = Tail(queue)
         /\ UNCHANGED <<state, level, ready, receivers, capacity, senders>>
      \/ /\ queue = << >> /\ pc' = IF port = "FreeRTOS" THEN "receive" ELSE "end"
         /\ Block(0, "blocked") /\ receivers' = Append(receivers, 0)
         /\ UNCHANGED <<queue, buffer, capacity, senders>>
  <2>1. senders = << >>
    BY DEF IsrInv
  <2>2. QED
    BY <2>1
    DEF OnPort, Block, IsrFreeRTOS!Receive, IsrThreadX!Receive, IsrZephyr!Receive,
     IsrFreeRTOS!tm_queue_receive, IsrThreadX!tm_queue_receive,
     IsrZephyr!tm_queue_receive, IsrFreeRTOS!TakeMessage, IsrThreadX!TakeMessage,
     IsrZephyr!TakeMessage, IsrFreeRTOS!Block, IsrThreadX!Block, IsrZephyr!Block,
     IsrFreeRTOS!kernel, IsrThreadX!kernel, IsrZephyr!kernel
<1>4. i < IterationCount /\ (Raised \/ Queued)
  BY <1>1 DEF IsrInv, MessageIs, ToRaise, Received, Finished
<1>5. pending \in BOOLEAN /\ enabled \in BOOLEAN /\ refused \in BOOLEAN
  BY IsrBooleans DEF IsrInv, IsrZephyr!TypeOK
<1>6. CASE Queued
  <2>1. queue = <<i>> /\ i \in Word
    BY <1>6, IsrTypes, IsrNames DEF Queued, Word
  <2>2. queue # << >> /\ Head(queue) = i /\ Tail(queue) = << >>
    BY <2>1
  <2>3. /\ pc' = "end" /\ buffer' = [buffer EXCEPT ![0] = i] /\ queue' = << >>
        /\ UNCHANGED <<state, level, ready, receivers, capacity, senders>>
    BY <1>3, <2>2
  <2>4. KernelInv'
    BY <2>3, SameKernel DEF IsrInv, kernel
  <2>5. senders' = << >> /\ ~refused'
    BY <1>1, <2>3 DEF IsrInv
  <2>6. IsrZephyr!TypeOK'
    <3>1. queue' \in Seq(Word) /\ Len(queue') = 0
      BY <2>3
    <3>2. buffer' \in [Task -> Word \cup {NoMessage}]
      BY <1>2, <2>1, <2>3, IsrTypes
    <3>3. pending' \in BOOLEAN /\ enabled' \in BOOLEAN /\ refused' \in BOOLEAN
      BY <1>1, <1>5
    <3>4. QED
      BY <1>1, <2>3, <2>4, <2>5, <3>1, <3>2, <3>3, IsrTypes, IsrTypesJoin
  <2>7. IsrFirst'
    BY <1>1, <1>2, <2>3 DEF IsrInv, IsrFirst
  <2>8. MessageIs'
    <3>1. buffer'[0] = i
      BY <1>2, <2>3, IsrTypes
    <3>2. Received'
      BY <1>1, <1>6, <2>3, <3>1 DEF Queued, Received, Idle, SentOff
    <3>3. QED
      BY <1>1, <1>4, <3>2 DEF MessageIs
  <2>9. IsrLog' /\ IsrZephyr!MeasurementsMatch'
    BY <1>1, <1>6, <2>3
    DEF Queued, IsrInv, IsrLog, IsrZephyr!MeasurementsMatch, IsrZephyr!Entry
  <2>10. QED
    BY <2>4, <2>5, <2>6, <2>7, <2>8, <2>9 DEF IsrInv
<1>7. CASE Raised
  <2>1. pending /\ queue = << >> /\ receivers = << >> /\ Unsent
    BY <1>2, <1>7 DEF Raised
  <2>2. /\ pc' = IF port = "FreeRTOS" THEN "receive" ELSE "end"
        /\ Block(0, "blocked") /\ receivers' = <<0>>
        /\ UNCHANGED <<queue, buffer, capacity, senders>>
    BY <1>3, <2>1
  <2>3. KernelInv' /\ state'[0] = "blocked"
    <3>1. KernelInv'
      BY <1>2, <2>2, HeadLeaves DEF IsrInv, State
    <3>2. state'[0] = "blocked"
      BY <1>2, <2>2 DEF Block
    <3>3. QED
      BY <3>1, <3>2
  <2>4. senders' = << >> /\ ~refused'
    BY <1>1, <2>2 DEF IsrInv
  <2>5. IsrZephyr!TypeOK'
    <3>1. receivers' \in Seq(Task)
      BY <1>2, <2>2
    <3>2. pending' \in BOOLEAN /\ enabled' \in BOOLEAN /\ refused' \in BOOLEAN
      BY <1>1, <1>5
    <3>3. QED
      BY <1>1, <2>2, <2>3, <2>4, <3>1, <3>2, IsrTypes, IsrTypesJoin
  <2>6. IsrFirst'
    BY <1>1, <1>2, <2>2, <2>3 DEF IsrInv, IsrFirst
  <2>7. MessageIs'
    <3>1. Raised'
      BY <1>1, <2>1, <2>2, <2>3 DEF Raised, Unsent
    <3>2. QED
      BY <1>1, <1>4, <3>1 DEF MessageIs
  <2>8. IsrLog' /\ IsrZephyr!MeasurementsMatch'
    BY <1>1, <2>1, <2>2
    DEF IsrInv, IsrLog, IsrZephyr!MeasurementsMatch, IsrZephyr!Entry
  <2>9. QED
    BY <2>3, <2>4, <2>5, <2>6, <2>7, <2>8 DEF IsrInv
<1>8. QED
  BY <1>4, <1>6, <1>7

LEMMA IsrEndInv ==
    ASSUME IsrInv, UNCHANGED port,
           OnPort(IsrFreeRTOS!EndMeasurement, IsrThreadX!EndMeasurement, IsrZephyr!EndMeasurement)
    PROVE  IsrInv'
<1>1. /\ pc = "end" /\ pc' = "check"
      /\ OnPort(IsrFreeRTOS!Runs(0), IsrThreadX!Runs(0), IsrZephyr!Runs(0))
      /\ UNCHANGED <<state, level, ready, capacity, queue, senders, receivers, buffer,
                     pending, enabled, calls, i, tm_isr_counter, isr_message_counter,
                     tm_isr_to_task_counter, refused>>
  BY DEF OnPort, IsrFreeRTOS!EndMeasurement, IsrThreadX!EndMeasurement,
   IsrZephyr!EndMeasurement, IsrFreeRTOS!kernel, IsrThreadX!kernel, IsrZephyr!kernel,
   IsrFreeRTOS!queues, IsrThreadX!queues, IsrZephyr!queues, IsrFreeRTOS!interrupts,
   IsrThreadX!interrupts, IsrZephyr!interrupts, IsrFreeRTOS!counters,
   IsrThreadX!counters, IsrZephyr!counters
<1>2. IF port = "Zephyr" /\ logIndex \in 0 .. MaxLogEntries - 1
      THEN /\ point' = [point EXCEPT ![logIndex].ended = i]
           /\ logIndex' = logIndex + 1
      ELSE UNCHANGED <<logIndex, point>>
  BY DEF OnPort, IsrZephyr!tm_pmu_profile_end, IsrZephyr!Entry, IsrFreeRTOS!EndMeasurement,
   IsrThreadX!EndMeasurement, IsrZephyr!EndMeasurement, IsrFreeRTOS!pmu, IsrThreadX!pmu,
   IsrZephyr!pmu
<1>3. state[0] = "ready" /\ calls > 0
  BY <1>1, IsrRuns
<1>4. i < IterationCount /\ Received
  BY <1>1, <1>3 DEF IsrInv, MessageIs, ToRaise, Raised, Queued, Finished
<1>5. KernelInv'
  BY <1>1, SameKernel DEF IsrInv, kernel
<1>6. senders' = << >> /\ ~refused'
  BY <1>1 DEF IsrInv
<1>7. MessageIs'
  <2>1. Received'
    BY <1>1, <1>4 DEF Received, Idle, SentOff
  <2>2. QED
    BY <1>1, <1>4, <2>1 DEF MessageIs
<1>8. IsrFirst'
  BY <1>1, <1>3 DEF IsrInv, IsrFirst
<1>9. CASE port = "Zephyr"
  <2>1. logIndex = i /\ point[i].name = i /\ ~pending
    BY <1>1, <1>4, <1>9 DEF IsrInv, IsrLog, Received, Idle
  <2>2. i \in 0 .. MaxLogEntries - 1
    BY <1>4, IsrTypes, IsrNames
  <2>3. point' = [point EXCEPT ![i].ended = i] /\ logIndex' = i + 1
    BY <1>2, <1>9, <2>1, <2>2
  <2>4. IsrLog'
    BY <1>1, <1>9, <2>3 DEF IsrLog
  <2>5. IsrZephyr!MeasurementsMatch'
    <3> SUFFICES ASSUME NEW n \in 0 .. MaxLogEntries - 1, n < i + 1
                 PROVE  point'[n] = [name |-> n, ended |-> n]
      BY <2>3 DEF IsrZephyr!MeasurementsMatch, IsrZephyr!Entry
    <3>1. CASE n = i
      BY <2>1, <2>2, <2>3, <3>1, IsrTypes
    <3>2. CASE n # i
      <4>1. n < logIndex
        BY <2>1, <2>2, <3>2
      <4>2. point[n] = [name |-> n, ended |-> n]
        BY <4>1 DEF IsrInv, IsrZephyr!MeasurementsMatch, IsrZephyr!Entry
      <4>3. QED
        BY <2>2, <2>3, <3>2, <4>2, IsrTypes
    <3>3. QED
      BY <3>1, <3>2
  <2>6. IsrZephyr!TypeOK'
    <3>1. logIndex' \in 0 .. MaxLogEntries
      BY <2>2, <2>3, IsrNames
    <3>2. point' \in [0 .. MaxLogEntries - 1 -> [name : Nat \cup {NoName},
                                                ended : Nat \cup {NoName}]]
      BY <2>2, <2>3, IsrTypes
    <3>3. pending' \in BOOLEAN /\ enabled' \in BOOLEAN /\ refused' \in BOOLEAN
      BY <1>1, IsrBooleans DEF IsrInv, IsrZephyr!TypeOK
    <3>4. QED
      BY <1>1, <1>5, <1>6, <3>1, <3>2, <3>3, IsrTypes, IsrTypesJoin
  <2>7. QED
    BY <1>5, <1>6, <1>7, <1>8, <2>4, <2>5, <2>6 DEF IsrInv
<1>10. CASE port # "Zephyr"
  <2>1. UNCHANGED <<logIndex, point>>
    BY <1>2, <1>10
  <2>2. IsrLog' /\ IsrZephyr!MeasurementsMatch'
    BY <1>1, <1>10, <2>1 DEF IsrInv, IsrLog, IsrZephyr!MeasurementsMatch
  <2>3. IsrZephyr!TypeOK'
    <3>1. pending' \in BOOLEAN /\ enabled' \in BOOLEAN /\ refused' \in BOOLEAN
      BY <1>1, IsrBooleans DEF IsrInv, IsrZephyr!TypeOK
    <3>2. QED
      BY <1>1, <1>5, <1>6, <2>1, <3>1, IsrTypes, IsrTypesJoin
  <2>4. QED
    BY <1>5, <1>6, <1>7, <1>8, <2>2, <2>3 DEF IsrInv
<1>11. QED
  BY <1>9, <1>10

LEMMA IsrCheckInv ==
    ASSUME IsrInv, UNCHANGED port,
           OnPort(IsrFreeRTOS!Check, IsrThreadX!Check, IsrZephyr!Check)
    PROVE  IsrInv'
<1>1. /\ pc = "check" /\ pc' = (IF i' < IterationCount THEN "raise" ELSE "report")
      /\ i' = i + 1 /\ tm_isr_to_task_counter' = Inc(tm_isr_to_task_counter)
      /\ OnPort(IsrFreeRTOS!Runs(0), IsrThreadX!Runs(0), IsrZephyr!Runs(0))
      /\ UNCHANGED <<state, level, ready, capacity, queue, senders, receivers, buffer,
                     pending, enabled, logIndex, point, calls, tm_isr_counter,
                     isr_message_counter, refused>>
  BY DEF OnPort, Inc, IsrFreeRTOS!Check, IsrThreadX!Check, IsrZephyr!Check,
   IsrFreeRTOS!Inc, IsrThreadX!Inc, IsrZephyr!Inc, IsrFreeRTOS!kernel,
   IsrThreadX!kernel, IsrZephyr!kernel, IsrFreeRTOS!queues, IsrThreadX!queues,
   IsrZephyr!queues, IsrFreeRTOS!interrupts, IsrThreadX!interrupts,
   IsrZephyr!interrupts, IsrFreeRTOS!pmu, IsrThreadX!pmu, IsrZephyr!pmu
<1>2. state[0] = "ready" /\ calls > 0
  BY <1>1, IsrRuns
<1>3. i < IterationCount /\ Received
  BY <1>1 DEF IsrInv, MessageIs, ToRaise, Raised, Queued, Finished
<1>4. i' \in 0 .. IterationCount /\ tm_isr_to_task_counter' \in Word
  BY <1>1, <1>3, IsrTypes, IsrNames, IncType
<1>5. KernelInv'
  BY <1>1, SameKernel DEF IsrInv, kernel
<1>6. senders' = << >> /\ ~refused'
  BY <1>1 DEF IsrInv
<1>7. IsrZephyr!TypeOK'
  <2>1. pending' \in BOOLEAN /\ enabled' \in BOOLEAN /\ refused' \in BOOLEAN
    BY <1>1, IsrBooleans DEF IsrInv, IsrZephyr!TypeOK
  <2>2. QED
    BY <1>1, <1>4, <1>5, <1>6, <2>1, IsrTypes, IsrTypesJoin
<1>8. IsrFirst'
  BY <1>1, <1>2 DEF IsrInv, IsrFirst
<1>9. MessageIs'
  <2>1. isr_message_counter' = i' /\ Idle'
    BY <1>1, <1>3 DEF Received, SentOff, Idle
  <2>2. i' < IterationCount \/ i' = IterationCount
    BY <1>4, IsrNames
  <2>3. QED
    BY <1>1, <2>1, <2>2 DEF MessageIs, ToRaise, Finished, Unsent
<1>10. IsrLog' /\ IsrZephyr!MeasurementsMatch'
  BY <1>1 DEF IsrInv, IsrLog, IsrZephyr!MeasurementsMatch, IsrZephyr!Entry
<1>11. QED
  BY <1>5, <1>6, <1>7, <1>8, <1>9, <1>10 DEF IsrInv

LEMMA IsrReportInv ==
    ASSUME IsrInv, UNCHANGED port,
           OnPort(IsrFreeRTOS!Report, IsrThreadX!Report, IsrZephyr!Report)
    PROVE  IsrInv'
<1>1. /\ pc = "report" /\ pc' = "stopped" /\ Block(0, "suspended")
      /\ OnPort(IsrFreeRTOS!Runs(0), IsrThreadX!Runs(0), IsrZephyr!Runs(0))
      /\ UNCHANGED <<capacity, queue, senders, receivers, buffer, pending, enabled,
                     logIndex, point, calls, i, tm_isr_counter, isr_message_counter,
                     tm_isr_to_task_counter, refused>>
  BY DEF OnPort, Block, IsrFreeRTOS!Report, IsrThreadX!Report, IsrZephyr!Report,
   IsrFreeRTOS!tm_thread_suspend, IsrThreadX!tm_thread_suspend,
   IsrZephyr!tm_thread_suspend, IsrFreeRTOS!Block, IsrThreadX!Block, IsrZephyr!Block,
   IsrFreeRTOS!queues, IsrThreadX!queues, IsrZephyr!queues, IsrFreeRTOS!interrupts,
   IsrThreadX!interrupts, IsrZephyr!interrupts, IsrFreeRTOS!pmu, IsrThreadX!pmu,
   IsrZephyr!pmu, IsrFreeRTOS!counters, IsrThreadX!counters, IsrZephyr!counters
<1>2. state[0] = "ready" /\ Heads(0) /\ calls > 0
  BY <1>1, IsrRuns
<1>3. KernelInv' /\ state'[0] = "suspended"
  BY <1>1, <1>2, HeadLeaves, IsrNames, IsrTypes DEF IsrInv, State, Block
<1>4. senders' = << >> /\ ~refused'
  BY <1>1 DEF IsrInv
<1>5. IsrZephyr!TypeOK'
  <2>1. pending' \in BOOLEAN /\ enabled' \in BOOLEAN /\ refused' \in BOOLEAN
    BY <1>1, IsrBooleans DEF IsrInv, IsrZephyr!TypeOK
  <2>2. QED
    BY <1>1, <1>3, <1>4, <2>1, IsrTypes, IsrTypesJoin
<1>6. IsrFirst'
  BY <1>1, <1>2, <1>3 DEF IsrInv, IsrFirst
<1>7. MessageIs'
  <2>1. Finished
    BY <1>1, <1>2 DEF IsrInv, MessageIs, ToRaise, Raised, Queued, Received
  <2>2. QED
    BY <1>1, <2>1 DEF MessageIs, Finished, Unsent, Idle
<1>8. IsrLog' /\ IsrZephyr!MeasurementsMatch'
  BY <1>1 DEF IsrInv, IsrLog, IsrZephyr!MeasurementsMatch, IsrZephyr!Entry
<1>9. QED
  BY <1>3, <1>4, <1>5, <1>6, <1>7, <1>8 DEF IsrInv

\* What the handler sends reaches the thread that waits or the empty queue.
LEMMA IsrHandlerSends ==
    ASSUME IsrInv,
           OnPort(IsrFreeRTOS!tm_isr_message_handler,
                  IsrThreadX!tm_isr_message_handler,
                  IsrZephyr!tm_isr_message_handler)
    PROVE  /\ pending /\ Raised /\ i < IterationCount
           /\ UNCHANGED <<capacity, senders, refused>>
           /\ IF receivers = << >>
              THEN UNCHANGED <<state, level, ready>>
              ELSE MakeReady(0) /\ state[0] = "blocked"
           /\ receivers' = << >>
           /\ IF receivers = << >> \/ port = "FreeRTOS"
              THEN queue' = <<i>> /\ UNCHANGED buffer
              ELSE buffer' = [buffer EXCEPT ![0] = i] /\ UNCHANGED queue
<1>1. pending
  BY DEF OnPort, IsrFreeRTOS!tm_isr_message_handler, IsrThreadX!tm_isr_message_handler,
   IsrZephyr!tm_isr_message_handler, IsrFreeRTOS!tm_interrupt_handler,
   IsrThreadX!tm_interrupt_handler, IsrZephyr!tm_interrupt_handler
<1>2. i < IterationCount /\ Raised
  BY <1>1 DEF IsrInv, MessageIs, ToRaise, Queued, Received, Finished, Idle
<1>3. /\ queue = << >> /\ isr_message_counter = i
      /\ receivers # << >> => receivers = <<0>> /\ state[0] = "blocked"
  BY <1>2 DEF Raised, Unsent
<1>4. capacity \in {1, 8, 10} /\ Len(queue) < capacity
  <2>1. calls > 0
    <3>1. pc # "raise"
      BY <1>2 DEF Raised
    <3>2. QED
      BY <3>1, IsrTypes DEF IsrInv, IsrFirst
  <2>2. QED
    BY <1>3, <2>1 DEF IsrInv, IsrFirst
<1>5. PICK ok \in BOOLEAN :
         /\ OnPort(IsrFreeRTOS!tm_queue_send_from_isr(i, ok),
                   IsrThreadX!tm_queue_send_from_isr(i, ok),
                   IsrZephyr!tm_queue_send_from_isr(i, ok))
         /\ refused' = (refused \/ ~ok)
  BY <1>3
  DEF OnPort, IsrFreeRTOS!tm_isr_message_handler, IsrThreadX!tm_isr_message_handler,
   IsrZephyr!tm_isr_message_handler
<1>6. /\ ok /\ UNCHANGED <<capacity, senders>>
      /\ OnPort(IsrFreeRTOS!Deliver(i), IsrThreadX!Deliver(i), IsrZephyr!Deliver(i))
  BY <1>4, <1>5
  DEF OnPort, IsrFreeRTOS!freertos_queue_send_from_isr,
   IsrThreadX!threadx_queue_send_from_isr, IsrZephyr!threadx_queue_send_from_isr,
   IsrFreeRTOS!tm_queue_send_from_isr, IsrThreadX!tm_queue_send_from_isr,
   IsrZephyr!tm_queue_send_from_isr
<1>7. UNCHANGED refused
  <2>1. refused = FALSE
    BY DEF IsrInv, IsrZephyr!TypeOK
  <2>2. QED
    BY <1>5, <1>6, <2>1
<1>8. CASE receivers = << >>
  <2>1. /\ UNCHANGED <<state, level, ready, receivers, buffer>>
        /\ queue' = Append(queue, i)
    BY <1>6, <1>8
    DEF OnPort, IsrFreeRTOS!Deliver, IsrThreadX!Deliver, IsrZephyr!Deliver,
     IsrFreeRTOS!kernel, IsrThreadX!kernel, IsrZephyr!kernel
  <2>2. queue' = <<i>>
    BY <1>3, <2>1
  <2>3. QED
    BY <1>1, <1>2, <1>6, <1>7, <1>8, <2>1, <2>2
<1>9. CASE receivers # << >>
  <2>1. /\ receivers = <<0>> /\ Head(receivers) = 0 /\ Tail(receivers) = << >>
        /\ state[0] = "blocked"
    <3>1. receivers = <<0>> /\ state[0] = "blocked"
      BY <1>3, <1>9
    <3>2. QED
      BY <3>1
  <2>2. /\ MakeReady(0) /\ receivers' = << >>
        /\ IF port = "FreeRTOS" THEN queue' = Append(queue, i) /\ UNCHANGED buffer
           ELSE buffer' = [buffer EXCEPT ![0] = i] /\ UNCHANGED queue
    BY <1>6, <1>9, <2>1
    DEF OnPort, MakeReady, IsrFreeRTOS!Deliver, IsrThreadX!Deliver, IsrZephyr!Deliver,
     IsrFreeRTOS!MakeReady, IsrThreadX!MakeReady, IsrZephyr!MakeReady
  <2>3. Append(queue, i) = <<i>>
    BY <1>3
  <2>4. QED
    BY <1>1, <1>2, <1>6, <1>7, <1>9, <2>1, <2>2, <2>3
<1>10. QED
  BY <1>8, <1>9

LEMMA IsrHandlerInv ==
    ASSUME IsrInv, UNCHANGED port,
           OnPort(IsrFreeRTOS!tm_isr_message_handler,
                  IsrThreadX!tm_isr_message_handler,
                  IsrZephyr!tm_isr_message_handler)
    PROVE  IsrInv'
<1>1. /\ pending /\ Raised /\ i < IterationCount
      /\ UNCHANGED <<capacity, senders, refused>>
      /\ receivers' = << >>
  BY IsrHandlerSends
<1>2. IF receivers = << >> THEN UNCHANGED <<state, level, ready>>
      ELSE MakeReady(0) /\ state[0] = "blocked"
  BY IsrHandlerSends
<1>3. IF receivers = << >> \/ port = "FreeRTOS"
      THEN queue' = <<i>> /\ UNCHANGED buffer
      ELSE buffer' = [buffer EXCEPT ![0] = i] /\ UNCHANGED queue
  BY IsrHandlerSends
<1>4. /\ tm_isr_counter' = Inc(tm_isr_counter)
      /\ isr_message_counter' = Inc(isr_message_counter)
      /\ UNCHANGED <<calls, pc, i, tm_isr_to_task_counter, logIndex>>
      /\ IF port = "Zephyr" /\ logIndex \in 0 .. MaxLogEntries - 1
         THEN point' = [point EXCEPT ![logIndex].name = isr_message_counter]
         ELSE UNCHANGED point
  BY DEF OnPort, Inc, IsrZephyr!tm_pmu_profile_start, IsrZephyr!Entry,
   IsrFreeRTOS!tm_isr_message_handler, IsrThreadX!tm_isr_message_handler,
   IsrZephyr!tm_isr_message_handler, IsrFreeRTOS!Inc, IsrThreadX!Inc, IsrZephyr!Inc,
   IsrFreeRTOS!pmu, IsrThreadX!pmu, IsrZephyr!pmu
<1>5. pending' = FALSE /\ UNCHANGED enabled
  BY DEF OnPort, IsrFreeRTOS!tm_isr_message_handler, IsrThreadX!tm_isr_message_handler,
   IsrZephyr!tm_isr_message_handler, IsrFreeRTOS!tm_interrupt_handler,
   IsrThreadX!tm_interrupt_handler, IsrZephyr!tm_interrupt_handler
<1>6. /\ queue = << >> /\ isr_message_counter = i /\ calls > 0 /\ pc \in {"receive", "end"}
      /\ pc = "end" => port # "FreeRTOS" /\ receivers # << >>
      /\ receivers # << >> => pc = (IF port = "FreeRTOS" THEN "receive" ELSE "end")
  <2>1. pc # "raise"
    BY <1>1 DEF Raised
  <2>2. calls > 0
    BY <2>1, IsrTypes DEF IsrInv, IsrFirst
  <2>3. QED
    BY <1>1, <2>2 DEF Raised, Unsent
<1>7. i \in Word /\ i \in Nat /\ isr_message_counter' = i + 1 /\ i + 1 \in Word
  BY <1>1, <1>4, <1>6, IsrTypes, IsrNames DEF Inc, Word
<1>8. KernelInv' /\ (state'[0] = "absent" => state[0] = "absent")
  <2>1. CASE receivers = << >>
    BY <1>2, <2>1, SameKernel DEF IsrInv, kernel
  <2>2. CASE receivers # << >>
    <3>1. MakeReady(0) /\ state[0] = "blocked"
      BY <1>2, <2>2
    <3>2. KernelInv'
      BY <3>1, MakeReadyKernel, IsrNames DEF IsrInv
    <3>3. state'[0] = "ready"
      BY <3>1, IsrNames, IsrTypes DEF MakeReady
    <3>4. QED
      BY <3>2, <3>3
  <2>3. QED
    BY <2>1, <2>2
<1>9. senders' = << >> /\ ~refused'
  BY <1>1 DEF IsrInv
<1>10. capacity' = capacity /\ capacity \in {1, 8, 10}
  BY <1>1, <1>6 DEF IsrInv, IsrFirst
<1>11. IsrFirst'
  BY <1>4, <1>6, <1>8, <1>10 DEF IsrInv, IsrFirst
<1>12. MessageIs'
  <2>1. CASE receivers = << >> \/ port = "FreeRTOS"
    <3>1. Queued'
      BY <1>1, <1>3, <1>4, <1>5, <1>6, <1>7, <2>1 DEF Queued, SentOff
    <3>2. QED
      BY <1>1, <1>4, <3>1 DEF MessageIs
  <2>2. CASE receivers # << >> /\ port # "FreeRTOS"
    <3>1. buffer' = [buffer EXCEPT ![0] = i] /\ queue' = << >> /\ pc' = "end"
      BY <1>3, <1>4, <1>6, <2>2
    <3>2. buffer'[0] = i
      BY <3>1, IsrTypes, IsrNames
    <3>3. Received'
      BY <1>1, <1>4, <1>5, <1>7, <3>1, <3>2 DEF Received, Idle, SentOff
    <3>4. QED
      BY <1>1, <1>4, <3>3 DEF MessageIs
  <2>3. QED
    BY <2>1, <2>2
<1>13. /\ point' \in [0 .. MaxLogEntries - 1 -> [name : Nat \cup {NoName},
                                               ended : Nat \cup {NoName}]]
       /\ IsrLog' /\ IsrZephyr!MeasurementsMatch'
  <2>1. CASE port = "Zephyr"
    <3>1. logIndex = i /\ i \in 0 .. MaxLogEntries - 1
      BY <1>1, <1>6, <2>1, IsrTypes, IsrNames DEF IsrInv, IsrLog
    <3>2. point' = [point EXCEPT ![i].name = i]
      BY <1>4, <1>6, <2>1, <3>1
    <3>3. point'[i].name = i /\ \A n \in 0 .. MaxLogEntries - 1 : n < i => point'[n] = point[n]
      BY <3>1, <3>2, IsrTypes
    <3>4. point' \in [0 .. MaxLogEntries - 1 -> [name : Nat \cup {NoName},
                                                ended : Nat \cup {NoName}]]
      BY <1>7, <3>1, <3>2, IsrTypes
    <3>5. IsrLog'
      BY <1>4, <1>6, <2>1, <3>1, <3>3 DEF IsrLog
    <3>6. IsrZephyr!MeasurementsMatch'
      BY <1>4, <3>1, <3>3 DEF IsrInv, IsrZephyr!MeasurementsMatch, IsrZephyr!Entry
    <3>7. QED
      BY <3>4, <3>5, <3>6
  <2>2. CASE port # "Zephyr"
    BY <1>4, <2>2, IsrTypes
    DEF IsrInv, IsrLog, IsrZephyr!MeasurementsMatch, IsrZephyr!Entry
  <2>3. QED
    BY <2>1, <2>2
<1>14. IsrZephyr!TypeOK'
  <2>1. pending' \in BOOLEAN /\ enabled' \in BOOLEAN
    BY <1>5, IsrBooleans
  <2>2. refused' \in BOOLEAN
    BY <1>1 DEF IsrInv, IsrZephyr!TypeOK
  <2>3. queue' \in Seq(Word) /\ Len(queue') <= capacity'
    <3>1. <<i>> \in Seq(Word) /\ Len(<<i>>) = 1
      BY <1>7
    <3>2. queue \in Seq(Word) /\ Len(queue) = 0
      BY <1>6
    <3>3. CASE queue' = <<i>>
      BY <1>10, <3>1, <3>3
    <3>4. CASE UNCHANGED queue
      BY <1>10, <3>2, <3>4
    <3>5. QED
      BY <1>3, <3>3, <3>4
  <2>4. buffer' \in [Task -> Word \cup {NoMessage}]
    BY <1>3, <1>7, IsrTypes, IsrNames
  <2>5. receivers' \in Seq(Task) /\ tm_isr_counter' \in Word
    BY <1>1, <1>4, IsrTypes, IncType
  <2>6. QED
    BY <1>4, <1>7, <1>8, <1>9, <1>10, <1>13, <2>1, <2>2, <2>3, <2>4, <2>5,
       IsrTypes, IsrTypesJoin
<1>15. QED
  BY <1>8, <1>9, <1>11, <1>12, <1>13, <1>14 DEF IsrInv

-----------------------------------------------------------------------------
(* Both benchmarks together.                                               *)

OfTaskInv == test = "task" => TaskInv
OfIsrInv == test = "isr" => IsrInv

LEMMA TaskStep ==
    ASSUME MaxWord >= 11, TaskInv,
           Initialize \/ ThreadX!Initialize \/ Sleep \/ Report \/ ThreadStep \/ Wake
    PROVE  TaskInv'
  BY TaskInitializeInv, TaskSleepInv, TaskReportInv, TaskWakeInv, TaskSendInv, TaskSentInv,
     TaskReceiveInv, TaskCheckInv DEF ThreadStep

LEMMA TaskStutter == ASSUME TaskInv, UNCHANGED mcvars PROVE TaskInv'
<1>1. UNCHANGED <<state, level, ready, capacity, queue, senders, receivers, buffer, calls,
                  pc, local_counter, totals, last_total, open>>
  BY DEF mcvars, vars, kernel, queues
<1>2. KernelInv'
  BY <1>1, SameKernel DEF TaskInv, kernel
<1>3. TypeOK' /\ capacity' \in {0, 1, 8}
  BY <1>1, <1>2, TaskTypes, TaskTypesJoin DEF totals
<1>4. QueueFirst'
  BY <1>1 DEF TaskInv, QueueFirst
<1>5. QED
  BY <1>1, <1>2, <1>3, <1>4, TaskOther

LEMMA IsrStep ==
    ASSUME IsrInv, UNCHANGED port,
           \/ OnPort(IsrFreeRTOS!Initialize, IsrThreadX!Initialize, IsrZephyr!Initialize)
           \/ OnPort(IsrFreeRTOS!ThreadStep, IsrThreadX!ThreadStep, IsrZephyr!ThreadStep)
           \/ OnPort(IsrFreeRTOS!tm_isr_message_handler,
                     IsrThreadX!tm_isr_message_handler,
                     IsrZephyr!tm_isr_message_handler)
    PROVE  IsrInv'
<1>1. CASE OnPort(IsrFreeRTOS!ThreadStep, IsrThreadX!ThreadStep, IsrZephyr!ThreadStep)
  <2>1. \/ OnPort(IsrFreeRTOS!Raise, IsrThreadX!Raise, IsrZephyr!Raise)
        \/ OnPort(IsrFreeRTOS!Receive, IsrThreadX!Receive, IsrZephyr!Receive)
        \/ OnPort(IsrFreeRTOS!EndMeasurement, IsrThreadX!EndMeasurement,
                  IsrZephyr!EndMeasurement)
        \/ OnPort(IsrFreeRTOS!Check, IsrThreadX!Check, IsrZephyr!Check)
        \/ OnPort(IsrFreeRTOS!Report, IsrThreadX!Report, IsrZephyr!Report)
    BY <1>1
    DEF OnPort, IsrFreeRTOS!ThreadStep, IsrThreadX!ThreadStep, IsrZephyr!ThreadStep
  <2>2. QED
    BY <2>1, IsrRaiseInv, IsrReceiveInv, IsrEndInv, IsrCheckInv, IsrReportInv
<1>2. QED
  BY <1>1, IsrInitializeInv, IsrHandlerInv

LEMMA IsrStutter == ASSUME IsrInv, UNCHANGED mcvars PROVE IsrInv'
<1>1. UNCHANGED <<state, level, ready, capacity, queue, senders, receivers, buffer, calls,
                  pc, logIndex, point, i, pending, enabled, tm_isr_counter,
                  isr_message_counter, tm_isr_to_task_counter, refused, port>>
  BY DEF mcvars, vars, isrvars, kernel, queues
<1>2. KernelInv'
  BY <1>1, SameKernel DEF IsrInv, kernel
<1>3. senders' = << >> /\ ~refused'
  BY <1>1 DEF IsrInv
<1>4. IsrZephyr!TypeOK'
  <2>1. pending' \in BOOLEAN /\ enabled' \in BOOLEAN /\ refused' \in BOOLEAN
    BY <1>1, IsrBooleans DEF IsrInv, IsrZephyr!TypeOK
  <2>2. QED
    BY <1>1, <1>2, <1>3, <2>1, IsrTypes, IsrTypesJoin
<1>5. IsrFirst'
  BY <1>1 DEF IsrInv, IsrFirst
<1>6. MessageIs'
  BY <1>1 DEF IsrInv, MessageIs, ToRaise, Raised, Queued, Received, Finished, Idle, Unsent,
     SentOff
<1>7. IsrLog' /\ IsrZephyr!MeasurementsMatch'
  BY <1>1 DEF IsrInv, IsrLog, IsrZephyr!MeasurementsMatch, IsrZephyr!Entry
<1>8. QED
  BY <1>2, <1>3, <1>4, <1>5, <1>6, <1>7 DEF IsrInv

LEMMA MCTaskInv == ASSUME MaxWord >= 11 PROVE MCSpec => []OfTaskInv
<1>1. MCInit => OfTaskInv
  BY TaskInit DEF MCInit, OfTaskInv
<1>2. OfTaskInv /\ [MCNext]_mcvars => OfTaskInv'
  <2> SUFFICES ASSUME OfTaskInv, [MCNext]_mcvars, test' = "task" PROVE TaskInv'
    BY DEF OfTaskInv
  <2>1. test = "task" /\ TaskInv
    <3>1. UNCHANGED test
      BY DEF MCNext, MCMainStep, MCThreadStep, MCWake, MCHandler, OfTask, OfIsr, mcvars
    <3>2. QED
      BY <3>1 DEF OfTaskInv
  <2>2. CASE MCNext
    <3>1. Initialize \/ ThreadX!Initialize \/ Sleep \/ Report \/ ThreadStep \/ Wake
      BY <2>1, <2>2, SameThreadStep, SameReporter
      DEF MCNext, MCMainStep, MCThreadStep, MCWake, MCHandler, OfIsr, MainStep,
       ThreadX!MainStep
    <3>2. QED
      BY <2>1, <3>1, TaskStep
  <2>3. QED
    BY <2>1, <2>2, TaskStutter
<1>3. QED
  BY <1>1, <1>2, PTL DEF MCSpec

LEMMA MCIsrInv == MCSpec => []OfIsrInv
<1>1. MCInit => OfIsrInv
  BY IsrInit DEF MCInit, OfIsrInv, OnPort
<1>2. OfIsrInv /\ [MCNext]_mcvars => OfIsrInv'
  <2> SUFFICES ASSUME OfIsrInv, [MCNext]_mcvars, test' = "isr" PROVE IsrInv'
    BY DEF OfIsrInv
  <2>1. test = "isr" /\ IsrInv /\ UNCHANGED port
    <3>1. UNCHANGED <<test, port>>
      BY DEF MCNext, MCMainStep, MCThreadStep, MCWake, MCHandler, OfTask, OfIsr, mcvars
    <3>2. QED
      BY <3>1 DEF OfIsrInv
  <2>2. CASE MCNext
    <3>1. \/ OnPort(IsrFreeRTOS!Initialize, IsrThreadX!Initialize, IsrZephyr!Initialize)
          \/ OnPort(IsrFreeRTOS!ThreadStep, IsrThreadX!ThreadStep, IsrZephyr!ThreadStep)
          \/ OnPort(IsrFreeRTOS!tm_isr_message_handler,
                    IsrThreadX!tm_isr_message_handler,
                    IsrZephyr!tm_isr_message_handler)
      BY <2>1, <2>2 DEF MCNext, MCMainStep, MCThreadStep, MCWake, MCHandler, OnPort, OfTask
    <3>2. QED
      BY <2>1, <3>1, IsrStep
  <2>3. QED
    BY <2>1, <2>2, IsrStutter
<1>3. QED
  BY <1>1, <1>2, PTL DEF MCSpec

(***************************************************************************)
(* The totals that message_task_test.c prints (lines 238-241) differ by    *)
(* the messages in the queue and in the hands of tasks that have not yet   *)
(* counted, on ThreadX and Zephyr, in every order of the tasks and however *)
(* often the counters wrap.  The word must hold the eleven messages that   *)
(* can be under way, eight in Zephyr's queue and three with the consumers; *)
(* an unsigned long does.                                                  *)
(***************************************************************************)
THEOREM MessagesTotals == ASSUME MaxWord >= 11 PROVE MCSpec => []TotalsAgree
<1>1. OfTaskInv /\ OfIsrInv => TotalsAgree
  BY DEF OfTaskInv, OfIsrInv, TotalsAgree, MCTypeOK, TaskInv, IsrInv
<1>2. QED
  BY <1>1, MCTaskInv, MCIsrInv, PTL

(***************************************************************************)
(* The thread of message_isr_test.c always reads the message of its own    *)
(* iteration (line 147), on the three ports and for every number of        *)
(* iterations that the log and the counters hold.                          *)
(***************************************************************************)
THEOREM MessagesIteration == MCSpec => []MessageOfIteration
<1>1. OfIsrInv => MessageOfIteration
  <2> SUFFICES ASSUME IsrInv PROVE IsrZephyr!MessageOfIteration
    BY DEF OfIsrInv, MessageOfIteration
  <2> QED
    BY DEF IsrZephyr!MessageOfIteration, IsrInv, MessageIs, ToRaise, Raised, Queued, Received,
       Finished, IsrZephyr!Runs
<1>2. QED
  BY <1>1, MCIsrInv, PTL

(***************************************************************************)
(* On Zephyr every measurement of message_isr_test.c is started by the     *)
(* handler (line 113) and ended by the thread (line 138) under the number  *)
(* of its iteration.                                                       *)
(***************************************************************************)
THEOREM MessagesMeasured == MCSpec => []MeasurementsMatch
<1>1. OfIsrInv => MeasurementsMatch
  BY DEF OfIsrInv, MeasurementsMatch, IsrInv
<1>2. QED
  BY <1>1, MCIsrInv, PTL

-----------------------------------------------------------------------------
(* Every message once, thread to thread.                                   *)

Message == Producer \X Word

\* The number of the message p sent last, and how many p has sent since m.
LastSent(p) == IF pc[p] = "sent" THEN local_counter[p] ELSE Minus(local_counter[p], 1)
Age == [m \in Message |-> Minus(LastSent(m[1]), m[2])]

\* The messages not yet given to a consumer, in the order they are given.
InLine(q, s) ==
    [k \in 1 .. Len(q) + Len(s) |-> IF k <= Len(q) THEN q[k] ELSE s[k - Len(q)][2]]
Line == InLine(queue, senders)

(***************************************************************************)
(* The messages in line and those held by consumers are distinct.  A       *)
(* number returns after MaxWord + 1 messages, so it is not enough that a   *)
(* producer numbers its messages: those on their way must also be recent.  *)
(* In line they are, the age is bounded by the place; a consumer may keep  *)
(* an older one while the line behind it is filled.                        *)
(***************************************************************************)
Places(line, held, at, age) ==
    /\ \A k \in 1 .. Len(line) : age[line[k]] <= Len(line) - k
    /\ \A j, k \in 1 .. Len(line) :
           j < k /\ line[j][1] = line[k][1] => age[line[k]] < age[line[j]]
    /\ \A c \in held : at[c] \in Message /\ age[at[c]] <= 11
    /\ \A c \in held : \A k \in 1 .. Len(line) :
           at[c][1] = line[k][1] => age[line[k]] < age[at[c]]
    /\ \A c, d \in held : at[c] = at[d] => c = d

\* They are the messages sent and not yet checked.
Counts(line, held, at, messages) ==
    /\ messages = Elements(line) \cup {at[c] : c \in held}
    /\ IsFiniteSet(messages) /\ IsFiniteSet(held)
    /\ Cardinality(messages) = Len(line) + Cardinality(held)

(* A message m is sent, which makes those of its producer older.           *)

Older(age, aged, m) ==
    /\ aged[m] = 0
    /\ \A x \in Message : x[1] # m[1] => aged[x] = age[x]
    /\ \A x \in Message : x[1] = m[1] /\ age[x] <= 10 => aged[x] = age[x] + 1

\* What was apart stays apart, and apart from m.
Apart(line, held, at, aged, m) ==
    /\ \A k \in 1 .. Len(line) :
           /\ line[k] \in Message /\ line[k] # m
           /\ aged[line[k]] <= Len(line) + 1 - k
           /\ line[k][1] = m[1] => 0 < aged[line[k]]
    /\ \A j, k \in 1 .. Len(line) :
           j < k /\ line[j][1] = line[k][1] => aged[line[k]] < aged[line[j]]
    /\ \A c \in held :
           /\ at[c] \in Message /\ at[c] # m
           /\ aged[at[c]] <= 11
           /\ at[c][1] = m[1] => 0 < aged[at[c]]
    /\ \A c \in held : \A k \in 1 .. Len(line) :
           at[c][1] = line[k][1] => aged[line[k]] < aged[at[c]]

LEMMA LineElements ==
    ASSUME NEW line \in Seq(Message)
    PROVE  Len(line) \in Nat /\ \A k \in 1 .. Len(line) : line[k] \in Message
  BY LenProperties, ElementOfSeq

LEMMA PlacesAged ==
    ASSUME NEW line \in Seq(Message), Len(line) <= 11, NEW held \in SUBSET Consumer, NEW at,
           NEW age \in [Message -> Word], NEW aged \in [Message -> Word], NEW m \in Message,
           Places(line, held, at, age), Older(age, aged, m),
           \A c \in held : at[c][1] = m[1] => age[at[c]] <= 10
    PROVE  Apart(line, held, at, aged, m)
<1>1. Len(line) \in Nat /\ \A k \in 1 .. Len(line) : line[k] \in Message
  BY LineElements
<1>2. \A x \in Message : age[x] \in Nat /\ aged[x] \in Nat
  BY MaxWordAssumption DEF Word
<1>3. \A x \in Message : age[x] <= 10 =>
          aged[x] = IF x[1] = m[1] THEN age[x] + 1 ELSE age[x]
  BY DEF Older
<1>4. \A k \in 1 .. Len(line) : age[line[k]] <= Len(line) - k /\ age[line[k]] <= 10
  BY <1>1, <1>2 DEF Places
<1>5. \A c \in held : at[c] \in Message /\ age[at[c]] <= 11
  BY DEF Places
<1>6. \A c \in held : aged[at[c]] = IF at[c][1] = m[1] THEN age[at[c]] + 1 ELSE age[at[c]]
  BY <1>3, <1>5 DEF Older
<1>7. \A k \in 1 .. Len(line) :
          aged[line[k]] = IF line[k][1] = m[1] THEN age[line[k]] + 1 ELSE age[line[k]]
  BY <1>1, <1>3, <1>4
<1>8. \A k \in 1 .. Len(line) :
          /\ aged[line[k]] <= Len(line) + 1 - k
          /\ line[k][1] = m[1] => 0 < aged[line[k]]
  BY <1>1, <1>2, <1>4, <1>7
<1>9. ASSUME NEW j \in 1 .. Len(line), NEW k \in 1 .. Len(line), j < k,
             line[j][1] = line[k][1]
      PROVE  aged[line[k]] < aged[line[j]]
  <2>1. age[line[k]] < age[line[j]]
    BY <1>9 DEF Places
  <2>2. /\ age[line[j]] \in Nat /\ age[line[k]] \in Nat
        /\ aged[line[j]] = IF line[j][1] = m[1] THEN age[line[j]] + 1 ELSE age[line[j]]
        /\ aged[line[k]] = IF line[k][1] = m[1] THEN age[line[k]] + 1 ELSE age[line[k]]
    BY <1>1, <1>2, <1>7
  <2>3. QED
    BY <1>9, <2>1, <2>2
<1>10. \A c \in held :
           aged[at[c]] <= 11 /\ (at[c][1] = m[1] => 0 < aged[at[c]])
  BY <1>2, <1>5, <1>6
<1>11. ASSUME NEW c \in held, NEW k \in 1 .. Len(line), at[c][1] = line[k][1]
       PROVE  aged[line[k]] < aged[at[c]]
  <2>1. age[line[k]] < age[at[c]]
    BY <1>11 DEF Places
  <2>2. line[k] \in Message /\ at[c] \in Message
    BY <1>1, <1>5
  <2>3. QED
    BY <1>2, <1>6, <1>7, <1>11, <2>1, <2>2
<1>12. aged[m] = 0
  BY DEF Older
<1>13. QED
  BY <1>1, <1>5, <1>8, <1>9, <1>10, <1>11, <1>12 DEF Apart

\* It joins the line.
LEMMA PlacesQueued ==
    ASSUME NEW line \in Seq(Message), Len(line) <= 11, NEW held \in SUBSET Consumer, NEW at,
           NEW age \in [Message -> Word], NEW aged \in [Message -> Word], NEW m \in Message,
           Places(line, held, at, age), Older(age, aged, m),
           \A c \in held : at[c][1] = m[1] => age[at[c]] <= 10
    PROVE  Places(Append(line, m), held, at, aged)
<1> DEFINE longer == Append(line, m)
<1>1. /\ Len(longer) = Len(line) + 1 /\ Len(line) \in Nat
      /\ \A k \in 1 .. Len(line) : longer[k] = line[k]
      /\ longer[Len(line) + 1] = m
  BY AppendProperties, LenProperties
<1>2. 1 .. Len(longer) = 1 .. Len(line) \cup {Len(line) + 1}
  BY <1>1
<1>3. aged[m] = 0 /\ \A x \in Message : aged[x] \in Nat
  BY MaxWordAssumption DEF Older, Word
<1>0. Apart(line, held, at, aged, m)
  BY PlacesAged
<1> HIDE DEF longer
<1>4. \A k \in 1 .. Len(longer) : aged[longer[k]] <= Len(longer) - k
  <2>1. \A k \in 1 .. Len(line) : aged[longer[k]] <= Len(longer) - k
    BY <1>0, <1>1 DEF Apart
  <2>2. aged[longer[Len(line) + 1]] <= Len(longer) - (Len(line) + 1)
    BY <1>1, <1>3
  <2>3. QED
    BY <1>2, <2>1, <2>2
<1>5. \A j, k \in 1 .. Len(longer) :
          j < k /\ longer[j][1] = longer[k][1] => aged[longer[k]] < aged[longer[j]]
  <2> SUFFICES ASSUME NEW j \in 1 .. Len(longer), NEW k \in 1 .. Len(longer), j < k,
                      longer[j][1] = longer[k][1]
               PROVE  aged[longer[k]] < aged[longer[j]]
    OBVIOUS
  <2>1. j \in 1 .. Len(line) /\ longer[j] = line[j]
    BY <1>1, <1>2
  <2>2. CASE k \in 1 .. Len(line)
    BY <1>0, <1>1, <2>1, <2>2 DEF Apart
  <2>3. CASE k = Len(line) + 1
    BY <1>0, <1>1, <1>3, <2>1, <2>3 DEF Apart
  <2>4. QED
    BY <1>2, <2>2, <2>3
<1>6. \A c \in held : at[c] \in Message /\ aged[at[c]] <= 11
  BY <1>0 DEF Apart
<1>7. \A c \in held : \A k \in 1 .. Len(longer) :
          at[c][1] = longer[k][1] => aged[longer[k]] < aged[at[c]]
  <2> SUFFICES ASSUME NEW c \in held, NEW k \in 1 .. Len(longer), at[c][1] = longer[k][1]
               PROVE  aged[longer[k]] < aged[at[c]]
    OBVIOUS
  <2>1. CASE k \in 1 .. Len(line)
    BY <1>0, <1>1, <2>1 DEF Apart
  <2>2. CASE k = Len(line) + 1
    BY <1>0, <1>1, <1>3, <2>2 DEF Apart
  <2>3. QED
    BY <1>2, <2>1, <2>2
<1>8. \A c, d \in held : at[c] = at[d] => c = d
  BY DEF Places
<1>9. QED
  BY <1>4, <1>5, <1>6, <1>7, <1>8 DEF Places, longer

\* It goes to consumer d; nothing is in line then.
LEMMA PlacesHanded ==
    ASSUME NEW held \in SUBSET Consumer, NEW at, NEW given, NEW d \in Consumer \ held,
           NEW age \in [Message -> Word], NEW aged \in [Message -> Word], NEW m \in Message,
           Places(<< >>, held, at, age), Older(age, aged, m),
           \A c \in held : at[c][1] = m[1] => age[at[c]] <= 10,
           given[d] = m, \A c \in held : given[c] = at[c]
    PROVE  Places(<< >>, held \cup {d}, given, aged)
<1>1. << >> \in Seq(Message) /\ Len(<< >>) = 0 /\ Len(<< >>) <= 11
  OBVIOUS
<1>2. aged[m] = 0
  BY DEF Older
<1>3. \A c \in held : at[c] \in Message /\ aged[at[c]] <= 11 /\ at[c] # m
  <2>1. Apart(<< >>, held, at, aged, m)
    BY <1>1, PlacesAged
  <2>2. QED
    BY <2>1 DEF Apart
<1>4. \A c \in held \cup {d} : given[c] \in Message /\ aged[given[c]] <= 11
  BY <1>2, <1>3
<1>5. \A b, c \in held \cup {d} : given[b] = given[c] => b = c
  BY <1>3 DEF Places
<1>6. QED
  BY <1>1, <1>4, <1>5 DEF Places

\* Consumer c takes the first message in line.
LEMMA PlacesTaken ==
    ASSUME NEW line \in Seq(Message), line # << >>, Len(line) <= 11,
           NEW held \in SUBSET Consumer, NEW at, NEW given, NEW c \in Consumer \ held,
           NEW age \in [Message -> Word], Places(line, held, at, age),
           given[c] = Head(line), \A d \in held : given[d] = at[d]
    PROVE  Places(Tail(line), held \cup {c}, given, age)
<1> DEFINE rest == Tail(line)
<1>1. /\ Len(line) \in Nat /\ Len(line) > 0
      /\ \A k \in 1 .. Len(line) : line[k] \in Message
  BY LineElements, EmptySeq
<1>2. /\ Head(line) = line[1] /\ Len(rest) = Len(line) - 1
      /\ \A k \in 1 .. Len(rest) : rest[k] = line[k + 1] /\ k + 1 \in 1 .. Len(line)
  BY <1>1, HeadTailProperties
<1> HIDE DEF rest
<1>3. \A x \in Message : age[x] \in Nat
  BY MaxWordAssumption DEF Word
<1>4. \A k \in 1 .. Len(rest) : age[rest[k]] <= Len(rest) - k
  BY <1>1, <1>2, <1>3 DEF Places
<1>5. \A j, k \in 1 .. Len(rest) :
          j < k /\ rest[j][1] = rest[k][1] => age[rest[k]] < age[rest[j]]
  <2> SUFFICES ASSUME NEW j \in 1 .. Len(rest), NEW k \in 1 .. Len(rest), j < k,
                      rest[j][1] = rest[k][1]
               PROVE  age[rest[k]] < age[rest[j]]
    OBVIOUS
  <2>1. /\ j + 1 \in 1 .. Len(line) /\ k + 1 \in 1 .. Len(line) /\ j + 1 < k + 1
        /\ rest[j] = line[j + 1] /\ rest[k] = line[k + 1]
    BY <1>1, <1>2
  <2>2. QED
    BY <2>1 DEF Places
<1>6. 1 \in 1 .. Len(line) /\ given[c] = line[1] /\ given[c] \in Message
  BY <1>1, <1>2
<1>7. \A d \in held \cup {c} : given[d] \in Message /\ age[given[d]] <= 11
  BY <1>1, <1>3, <1>6 DEF Places
<1>8. \A d \in held \cup {c} : \A k \in 1 .. Len(rest) :
          given[d][1] = rest[k][1] => age[rest[k]] < age[given[d]]
  <2> SUFFICES ASSUME NEW d \in held \cup {c}, NEW k \in 1 .. Len(rest),
                      given[d][1] = rest[k][1]
               PROVE  age[rest[k]] < age[given[d]]
    OBVIOUS
  <2>1. k + 1 \in 1 .. Len(line) /\ rest[k] = line[k + 1] /\ 1 < k + 1
    BY <1>1, <1>2
  <2>2. CASE d = c
    BY <1>6, <2>1, <2>2 DEF Places
  <2>3. CASE d \in held
    BY <2>1, <2>3 DEF Places
  <2>4. QED
    BY <2>2, <2>3
<1>9. \A d \in held : given[d] # given[c]
  <2> SUFFICES ASSUME NEW d \in held, given[d] = given[c] PROVE FALSE
    OBVIOUS
  <2>1. age[line[1]] < age[at[d]] /\ at[d] = line[1]
    BY <1>6 DEF Places
  <2>2. QED
    BY <1>1, <1>3, <1>6, <2>1
<1>10. \A b, d \in held \cup {c} : given[b] = given[d] => b = d
  BY <1>9 DEF Places
<1>11. QED
  BY <1>4, <1>5, <1>7, <1>8, <1>10 DEF Places, rest

\* A consumer has checked its message, or nothing that counts has changed.
LEMMA PlacesFewer ==
    ASSUME NEW line, NEW held, NEW at, NEW kept, NEW age, Places(line, held, at, age),
           NEW fewer \in SUBSET held, \A c \in fewer : kept[c] = at[c]
    PROVE  Places(line, fewer, kept, age)
  BY DEF Places

(* The messages on their way, counted.                                     *)

LEMMA ElementsLonger ==
    ASSUME NEW S, NEW s \in Seq(S), NEW e \in S
    PROVE  Elements(Append(s, e)) = Elements(s) \cup {e} /\ Len(Append(s, e)) = Len(s) + 1
<1> DEFINE longer == Append(s, e)
<1>1. /\ Len(longer) = Len(s) + 1 /\ Len(s) \in Nat
      /\ \A k \in 1 .. Len(s) : longer[k] = s[k]
      /\ longer[Len(s) + 1] = e
  BY AppendProperties, LenProperties
<1> HIDE DEF longer
<1>2. 1 .. Len(longer) = 1 .. Len(s) \cup {Len(s) + 1}
  BY <1>1
<1>3. Elements(longer) = Elements(s) \cup {e}
  BY <1>1, <1>2 DEF Elements
<1>4. QED
  BY <1>1, <1>3 DEF longer

LEMMA ElementsShorter ==
    ASSUME NEW S, NEW s \in Seq(S), s # << >>
    PROVE  /\ Elements(s) = Elements(Tail(s)) \cup {Head(s)} /\ Head(s) \in S
           /\ Len(s) = Len(Tail(s)) + 1 /\ Len(Tail(s)) \in Nat
<1> DEFINE rest == Tail(s)
<1>1. /\ Head(s) = s[1] /\ Head(s) \in S /\ Len(rest) = Len(s) - 1
      /\ Len(s) \in Nat /\ Len(s) > 0
      /\ \A k \in 1 .. Len(s) - 1 : rest[k] = s[k + 1]
  BY HeadTailProperties, EmptySeq, LenProperties, ElementOfSeq
<1> HIDE DEF rest
<1>2. ASSUME NEW k \in 1 .. Len(s), k # 1 PROVE s[k] \in Elements(rest)
  <2>1. k - 1 \in 1 .. Len(rest) /\ k - 1 \in 1 .. Len(s) - 1 /\ (k - 1) + 1 = k
    BY <1>1, <1>2
  <2>2. rest[k - 1] = s[k]
    BY <1>1, <2>1
  <2>3. QED
    BY <2>1, <2>2 DEF Elements
<1>3. ASSUME NEW k \in 1 .. Len(rest) PROVE rest[k] \in Elements(s)
  <2>1. k + 1 \in 1 .. Len(s) /\ rest[k] = s[k + 1]
    BY <1>1, <1>3
  <2>2. QED
    BY <2>1 DEF Elements
<1>4. s[1] \in Elements(s)
  BY <1>1 DEF Elements
<1>5. Elements(s) = Elements(rest) \cup {Head(s)}
  BY <1>1, <1>2, <1>3, <1>4 DEF Elements
<1>6. QED
  BY <1>1, <1>5 DEF rest

LEMMA CountsQueued ==
    ASSUME NEW line \in Seq(Message), NEW held, NEW at, NEW messages, NEW m \in Message,
           Counts(line, held, at, messages), m \notin messages
    PROVE  Counts(Append(line, m), held, at, messages \cup {m})
<1>1. /\ Cardinality(messages \cup {m}) = Cardinality(messages) + 1
      /\ IsFiniteSet(messages \cup {m})
  BY FS_AddElement DEF Counts
<1>2. /\ Elements(Append(line, m)) = Elements(line) \cup {m}
      /\ Len(Append(line, m)) = Len(line) + 1
  BY ElementsLonger
<1>3. Len(line) \in Nat /\ Cardinality(held) \in Nat
  BY LenProperties, FS_CardinalityType DEF Counts
<1>4. Cardinality(messages \cup {m}) = (Len(line) + 1) + Cardinality(held)
  BY <1>1, <1>3 DEF Counts
<1>5. QED
  BY <1>1, <1>2, <1>4 DEF Counts

LEMMA CountsHanded ==
    ASSUME NEW line \in Seq(Message), NEW held, NEW at, NEW given, NEW messages, NEW m, NEW d,
           Counts(line, held, at, messages), m \notin messages, d \notin held,
           given[d] = m, \A c \in held : given[c] = at[c]
    PROVE  Counts(line, held \cup {d}, given, messages \cup {m})
<1>1. /\ Cardinality(messages \cup {m}) = Cardinality(messages) + 1
      /\ IsFiniteSet(messages \cup {m})
      /\ Cardinality(held \cup {d}) = Cardinality(held) + 1
      /\ IsFiniteSet(held \cup {d})
  BY FS_AddElement DEF Counts
<1>2. {given[c] : c \in held \cup {d}} = {at[c] : c \in held} \cup {m}
  OBVIOUS
<1>3. Len(line) \in Nat /\ Cardinality(held) \in Nat
  BY LenProperties, FS_CardinalityType DEF Counts
<1>4. Cardinality(messages \cup {m}) = Len(line) + Cardinality(held \cup {d})
  BY <1>1, <1>3 DEF Counts
<1>5. QED
  BY <1>1, <1>2, <1>4 DEF Counts

LEMMA CountsTaken ==
    ASSUME NEW line \in Seq(Message), line # << >>, NEW held, NEW at, NEW given, NEW messages,
           NEW c, Counts(line, held, at, messages), c \notin held,
           given[c] = Head(line), \A d \in held : given[d] = at[d]
    PROVE  Counts(Tail(line), held \cup {c}, given, messages)
<1>1. Cardinality(held \cup {c}) = Cardinality(held) + 1 /\ IsFiniteSet(held \cup {c})
  BY FS_AddElement DEF Counts
<1>2. {given[d] : d \in held \cup {c}} = {at[d] : d \in held} \cup {Head(line)}
  OBVIOUS
<1>3. /\ Elements(line) = Elements(Tail(line)) \cup {Head(line)}
      /\ Len(line) = Len(Tail(line)) + 1 /\ Len(Tail(line)) \in Nat
  BY ElementsShorter
<1>4. Cardinality(held) \in Nat
  BY FS_CardinalityType DEF Counts
<1>5. Cardinality(messages) = Len(Tail(line)) + Cardinality(held \cup {c})
  BY <1>1, <1>3, <1>4 DEF Counts
<1>6. messages = Elements(Tail(line)) \cup {given[d] : d \in held \cup {c}}
  BY <1>2, <1>3 DEF Counts
<1>7. QED
  BY <1>1, <1>5, <1>6 DEF Counts

\* What consumer c checks is nowhere else.
LEMMA CountsChecked ==
    ASSUME NEW line \in Seq(Message), NEW held, NEW at, NEW messages, NEW c \in held,
           NEW age \in [Message -> Word], Places(line, held, at, age),
           Counts(line, held, at, messages)
    PROVE  Counts(line, held \ {c}, at, messages \ {at[c]})
<1>1. at[c] \in messages
  BY DEF Counts
<1>2. /\ Cardinality(messages \ {at[c]}) = Cardinality(messages) - 1
      /\ IsFiniteSet(messages \ {at[c]})
      /\ Cardinality(held \ {c}) = Cardinality(held) - 1
      /\ IsFiniteSet(held \ {c})
  BY <1>1, FS_RemoveElement DEF Counts
<1>3. Len(line) \in Nat /\ Cardinality(held) \in Nat
  BY LenProperties, FS_CardinalityType DEF Counts
<1>4. at[c] \notin Elements(line)
  <2> SUFFICES ASSUME NEW k \in 1 .. Len(line), line[k] = at[c] PROVE FALSE
    BY DEF Elements
  <2>1. age[line[k]] < age[at[c]] /\ at[c] \in Message
    BY DEF Places
  <2>2. age[at[c]] \in Nat
    BY <2>1, MaxWordAssumption DEF Word
  <2>3. QED
    BY <2>1, <2>2
<1>5. {at[d] : d \in held \ {c}} = {at[d] : d \in held} \ {at[c]}
  BY DEF Places
<1>6. messages \ {at[c]} = Elements(line) \cup {at[d] : d \in held \ {c}}
  BY <1>4, <1>5 DEF Counts
<1>7. Cardinality(messages \ {at[c]}) = Len(line) + Cardinality(held \ {c})
  BY <1>2, <1>3 DEF Counts
<1>8. QED
  BY <1>2, <1>6, <1>7 DEF Counts

LEMMA CountsSame ==
    ASSUME NEW line, NEW held, NEW at, NEW kept, NEW messages,
           Counts(line, held, at, messages), \A c \in held : kept[c] = at[c]
    PROVE  Counts(line, held, kept, messages)
<1>1. {kept[c] : c \in held} = {at[c] : c \in held}
  OBVIOUS
<1>2. QED
  BY <1>1 DEF Counts

(* The line, as the queue and the waiting producers make it.               *)

LEMMA InLineType ==
    ASSUME NEW q \in Seq(Message), NEW s \in Seq(Task \X Message)
    PROVE  /\ InLine(q, s) \in Seq(Message) /\ Len(InLine(q, s)) = Len(q) + Len(s)
           /\ Len(q) \in Nat /\ Len(s) \in Nat
           /\ \A k \in 1 .. Len(q) : InLine(q, s)[k] = q[k]
           /\ \A k \in 1 .. Len(s) : InLine(q, s)[Len(q) + k] = s[k][2]
<1> DEFINE n == Len(q) + Len(s)
<1>1. Len(q) \in Nat /\ Len(s) \in Nat /\ n \in Nat
  BY LenProperties
<1>2. \A k \in 1 .. Len(q) : q[k] \in Message
  BY ElementOfSeq
<1>3. \A k \in 1 .. Len(s) : s[k][2] \in Message
  BY ElementOfSeq
<1>4. \A k \in 1 .. n : (IF k <= Len(q) THEN q[k] ELSE s[k - Len(q)][2]) \in Message
  BY <1>1, <1>2, <1>3
<1>5. InLine(q, s) \in [1 .. n -> Message]
  BY <1>4 DEF InLine
<1>6. InLine(q, s) \in Seq(Message) /\ Len(InLine(q, s)) = n
  BY <1>1, <1>5, SeqDef, LenProperties
<1>7. \A k \in 1 .. Len(q) : InLine(q, s)[k] = q[k]
  BY <1>1 DEF InLine
<1>8. \A k \in 1 .. Len(s) : InLine(q, s)[Len(q) + k] = s[k][2]
  BY <1>1 DEF InLine
<1>9. QED
  BY <1>1, <1>6, <1>7, <1>8

LEMMA InLineSent ==
    ASSUME NEW q \in Seq(Message), NEW m \in Message
    PROVE  InLine(Append(q, m), << >>) = Append(InLine(q, << >>), m)
<1> DEFINE none == << >>
           more == Append(q, m)
           s == InLine(more, none)
           r == Append(InLine(q, none), m)
<1>1. none \in Seq(Task \X Message) /\ Len(none) = 0
  OBVIOUS
<1>2. /\ more \in Seq(Message) /\ Len(more) = Len(q) + 1 /\ Len(q) \in Nat
      /\ \A k \in 1 .. Len(q) : more[k] = q[k]
      /\ more[Len(q) + 1] = m
  BY AppendProperties, LenProperties
<1> HIDE DEF none, more
<1>3. /\ s \in Seq(Message) /\ Len(s) = Len(q) + 1
      /\ \A k \in 1 .. Len(q) + 1 : s[k] = more[k]
  <2>1. /\ s \in Seq(Message) /\ Len(s) = Len(more) + Len(none)
        /\ \A k \in 1 .. Len(more) : s[k] = more[k]
    BY <1>1, <1>2, InLineType, Zenon
  <2>2. QED
    BY <1>1, <1>2, <2>1
<1>4. /\ r \in Seq(Message) /\ Len(r) = Len(q) + 1
      /\ \A k \in 1 .. Len(q) : r[k] = q[k]
      /\ r[Len(q) + 1] = m
  <2>1. /\ InLine(q, none) \in Seq(Message) /\ Len(InLine(q, none)) = Len(q) + Len(none)
        /\ \A k \in 1 .. Len(q) : InLine(q, none)[k] = q[k]
    BY <1>1, InLineType, Zenon
  <2>2. Len(InLine(q, none)) = Len(q)
    BY <1>1, <1>2, <2>1
  <2>3. QED
    BY <2>1, <2>2, AppendProperties
<1> HIDE DEF s, r
<1>5. \A k \in 1 .. Len(q) + 1 : s[k] = r[k]
  BY <1>2, <1>3, <1>4
<1>6. s = r
  BY <1>3, <1>4, <1>5, SeqEqual
<1>7. QED
  BY <1>6 DEF s, r, more, none

LEMMA InLineWaits ==
    ASSUME NEW q \in Seq(Message), NEW w \in Seq(Task \X Message), NEW t \in Task,
           NEW m \in Message
    PROVE  InLine(q, Append(w, <<t, m>>)) = Append(InLine(q, w), m)
<1> DEFINE e == <<t, m>>
           v == Append(w, e)
           s == InLine(q, v)
           r == Append(InLine(q, w), m)
           n == Len(q) + Len(w)
<1>1. e \in Task \X Message /\ e[2] = m
  OBVIOUS
<1> HIDE DEF e
<1>2. /\ v \in Seq(Task \X Message) /\ Len(v) = Len(w) + 1 /\ Len(w) \in Nat /\ Len(q) \in Nat
      /\ \A k \in 1 .. Len(w) : v[k] = w[k]
      /\ v[Len(w) + 1] = e
  BY <1>1, AppendProperties, LenProperties
<1> HIDE DEF v
<1>3. /\ s \in Seq(Message) /\ Len(s) = Len(q) + Len(v)
      /\ \A k \in 1 .. Len(q) : s[k] = q[k]
      /\ \A k \in 1 .. Len(v) : s[Len(q) + k] = v[k][2]
  BY <1>2, InLineType
<1>4. /\ InLine(q, w) \in Seq(Message) /\ Len(InLine(q, w)) = n
      /\ \A k \in 1 .. Len(q) : InLine(q, w)[k] = q[k]
      /\ \A k \in 1 .. Len(w) : InLine(q, w)[Len(q) + k] = w[k][2]
  BY <1>2, InLineType
<1>5. /\ r \in Seq(Message) /\ Len(r) = n + 1
      /\ \A k \in 1 .. n : r[k] = InLine(q, w)[k]
      /\ r[n + 1] = m
  BY <1>4, AppendProperties
<1> HIDE DEF s, r
<1>6. ASSUME NEW k \in 1 .. n + 1 PROVE s[k] = r[k]
  <2>1. CASE k <= Len(q)
    BY <1>2, <1>3, <1>4, <1>5, <2>1
  <2>2. CASE k > Len(q) /\ k <= n
    <3>1. k - Len(q) \in 1 .. Len(w) /\ k - Len(q) \in 1 .. Len(v)
          /\ Len(q) + (k - Len(q)) = k /\ k \in 1 .. n
      BY <1>2, <2>2
    <3>2. s[k] = v[k - Len(q)][2] /\ InLine(q, w)[k] = w[k - Len(q)][2]
      BY <1>3, <1>4, <3>1
    <3>3. QED
      BY <1>2, <1>5, <3>1, <3>2
  <2>3. CASE k = n + 1
    <3>1. Len(w) + 1 \in 1 .. Len(v) /\ Len(q) + (Len(w) + 1) = n + 1
      BY <1>2
    <3>2. s[n + 1] = v[Len(w) + 1][2]
      BY <1>3, <3>1
    <3>3. QED
      BY <1>1, <1>2, <1>5, <2>3, <3>2
  <2>4. QED
    BY <1>2, <2>1, <2>2, <2>3
<1>7. s = r
  BY <1>2, <1>3, <1>5, <1>6, SeqEqual
<1>8. QED
  BY <1>7 DEF s, r, v, e

\* The first leaves the line; what waited for room gets in where it was.
LEMMA InLineFirst ==
    ASSUME NEW q \in Seq(Message), NEW w \in Seq(Task \X Message), q # << >>,
           NEW p \in Seq(Message), NEW v \in Seq(Task \X Message),
           \/ p = Tail(q) /\ w = << >> /\ v = << >>
           \/ w # << >> /\ p = Append(Tail(q), Head(w)[2]) /\ v = Tail(w)
    PROVE  /\ InLine(q, w) # << >> /\ Head(InLine(q, w)) = Head(q)
           /\ InLine(p, v) = Tail(InLine(q, w))
<1> DEFINE s == InLine(q, w)
           r == InLine(p, v)
           n == Len(q) + Len(w)
<1>1. /\ Len(q) \in Nat /\ Len(q) > 0 /\ Len(w) \in Nat
      /\ Head(q) = q[1] /\ Tail(q) \in Seq(Message) /\ Len(Tail(q)) = Len(q) - 1
      /\ \A k \in 1 .. Len(q) - 1 : Tail(q)[k] = q[k + 1]
  BY HeadTailProperties, EmptySeq, LenProperties
<1>2. /\ s \in Seq(Message) /\ Len(s) = n
      /\ \A k \in 1 .. Len(q) : s[k] = q[k]
      /\ \A k \in 1 .. Len(w) : s[Len(q) + k] = w[k][2]
  BY InLineType
<1>3. /\ r \in Seq(Message) /\ Len(r) = Len(p) + Len(v)
      /\ \A k \in 1 .. Len(p) : r[k] = p[k]
      /\ \A k \in 1 .. Len(v) : r[Len(p) + k] = v[k][2]
  BY InLineType
<1> HIDE DEF s, r
<1>4. Len(r) = n - 1 /\ \A k \in 1 .. n - 1 : r[k] = s[k + 1]
  <2>1. CASE p = Tail(q) /\ w = << >> /\ v = << >>
    <3>1. Len(w) = 0 /\ Len(v) = 0
      BY <2>1
    <3>2. Len(r) = n - 1 /\ n = Len(q) /\ Len(p) = n - 1
      BY <1>1, <1>3, <2>1, <3>1
    <3>3. ASSUME NEW k \in 1 .. n - 1 PROVE r[k] = s[k + 1]
      <4>1. k \in 1 .. Len(p) /\ k \in 1 .. Len(q) - 1 /\ k + 1 \in 1 .. Len(q)
        BY <1>1, <3>2
      <4>2. QED
        BY <1>1, <1>2, <1>3, <2>1, <4>1
    <3>4. QED
      BY <3>2, <3>3
  <2>2. CASE w # << >> /\ p = Append(Tail(q), Head(w)[2]) /\ v = Tail(w)
    <3>1. /\ Len(w) > 0 /\ Head(w) = w[1] /\ w[1][2] \in Message /\ Len(v) = Len(w) - 1
          /\ \A k \in 1 .. Len(w) - 1 : v[k] = w[k + 1]
      <4>1. Len(w) > 0 /\ 1 \in 1 .. Len(w)
        <5>1. Len(w) # 0
          BY <2>2, EmptySeq, Zenon
        <5>2. QED
          BY <1>1, <5>1
      <4>2. w[1] \in Task \X Message
        BY <4>1, ElementOfSeq
      <4>3. /\ Head(w) = w[1] /\ Len(v) = Len(w) - 1
            /\ \A k \in 1 .. Len(w) - 1 : v[k] = w[k + 1]
        BY <2>2, <4>1, HeadTailProperties
      <4>4. QED
        BY <4>1, <4>2, <4>3
    <3>2. /\ Len(p) = Len(q)
          /\ \A k \in 1 .. Len(q) - 1 : p[k] = q[k + 1]
          /\ p[Len(q)] = w[1][2]
      <4>1. /\ Len(p) = Len(Tail(q)) + 1
            /\ \A k \in 1 .. Len(Tail(q)) : p[k] = Tail(q)[k]
            /\ p[Len(Tail(q)) + 1] = w[1][2]
        <5>1. p = Append(Tail(q), w[1][2]) /\ w[1][2] \in Message /\ Tail(q) \in Seq(Message)
          BY <1>1, <2>2, <3>1
        <5>2. QED
          BY <5>1, AppendProperties
      <4>2. Len(Tail(q)) + 1 = Len(q)
        BY <1>1
      <4>3. QED
        BY <1>1, <4>1, <4>2
    <3>3. Len(r) = n - 1
      BY <1>1, <1>3, <3>1, <3>2
    <3>4. ASSUME NEW k \in 1 .. n - 1 PROVE r[k] = s[k + 1]
      <4>1. CASE k < Len(q)
        <5>1. k \in 1 .. Len(q) - 1 /\ k + 1 \in 1 .. Len(q) /\ k \in 1 .. Len(p)
          BY <1>1, <3>2, <4>1
        <5>2. QED
          BY <1>2, <1>3, <3>2, <5>1
      <4>2. CASE k = Len(q)
        <5>1. k \in 1 .. Len(p) /\ 1 \in 1 .. Len(w) /\ k + 1 = Len(q) + 1
          BY <1>1, <3>1, <3>2, <4>2
        <5>2. QED
          BY <1>2, <1>3, <3>2, <4>2, <5>1
      <4>3. CASE k > Len(q)
        <5> DEFINE h == k - Len(q)
        <5>1. /\ h \in 1 .. Len(v) /\ h \in 1 .. Len(w) - 1 /\ h + 1 \in 1 .. Len(w)
              /\ Len(p) + h = k /\ Len(q) + (h + 1) = k + 1
          BY <1>1, <3>1, <3>2, <4>3
        <5> HIDE DEF h
        <5>2. r[k] = v[h][2] /\ s[k + 1] = w[h + 1][2]
          BY <1>2, <1>3, <5>1
        <5>3. QED
          BY <3>1, <5>1, <5>2
      <4>4. QED
        BY <1>1, <4>1, <4>2, <4>3
    <3>5. QED
      BY <3>3, <3>4
  <2>3. QED
    BY <2>1, <2>2
<1>5. s # << >> /\ Head(s) = Head(q)
  <2>1. n \in Nat /\ n > 0
    BY <1>1
  <2>2. s # << >> /\ Head(s) = s[1] /\ 1 \in 1 .. Len(q)
    BY <1>1, <1>2, <2>1, EmptySeq, HeadTailProperties
  <2>3. QED
    BY <1>1, <1>2, <2>2
<1>6. /\ Tail(s) \in Seq(Message) /\ Len(Tail(s)) = n - 1
      /\ \A k \in 1 .. n - 1 : Tail(s)[k] = s[k + 1]
  BY <1>2, <1>5, HeadTailProperties
<1>7. r = Tail(s)
  BY <1>3, <1>4, <1>6, SeqEqual
<1>8. QED
  BY <1>5, <1>7 DEF s, r

(* The ages.                                                               *)

LEMMA AgeArithmetic ==
    ASSUME MaxWord >= 11, NEW x \in Word, NEW y \in Word
    PROVE  /\ Minus(x, 1) \in Word /\ Minus(x, y) \in Word
           /\ Minus(Inc(x), 1) = x
           /\ Minus(Minus(x, 1), y) <= 10 => Minus(x, y) = Minus(Minus(x, 1), y) + 1
  BY MaxWordAssumption DEF Minus, Inc, Word

LEMMA AgeTypes ==
    MaxWord >= 11 /\ TaskInv =>
        Age \in [Message -> Word] /\ \A p \in Producer : LastSent(p) \in Word
<1> SUFFICES ASSUME MaxWord >= 11, TaskInv
             PROVE  Age \in [Message -> Word] /\ \A p \in Producer : LastSent(p) \in Word
  OBVIOUS
<1>1. \A p \in Producer : LastSent(p) \in Word
  BY TaskTypes, AgeArithmetic DEF LastSent
<1>2. QED
  BY <1>1, AgeArithmetic DEF Age, Message

LEMMA AgeTypesNext == ASSUME MaxWord >= 11, TaskInv' PROVE Age' \in [Message -> Word]
<1>1. (MaxWord >= 11 /\ TaskInv =>
        Age \in [Message -> Word] /\ \A p \in Producer : LastSent(p) \in Word)'
  BY AgeTypes, PTL
<1>2. QED
  BY <1>1

\* Nobody has sent anything.
LEMMA AgeSame ==
    ASSUME \A p \in Producer : LastSent(p)' = LastSent(p)
    PROVE  Age' = Age
  BY DEF Age, Message

\* Producer p has.
LEMMA AgeSent ==
    ASSUME MaxWord >= 11, TaskInv, NEW p \in Producer, pc[p] = "send",
           pc' = [pc EXCEPT ![p] = "sent"], UNCHANGED local_counter
    PROVE  /\ <<p, local_counter[p]>> \in Message
           /\ Older(Age, Age', <<p, local_counter[p]>>)
<1> DEFINE m == <<p, local_counter[p]>>
<1>1. /\ local_counter[p] \in Word /\ p \in Task
      /\ \A t \in Producer : t \in Task
      /\ pc \in [Task -> Label]
  BY TaskTypes, TaskNames
<1>2. m \in Message /\ m[1] = p /\ m[2] = local_counter[p]
  BY <1>1 DEF Message
<1>3. LastSent(p) = Minus(local_counter[p], 1) /\ LastSent(p)' = local_counter[p]
  BY <1>1 DEF LastSent
<1>4. \A t \in Producer : t # p => LastSent(t)' = LastSent(t)
  BY <1>1 DEF LastSent
<1> HIDE DEF m
<1>5. \A x \in Message :
          /\ Age[x] = Minus(LastSent(x[1]), x[2]) /\ Age'[x] = Minus(LastSent(x[1])', x[2])
          /\ x[1] \in Producer /\ x[2] \in Word
  BY DEF Age, Message
<1>6. Age'[m] = 0
  BY <1>1, <1>2, <1>3, <1>5, MinusItself
<1>7. \A x \in Message : x[1] # m[1] => Age'[x] = Age[x]
  BY <1>2, <1>4, <1>5
<1>8. ASSUME NEW x \in Message, x[1] = m[1], Age[x] <= 10
      PROVE  Age'[x] = Age[x] + 1
  <2>1. /\ x[2] \in Word /\ Age[x] = Minus(Minus(local_counter[p], 1), x[2])
        /\ Age'[x] = Minus(local_counter[p], x[2])
    BY <1>2, <1>3, <1>5, <1>8
  <2>2. QED
    BY <1>1, <1>8, <2>1, AgeArithmetic
<1>9. Older(Age, Age', m)
  BY <1>6, <1>7, <1>8 DEF Older
<1>10. QED
  BY <1>2, <1>9 DEF m

(* Who runs before whom.                                                   *)

\* A consumer with a message gets to check it before the producer of the
\* message gets to send more: only the producer that runs may be before it.
Before(list, held, at) ==
    \A c \in held : \A h, j \in 1 .. Len(list) :
        h # 1 /\ list[h] = at[c][1] /\ list[j] = c => j < h

LEMMA BeforeLater ==
    ASSUME NEW list \in Seq(Task), NEW held \in SUBSET Consumer, NEW at,
           \A c \in held : at[c] \in Message, Before(list, held, at),
           NEW t \in Task \ held
    PROVE  Before(Append(list, t), held, at)
<1> DEFINE longer == Append(list, t)
<1>1. /\ Len(longer) = Len(list) + 1 /\ Len(list) \in Nat
      /\ \A k \in 1 .. Len(list) : longer[k] = list[k]
      /\ longer[Len(list) + 1] = t
  BY AppendElements, LenProperties
<1> HIDE DEF longer
<1>2. 1 .. Len(longer) = 1 .. Len(list) \cup {Len(list) + 1}
  BY <1>1
<1>3. SUFFICES ASSUME NEW c \in held, NEW h \in 1 .. Len(longer), NEW j \in 1 .. Len(longer),
                      h # 1, longer[h] = at[c][1], longer[j] = c
               PROVE  j < h
  BY DEF Before, longer
<1>4. j \in 1 .. Len(list) /\ list[j] = c
  BY <1>1, <1>2, <1>3
<1>5. CASE h \in 1 .. Len(list)
  BY <1>1, <1>3, <1>4, <1>5 DEF Before
<1>6. CASE h = Len(list) + 1
  BY <1>1, <1>4, <1>6
<1>7. QED
  BY <1>2, <1>5, <1>6

\* When the first leaves, what is first then has none of its messages held,
\* unless by the one that left.
LEMMA BeforeRest ==
    ASSUME NEW list \in Seq(Task), Len(list) > 0, NEW held, NEW at, Before(list, held, at)
    PROVE  /\ Before(Tail(list), held, at)
           /\ Tail(list) # << >> =>
                 \A c \in held : \A j \in 1 .. Len(list) :
                     Head(Tail(list)) = at[c][1] /\ list[j] = c => c = list[1]
<1> DEFINE rest == Tail(list)
<1>1. /\ rest \in Seq(Task) /\ Len(rest) = Len(list) - 1 /\ Len(list) \in Nat
      /\ \A k \in 1 .. Len(list) - 1 : rest[k] = list[k + 1]
  BY TailElements, LenProperties
<1> HIDE DEF rest
<1>2. ASSUME NEW c \in held, NEW h \in 1 .. Len(rest), NEW j \in 1 .. Len(rest),
             h # 1, rest[h] = at[c][1], rest[j] = c
      PROVE  j < h
  <2>1. /\ h + 1 \in 1 .. Len(list) /\ j + 1 \in 1 .. Len(list) /\ h + 1 # 1
        /\ list[h + 1] = at[c][1] /\ list[j + 1] = c
    BY <1>1, <1>2
  <2>2. j + 1 < h + 1
    BY <2>1 DEF Before
  <2>3. QED
    BY <1>1, <2>2
<1>3. ASSUME rest # << >>, NEW c \in held, NEW j \in 1 .. Len(list),
             Head(rest) = at[c][1], list[j] = c
      PROVE  c = list[1]
  <2>1. Len(rest) > 0 /\ Head(rest) = rest[1] /\ 1 \in 1 .. Len(list) - 1
    <3>1. Len(rest) # 0 /\ Head(rest) = rest[1]
      BY <1>1, <1>3, EmptySeq, HeadTailProperties
    <3>2. QED
      BY <1>1, <3>1
  <2>2. list[1 + 1] = at[c][1] /\ 1 + 1 \in 1 .. Len(list) /\ 1 + 1 # 1
    BY <1>1, <1>3, <2>1
  <2>3. j < 1 + 1
    BY <1>3, <2>2 DEF Before
  <2>4. QED
    BY <1>3, <2>3
<1>4. QED
  BY <1>2, <1>3 DEF Before, rest

(***************************************************************************)
(* The producers and the consumers share a level, from which the reporter  *)
(* and the main task take the processor without changing their order.      *)
(***************************************************************************)
OnLevels ==
    \A t \in Task : state[t] # "absent" =>
        level[t] = IF t \in Producer \cup Consumer THEN 5 ELSE 1

\* Consumers wait only for messages, and producers only for room.
Room ==
    /\ receivers # << >> => queue = << >>
    /\ senders # << >> => Len(queue) = capacity
    /\ calls # 0 => capacity # 0

(***************************************************************************)
(* A consumer with a message is on its way to check it.  If the producer   *)
(* of the message runs meanwhile, it can send no more messages than there  *)
(* are waiting consumers and room in the queue.                            *)
(***************************************************************************)
InTurn ==
    /\ \A c \in Holders :
           /\ state[c] = "ready"
           /\ ready[5] # << >> /\ Head(ready[5]) = buffer[c][1] =>
                  Age[buffer[c]] + Len(receivers) <= 2 + Len(queue)
    /\ Before(ready[5], Holders, buffer)

OnceInv ==
    /\ TaskInv
    /\ OnLevels
    /\ Room
    /\ Places(Line, Holders, buffer, Age)
    /\ Counts(Line, Holders, buffer, open)
    /\ InTurn

LEMMA AtMostThree == ASSUME NEW n \in Nat, ~(n >= 4) PROVE n \in 0 .. 3
  OBVIOUS

\* Three producers, three consumers.
LEMMA WaitersFew ==
    ASSUME TaskInv
    PROVE  Len(senders) \in 0 .. 3 /\ Len(receivers) \in 0 .. 3
<1>1. Len(senders) \in Nat /\ Len(receivers) \in Nat
  BY TaskTypes, LenProperties
<1>2. \A k \in 1 .. Len(senders) : senders[k][1] \in {0, 1, 2}
  BY TaskNames DEF TaskInv, SendersWait, Firsts
<1>3. \A k \in 1 .. Len(receivers) : receivers[k] \in {3, 4, 5}
  BY TaskNames DEF TaskInv, ReceiversWait, Elements
<1>4. ASSUME Len(senders) >= 4 PROVE FALSE
  <2>1. {1, 2, 3, 4} \subseteq 1 .. Len(senders)
    BY <1>1, <1>4
  <2>2. /\ senders[1][1] # senders[2][1] /\ senders[1][1] # senders[3][1]
        /\ senders[1][1] # senders[4][1] /\ senders[2][1] # senders[3][1]
        /\ senders[2][1] # senders[4][1] /\ senders[3][1] # senders[4][1]
    BY <2>1, TaskTypes DEF OnceFirst
  <2>3. QED
    BY <1>2, <2>1, <2>2
<1>5. ASSUME Len(receivers) >= 4 PROVE FALSE
  <2>1. {1, 2, 3, 4} \subseteq 1 .. Len(receivers)
    BY <1>1, <1>5
  <2>2. /\ receivers[1] # receivers[2] /\ receivers[1] # receivers[3]
        /\ receivers[1] # receivers[4] /\ receivers[2] # receivers[3]
        /\ receivers[2] # receivers[4] /\ receivers[3] # receivers[4]
    BY <2>1, TaskTypes DEF Once
  <2>3. QED
    BY <1>3, <2>1, <2>2
<1>6. ~(Len(senders) >= 4) /\ ~(Len(receivers) >= 4)
  BY <1>4, <1>5
<1>7. QED
  BY <1>1, <1>6, AtMostThree

LEMMA LineFacts ==
    ASSUME TaskInv
    PROVE  /\ queue \in Seq(Message) /\ senders \in Seq(Task \X Message)
           /\ Line \in Seq(Message) /\ Len(Line) = Len(queue) + Len(senders)
           /\ Len(Line) <= 11
<1>1. queue \in Seq(Message) /\ senders \in Seq(Task \X Message)
  BY TaskTypes DEF Message
<1>2. Line \in Seq(Message) /\ Len(Line) = Len(queue) + Len(senders)
  BY <1>1, InLineType, Zenon DEF Line
<1>3. Len(queue) + Len(senders) \in 0 .. 11
  BY WaitersFew, TaskTypes, AtMostEleven
<1>4. Len(Line) <= 11
  BY <1>2, <1>3
<1>5. QED
  BY <1>1, <1>2, <1>4

\* The list of a producer or consumer that runs.
LEMMA OnceRuns ==
    ASSUME OnceInv, NEW t \in Producer \cup Consumer, Runs(t)
    PROVE  /\ t \in Task /\ Heads(t) /\ state[t] = "ready" /\ level[t] = 5 /\ calls # 0
           /\ t \notin Firsts(senders) /\ t \notin Elements(receivers)
           /\ ready[5] \in Seq(Task) /\ Len(ready[5]) \in Nat /\ Len(ready[5]) > 0
           /\ ready[5] # << >> /\ Head(ready[5]) = t /\ ready[5][1] = t
           /\ \A j \in 1 .. Len(ready[5]) : ready[5][j] = t => j = 1
<1>1. TaskInv /\ KernelInv /\ t \in Thread
  BY TaskNames DEF OnceInv, TaskInv
<1>2. /\ t \in Task /\ Heads(t) /\ state[t] = "ready" /\ calls # 0
      /\ t \notin Firsts(senders) /\ t \notin Elements(receivers)
  BY <1>1, TaskRuns
<1>3. level[t] = 5
  BY <1>2 DEF OnceInv, OnLevels
<1>4. /\ ready[5] \in Seq(Task) /\ Len(ready[5]) > 0 /\ ready[5][1] = t
  BY <1>1, <1>2, <1>3, HeadIsFirst
<1>5. Len(ready[5]) \in Nat /\ ready[5] # << >> /\ Head(ready[5]) = t
  BY <1>4, TailElements, LenProperties
<1>6. ASSUME NEW j \in 1 .. Len(ready[5]), ready[5][j] = t PROVE j = 1
  BY <1>1, <1>4, <1>5, <1>6, TaskNames DEF KernelInv, ListedOnce
<1>7. QED
  BY <1>2, <1>3, <1>4, <1>5, <1>6

\* Where the consumers with a message are.
LEMMA HoldersListed ==
    ASSUME OnceInv, NEW c \in Holders
    PROVE  /\ c \in Consumer /\ c \in Task /\ state[c] = "ready" /\ level[c] = 5
           /\ buffer[c] \in Message /\ Age[buffer[c]] <= 11
           /\ ready[5] \in Seq(Task) /\ ready[5] # << >> /\ Len(ready[5]) > 0
           /\ \E j \in 1 .. Len(ready[5]) : ready[5][j] = c
<1>1. c \in Consumer /\ c \in Task /\ state[c] = "ready"
  BY TaskNames DEF Holders, OnceInv, InTurn
<1>2. level[c] = 5
  BY <1>1 DEF OnceInv, OnLevels
<1>3. \E j \in 1 .. Len(ready[5]) : ready[5][j] = c
  BY <1>1, <1>2 DEF OnceInv, TaskInv, KernelInv, ReadyAreListed
<1>4. ready[5] \in Seq(Task) /\ Len(ready[5]) \in Nat
  BY TaskNames, ListType DEF OnceInv, TaskInv, KernelInv
<1>5. Len(ready[5]) # 0 /\ ready[5] # << >>
  BY <1>3, <1>4, NoElements
<1>6. buffer[c] \in Message /\ Age[buffer[c]] <= 11
  BY DEF OnceInv, Places
<1>7. QED
  BY <1>1, <1>2, <1>3, <1>4, <1>5, <1>6

(* Step by step.                                                           *)

\* Nothing is sent, given or checked, and no consumer leaves its place.
LEMMA OnceOther ==
    ASSUME OnceInv, TaskInv', OnLevels', Room', Holders' = Holders, Age' = Age,
           UNCHANGED <<queue, senders, receivers, buffer, open>>,
           \A c \in Holders : state'[c] = "ready",
           \/ ready'[5] = ready[5]
           \/ \E t \in Task \ Holders : ready'[5] = Append(ready[5], t)
    PROVE  OnceInv'
<1>1. Line' = Line
  BY DEF Line
<1>2. Places(Line, Holders, buffer, Age)' /\ Counts(Line, Holders, buffer, open)'
  <2>1. Places(Line, Holders, buffer, Age) /\ Counts(Line, Holders, buffer, open)
    BY DEF OnceInv
  <2>2. buffer' = buffer /\ open' = open
    OBVIOUS
  <2>3. Places(Line, Holders, buffer, Age)'
    BY <1>1, <2>1, <2>2
  <2>4. Counts(Line, Holders, buffer, open)'
    BY <1>1, <2>1, <2>2
  <2>5. QED
    BY <2>3, <2>4
<1>3. /\ ready[5] \in Seq(Task) /\ Len(ready[5]) \in Nat
      /\ Holders \in SUBSET Consumer /\ \A c \in Holders : buffer[c] \in Message
  BY TaskNames, ListType DEF OnceInv, TaskInv, KernelInv, Holders, Places
<1>4. Before(ready'[5], Holders, buffer)
  <2>1. CASE ready'[5] = ready[5]
    BY <2>1 DEF OnceInv, InTurn
  <2>2. CASE \E t \in Task \ Holders : ready'[5] = Append(ready[5], t)
    BY <1>3, <2>2, BeforeLater DEF OnceInv, InTurn
  <2>3. QED
    BY <2>1, <2>2
<1>5. ASSUME NEW c \in Holders PROVE ready[5] # << >> /\ Head(ready'[5]) = Head(ready[5])
  <2>1. ready[5] # << >> /\ Len(ready[5]) > 0
    BY HoldersListed
  <2>2. ASSUME NEW t \in Task, ready'[5] = Append(ready[5], t)
        PROVE  Head(ready'[5]) = Head(ready[5])
    BY <1>3, <2>1, <2>2, AppendElements, TailElements
  <2>3. QED
    BY <2>1, <2>2
<1>6. InTurn'
  <2>1. ASSUME NEW c \in Holders', (ready[5] # << >>)', (Head(ready[5]) = buffer[c][1])'
        PROVE  (Age[buffer[c]] + Len(receivers) <= 2 + Len(queue))'
    BY <1>5, <2>1 DEF OnceInv, InTurn
  <2>2. QED
    BY <1>4, <2>1 DEF InTurn
<1>7. QED
  BY <1>2, <1>6 DEF OnceInv

\* The processor stays with the benchmark's threads in their order.
LEMMA OnceReporter ==
    ASSUME MaxWord >= 11, OnceInv, Sleep \/ Wake \/ Report
    PROVE  OnceInv'
<1>1. /\ TaskInv' /\ TaskInv
      /\ UNCHANGED <<calls, queue, senders, receivers, buffer, open, local_counter, capacity>>
      /\ \A t \in Producer \cup Consumer : pc'[t] = pc[t]
  <2>1. TaskInv' /\ TaskInv
    BY TaskSleepInv, TaskWakeInv, TaskReportInv DEF OnceInv
  <2>2. UNCHANGED <<calls, queue, senders, receivers, buffer, open, local_counter, capacity>>
    BY DEF Sleep, Wake, Report, queues
  <2>3. \A t \in Producer \cup Consumer : pc'[t] = pc[t]
    <3>1. pc' = pc \/ \E l \in Label : pc' = [pc EXCEPT ![Reporter] = l]
      BY DEF Sleep, Wake, Report, Goto, Label
    <3>2. QED
      BY <2>1, <3>1, TaskTypes, TaskNames
  <2>4. QED
    BY <2>1, <2>2, <2>3
<1>2. Holders' = Holders /\ Age' = Age
  <2>1. \A p \in Producer : LastSent(p)' = LastSent(p)
    BY <1>1 DEF LastSent
  <2>2. QED
    BY <1>1, <2>1, AgeSame DEF Holders
<1>3. /\ level' = level /\ level \in [Task -> Level] /\ ready \in [Level -> Seq(Task)]
      /\ state \in [Task -> State] /\ Reporter \in Task /\ Reporter \notin Consumer
  <2>1. level' = level
    BY DEF Sleep, tm_thread_sleep, Block, Wake, TickWakes, MakeReady, Report, kernel
  <2>2. KernelTypeOK
    BY <1>1, TaskTypes DEF KernelInv
  <2>3. Reporter \in Task /\ Reporter \notin Consumer
    BY TaskNames
  <2>4. QED
    BY <2>1, <2>2, <2>3 DEF KernelTypeOK
<1>4. state[Reporter] # "absent" /\ level[Reporter] = 1
  <2>1. state[Reporter] # "absent"
    BY DEF Sleep, Wake, TickWakes, Report, Runs
  <2>2. QED
    BY <1>3, <2>1, TaskNames DEF OnceInv, OnLevels
<1>5. /\ ready'[5] = ready[5]
      /\ \A t \in Task : t # Reporter => state'[t] = state[t]
      /\ \A t \in Task : state'[t] = "absent" => state[t] = "absent"
  <2>1. CASE Sleep
    BY <1>3, <1>4, <2>1, TaskNames DEF Sleep, tm_thread_sleep, Block
  <2>2. CASE Wake
    BY <1>3, <1>4, <2>2, TaskNames DEF Wake, TickWakes, MakeReady
  <2>3. CASE Report
    BY <2>3 DEF Report, kernel
  <2>4. QED
    BY <2>1, <2>2, <2>3
<1>6. OnLevels' /\ Room'
  BY <1>1, <1>3, <1>4, <1>5 DEF OnceInv, OnLevels, Room
<1>7. \A c \in Holders : state'[c] = "ready"
  BY <1>3, <1>5, HoldersListed
<1>8. QED
  BY <1>1, <1>2, <1>5, <1>6, <1>7, OnceOther

LEMMA OnceSent ==
    ASSUME MaxWord >= 11, OnceInv, NEW p \in Producer, Sent(p)
    PROVE  OnceInv'
<1>1. TaskInv' /\ TaskInv
  BY TaskSentInv DEF OnceInv
<1>2. /\ pc[p] = "sent" /\ pc' = [pc EXCEPT ![p] = "send"]
      /\ local_counter' = [local_counter EXCEPT ![p] = Inc(@)]
      /\ UNCHANGED <<state, level, ready, capacity, queue, senders, receivers, buffer, calls,
                     open>>
  BY DEF Sent, Goto, queues, kernel
<1>3. pc \in [Task -> Label] /\ local_counter \in [Producer -> Word] /\ p \in Task
  BY <1>1, TaskTypes, TaskNames
<1>4. Holders' = Holders
  BY <1>2, <1>3, TaskNames DEF Holders
<1>5. Age' = Age
  <2>1. LastSent(p)' = LastSent(p)
    <3>1. LastSent(p)' = Minus(Inc(local_counter[p]), 1)
      BY <1>2, <1>3 DEF LastSent
    <3>2. QED
      BY <1>2, <1>3, <3>1, AgeArithmetic DEF LastSent
  <2>2. \A t \in Producer : t # p => LastSent(t)' = LastSent(t)
    BY <1>2, <1>3, TaskNames DEF LastSent
  <2>3. QED
    BY <2>1, <2>2, AgeSame
<1>6. OnLevels' /\ Room'
  BY <1>2 DEF OnceInv, OnLevels, Room
<1>7. \A c \in Holders : state'[c] = "ready"
  BY <1>2, HoldersListed
<1>8. QED
  BY <1>1, <1>2, <1>4, <1>5, <1>6, <1>7, OnceOther

\* A thread is created on its level.
LEMMA TaskLevels ==
    ASSUME Initialize \/ ThreadX!Initialize, NEW t \in Thread, calls = 2 * t + 1
    PROVE  AddSuspended(t, IF t = Reporter THEN 1 ELSE 5) \/ Block(Main, "done")
<1>1. Port = "Zephyr" /\ Thread = 0 .. 6 /\ ThreadX!Reporter = Reporter
  BY TaskNames DEF Reporter, ThreadX!Reporter
<1>2. \A u \in Thread : calls # 2 * u + 2 /\ (calls = 2 * u + 1 => u = t)
  BY <1>1
<1>3. calls # 0
  BY <1>1
<1>4. CASE calls = 15
  BY <1>1, <1>4
<1>5. CASE calls # 15
  <2>1. \/ tm_thread_create(t, IF t = Reporter THEN 1 ELSE 5)
        \/ ThreadX!tm_thread_create(t, IF t = Reporter THEN 1 ELSE 5)
    BY <1>1, <1>2, <1>3, <1>5 DEF Initialize, ThreadX!Initialize
  <2>2. QED
    BY <1>1, <2>1
    DEF tm_thread_create, zephyr_thread_create, AddSuspended, ThreadX!tm_thread_create,
     ThreadX!threadx_thread_create, ThreadX!AddSuspended
<1>6. QED
  BY <1>4, <1>5

LEMMA OnceInitialize ==
    ASSUME MaxWord >= 11, OnceInv, Initialize \/ ThreadX!Initialize
    PROVE  OnceInv'
<1>1. /\ Heads(Main) /\ calls' = calls + 1
      /\ UNCHANGED <<senders, receivers, queue, buffer, pc, taskvars>>
      /\ calls # 0 => UNCHANGED capacity
      /\ \/ calls = 0 /\ capacity' \in {1, 8} /\ UNCHANGED kernel
         \/ \E t \in Thread, l \in {1, 5} : calls = 2 * t + 1 /\ AddSuspended(t, l)
         \/ \E t \in Thread : calls = 2 * t + 2 /\ tm_thread_resume(t)
         \/ calls = 15 /\ Block(Main, "done")
  BY TaskCalls
<1>2. TaskInv' /\ TaskInv
  BY TaskInitializeInv DEF OnceInv
<1>3. /\ state \in [Task -> State] /\ level \in [Task -> Level]
      /\ ready \in [Level -> Seq(Task)] /\ Main \in Task /\ state[Main] = "ready"
      /\ level[Main] = 1 /\ calls \in 0 .. 16
  <2>1. /\ state \in [Task -> State] /\ level \in [Task -> Level] /\ Main \in Task
        /\ state[Main] = "ready" /\ ready \in [Level -> Seq(Task)] /\ calls \in 0 .. 16
    BY <1>1, <1>2, TaskTypes, TaskNames DEF KernelInv, KernelTypeOK, Heads
  <2>2. QED
    BY <2>1, TaskNames DEF OnceInv, OnLevels
<1>4. Holders' = Holders /\ Age' = Age
  <2>1. \A p \in Producer : LastSent(p)' = LastSent(p)
    BY <1>1 DEF LastSent, taskvars
  <2>2. QED
    BY <1>1, <2>1, AgeSame DEF Holders
<1>5. Room'
  <2>1. CASE calls = 0
    <3>1. senders = << >> /\ receivers = << >> /\ queue = << >>
      <4>1. queue = << >> /\ \A t \in Thread : state[t] = "absent"
        BY <1>2, <2>1 DEF TaskInv, QueueFirst
      <4>2. Len(senders) = 0 /\ Len(receivers) = 0
        <5>1. ASSUME NEW k \in 1 .. Len(senders) PROVE FALSE
          <6>1. senders[k][1] \in Firsts(senders)
            BY <5>1 DEF Firsts
          <6>2. senders[k][1] \in Thread /\ state[senders[k][1]] = "blocked"
            BY <1>2, <6>1, TaskNames DEF TaskInv, SendersWait
          <6>3. QED
            BY <4>1, <6>2
        <5>2. ASSUME NEW k \in 1 .. Len(receivers) PROVE FALSE
          <6>1. receivers[k] \in Elements(receivers)
            BY <5>2 DEF Elements
          <6>2. receivers[k] \in Thread /\ state[receivers[k]] = "blocked"
            BY <1>2, <6>1, TaskNames DEF TaskInv, ReceiversWait
          <6>3. QED
            BY <4>1, <6>2
        <5>3. Len(senders) \in Nat /\ Len(receivers) \in Nat
          BY <1>2, TaskTypes, LenProperties
        <5>4. 1 \notin 1 .. Len(senders) /\ 1 \notin 1 .. Len(receivers)
          BY <5>1, <5>2
        <5>5. QED
          BY <5>3, <5>4
      <4>3. QED
        BY <1>2, <4>1, <4>2, TaskTypes, EmptySeq
    <3>2. capacity' # 0
      BY <1>1, <2>1, TaskNames
    <3>3. QED
      BY <1>1, <3>1, <3>2 DEF Room
  <2>2. CASE calls # 0
    BY <1>1, <2>2 DEF OnceInv, Room
  <2>3. QED
    BY <2>1, <2>2
<1>6. /\ OnLevels' /\ \A c \in Holders : state'[c] = "ready"
      /\ \/ ready'[5] = ready[5]
         \/ \E t \in Task \ Holders : ready'[5] = Append(ready[5], t)
  <2>1. CASE UNCHANGED kernel
    BY <2>1, HoldersListed DEF kernel, OnceInv, OnLevels
  <2>2. ASSUME NEW t \in Thread, NEW l \in {1, 5}, calls = 2 * t + 1, AddSuspended(t, l)
        PROVE  OnLevels' /\ ready'[5] = ready[5] /\ \A c \in Holders : state'[c] = "ready"
    <3>1. /\ t \in Task /\ state[t] = "absent" /\ state' = [state EXCEPT ![t] = "suspended"]
          /\ ready' = ready
      BY <2>2, TaskNames DEF AddSuspended
    <3>2. level' = [level EXCEPT ![t] = IF t = Reporter THEN 1 ELSE 5]
      <4>1. ~Block(Main, "done")
        BY <1>3, <3>1, TaskNames DEF Block
      <4>2. QED
        BY <2>2, <4>1, TaskLevels DEF AddSuspended
    <3>3. \A c \in Holders : state'[c] = "ready"
      BY <1>3, <3>1, HoldersListed
    <3>4. OnLevels'
      BY <1>3, <2>2, <3>1, <3>2, TaskNames DEF OnceInv, OnLevels
    <3>5. QED
      BY <3>1, <3>3, <3>4
  <2>3. ASSUME NEW t \in Thread, state[t] = "suspended", MakeReady(t)
        PROVE  /\ OnLevels' /\ \A c \in Holders : state'[c] = "ready"
               /\ \/ ready'[5] = ready[5]
                  \/ \E u \in Task \ Holders : ready'[5] = Append(ready[5], u)
    <3>1. /\ t \in Task /\ t \notin Holders /\ state' = [state EXCEPT ![t] = "ready"]
          /\ ready' = [ready EXCEPT ![level[t]] = Append(@, t)] /\ level' = level
      BY <2>3, HoldersListed, TaskNames DEF MakeReady
    <3>2. \A c \in Holders : state'[c] = "ready"
      BY <1>3, <3>1, HoldersListed
    <3>3. OnLevels'
      BY <1>3, <2>3, <3>1 DEF OnceInv, OnLevels
    <3>4. ready'[5] = ready[5] \/ ready'[5] = Append(ready[5], t)
      BY <1>3, <3>1, TaskNames
    <3>5. QED
      BY <3>1, <3>2, <3>3, <3>4
  <2>4. CASE Block(Main, "done")
    <3>1. /\ state' = [state EXCEPT ![Main] = "done"] /\ level' = level
          /\ ready'[5] = ready[5]
      BY <1>3, <2>4, TaskNames DEF Block
    <3>2. \A c \in Holders : state'[c] = "ready"
      BY <1>3, <3>1, HoldersListed, TaskNames
    <3>3. OnLevels'
      BY <1>3, <3>1 DEF OnceInv, OnLevels
    <3>4. QED
      BY <3>1, <3>2, <3>3
  <2>5. QED
    BY <1>1, <2>1, <2>2, <2>3, <2>4 DEF tm_thread_resume
<1>7. QED
  BY <1>1, <1>2, <1>4, <1>5, <1>6, OnceOther DEF taskvars

LEMMA TurnArithmetic ==
    ASSUME NEW a \in Nat, NEW r \in 0 .. 3, NEW q \in 0 .. 8, a + r <= 2 + q
    PROVE  /\ a <= 10 /\ (a + 1) + r <= 2 + (q + 1)
           /\ \A n \in 0 .. 2 : n = r - 1 => (a + 1) + n <= 2 + q
  OBVIOUS

LEMMA AtMostEight ==
    ASSUME NEW n \in Nat, NEW c \in {0, 1, 8}, n <= c PROVE n \in 0 .. 8 /\ c \in 0 .. 8
  OBVIOUS

LEMMA OneWaitsLess ==
    ASSUME NEW n \in Nat, NEW r \in 0 .. 3, r = n + 1
    PROVE  n \in 0 .. 2 /\ n = r - 1 /\ 0 + n <= 2 + 0
  OBVIOUS

\* A message goes into the queue, to a waiting consumer, or waits for room.
LEMMA OnceSend ==
    ASSUME MaxWord >= 11, OnceInv, NEW p \in Producer, Send(p)
    PROVE  OnceInv'
<1> DEFINE m == <<p, local_counter[p]>>
<1>1. TaskInv' /\ TaskInv
  BY TaskSendInv DEF OnceInv
<1>2. /\ Runs(p) /\ pc[p] = "send" /\ open' = open \cup {m}
      /\ UNCHANGED <<calls, local_counter>>
  BY DEF Send
<1>3. /\ p \in Task /\ level[p] = 5 /\ calls # 0 /\ p \notin Consumer
      /\ ready[5] \in Seq(Task) /\ Len(ready[5]) \in Nat /\ Len(ready[5]) > 0
      /\ ready[5] # << >> /\ Head(ready[5]) = p /\ ready[5][1] = p
      /\ \A j \in 1 .. Len(ready[5]) : ready[5][j] = p => j = 1
  BY <1>2, OnceRuns, TaskNames
<1>4. /\ pc' = [pc EXCEPT ![p] = "sent"] /\ UNCHANGED capacity
      /\ \/ /\ receivers = << >> /\ Len(queue) < capacity /\ queue' = Append(queue, m)
            /\ UNCHANGED <<state, level, ready, senders, receivers, buffer>>
         \/ /\ receivers # << >> /\ MakeReady(Head(receivers))
            /\ receivers' = Tail(receivers)
            /\ buffer' = [buffer EXCEPT ![Head(receivers)] = m]
            /\ UNCHANGED <<queue, senders>>
         \/ /\ Len(queue) = capacity
            /\ Block(p, "blocked") /\ senders' = Append(senders, <<p, m>>)
            /\ UNCHANGED <<queue, receivers, buffer>>
  BY TaskNames DEF Send, tm_queue_send, Deliver, Goto, kernel
<1>5. m \in Message /\ Older(Age, Age', m) /\ m[1] = p
  BY <1>1, <1>2, <1>4, AgeSent
<1>6. Age \in [Message -> Word] /\ Age' \in [Message -> Word]
  BY <1>1, AgeTypes, AgeTypesNext
<1>7. /\ Line \in Seq(Message) /\ Len(Line) <= 11 /\ queue \in Seq(Message)
      /\ senders \in Seq(Task \X Message) /\ Holders \in SUBSET Consumer
      /\ Len(queue) \in 0 .. 8 /\ capacity \in 0 .. 8 /\ Len(receivers) \in 0 .. 3
  <2>1. /\ Line \in Seq(Message) /\ Len(Line) <= 11 /\ queue \in Seq(Message)
        /\ senders \in Seq(Task \X Message)
    BY <1>1, LineFacts
  <2>2. Len(receivers) \in 0 .. 3
    BY <1>1, WaitersFew
  <2>3. Len(queue) \in 0 .. 8 /\ capacity \in 0 .. 8
    BY <1>1, TaskTypes, AtMostEight
  <2>4. QED
    BY <2>1, <2>2, <2>3 DEF Holders
<1>8. Places(Line, Holders, buffer, Age) /\ Counts(Line, Holders, buffer, open)
  BY DEF OnceInv
<1> HIDE DEF m
<1>9. ASSUME NEW c \in Holders, buffer[c][1] = m[1]
      PROVE  /\ Age[buffer[c]] + Len(receivers) <= 2 + Len(queue)
             /\ Age[buffer[c]] <= 10 /\ Age[buffer[c]] \in Nat
             /\ Age'[buffer[c]] = Age[buffer[c]] + 1
  <2>1. buffer[c] \in Message /\ Age[buffer[c]] \in Nat
    BY <1>6, HoldersListed, MaxWordAssumption DEF Word
  <2>2. Age[buffer[c]] + Len(receivers) <= 2 + Len(queue)
    BY <1>3, <1>5, <1>9 DEF OnceInv, InTurn
  <2>3. Age[buffer[c]] <= 10
    BY <1>7, <2>1, <2>2, TurnArithmetic
  <2>4. Age'[buffer[c]] = Age[buffer[c]] + 1
    BY <1>5, <1>9, <2>1, <2>3 DEF Older
  <2>5. QED
    BY <2>1, <2>2, <2>3, <2>4
<1>10. m \notin open
  <2>1. Apart(Line, Holders, buffer, Age', m)
    BY <1>5, <1>6, <1>7, <1>8, <1>9, PlacesAged
  <2>2. QED
    BY <1>8, <2>1 DEF Apart, Counts, Elements
<1>11. pc \in [Task -> Label] /\ \A t \in Consumer : t \in Task /\ pc'[t] = pc[t]
  BY <1>1, <1>3, <1>4, TaskTypes, TaskNames
<1>12. /\ \A t \in Task : state[t] # "absent" =>
              level[t] = IF t \in Producer \cup Consumer THEN 5 ELSE 1
       /\ state \in [Task -> State] /\ ready \in [Level -> Seq(Task)] /\ 5 \in Level
       /\ level \in [Task -> Level]
  BY <1>1, TaskNames, TaskTypes DEF OnceInv, OnLevels, KernelInv, KernelTypeOK
<1>13. Before(ready[5], Holders, buffer) /\ \A c \in Holders : state[c] = "ready"
  BY DEF OnceInv, InTurn
<1>14. /\ receivers # << >> => queue = << >>
       /\ senders # << >> => Len(queue) = capacity
       /\ capacity # 0
  BY <1>3 DEF OnceInv, Room
<1>15. CASE /\ receivers = << >> /\ Len(queue) < capacity /\ queue' = Append(queue, m)
            /\ UNCHANGED <<state, level, ready, senders, receivers, buffer>>
  <2>1. Holders' = Holders
    BY <1>11, <1>15 DEF Holders
  <2>2. senders = << >> /\ Len(queue') = Len(queue) + 1
    BY <1>5, <1>7, <1>14, <1>15, AppendProperties
  <2>3. Line' = Append(Line, m)
    BY <1>5, <1>7, <1>15, <2>2, InLineSent DEF Line
  <2>4. Places(Line, Holders, buffer, Age)'
    BY <1>5, <1>6, <1>7, <1>8, <1>9, <1>15, <2>1, <2>3, PlacesQueued
  <2>5. Counts(Line, Holders, buffer, open)'
    BY <1>2, <1>5, <1>7, <1>8, <1>10, <1>15, <2>1, <2>3, CountsQueued
  <2>6. InTurn'
    <3>1. ASSUME NEW c \in Holders, Head(ready[5]) = buffer[c][1]
          PROVE  Age'[buffer[c]] + Len(receivers) <= 2 + Len(queue')
      <4>1. buffer[c][1] = m[1]
        BY <1>3, <1>5, <3>1
      <4>2. QED
        BY <1>7, <1>9, <2>2, <4>1
    <3>2. QED
      BY <1>13, <1>15, <2>1, <3>1 DEF InTurn
  <2>7. OnLevels' /\ Room'
    BY <1>4, <1>12, <1>14, <1>15, <2>2 DEF OnLevels, Room
  <2>8. QED
    BY <1>1, <2>4, <2>5, <2>6, <2>7 DEF OnceInv
<1>16. CASE /\ receivers # << >> /\ MakeReady(Head(receivers))
            /\ receivers' = Tail(receivers)
            /\ buffer' = [buffer EXCEPT ![Head(receivers)] = m]
            /\ UNCHANGED <<queue, senders>>
  <2> DEFINE d == Head(receivers)
  <2>1. /\ d \in Elements(receivers) /\ Elements(receivers') = Elements(receivers) \ {d}
        /\ Len(receivers') \in 0 .. 2 /\ Len(receivers') = Len(receivers) - 1
        /\ 0 + Len(receivers') <= 2 + 0
    <3>1. d \in Elements(receivers) /\ Elements(receivers') = Elements(receivers) \ {d}
      <4>1. receivers \in Seq(Task) /\ receivers # << >> /\ Once(receivers)
        BY <1>1, <1>16, TaskTypes
      <4>2. /\ Head(receivers) \in Elements(receivers)
            /\ Elements(Tail(receivers)) = Elements(receivers) \ {Head(receivers)}
        BY <4>1, ElementsTail
      <4>3. QED
        BY <1>16, <4>2
    <3>2. Len(receivers) = Len(receivers') + 1 /\ Len(receivers') \in Nat
      BY <1>1, <1>16, ElementsShorter, TaskTypes
    <3>3. QED
      BY <1>7, <3>1, <3>2, OneWaitsLess
  <2>2. d \in Consumer /\ d \in Task /\ state[d] = "blocked" /\ pc[d] = "check" /\ d # p
    BY <1>1, <1>3, <2>1, TaskNames DEF TaskInv, ReceiversWait
  <2>3. d \notin Holders /\ Holders' = Holders \cup {d}
    BY <1>11, <2>1, <2>2 DEF Holders
  <2>4. /\ buffer'[d] = m /\ \A c \in Holders : buffer'[c] = buffer[c]
    <3>1. buffer \in [Task -> (Producer \X Word) \cup {NoMessage}]
      BY <1>1, TaskTypes
    <3>2. QED
      BY <1>11, <1>16, <2>2, <2>3, <3>1 DEF Holders
  <2>5. /\ level' = level /\ state' = [state EXCEPT ![d] = "ready"]
        /\ ready'[5] = Append(ready[5], d)
    <3>1. level[d] = 5
      BY <1>12, <2>2
    <3>2. QED
      BY <1>12, <1>16, <3>1 DEF MakeReady
  <2> HIDE DEF d
  <2>6. queue = << >> /\ senders = << >> /\ Line = << >> /\ Line' = << >>
    <3>1. queue = << >> /\ senders = << >> /\ Len(queue) = 0 /\ Len(senders) = 0
      BY <1>14, <1>16
    <3>2. Len(Line) = 0
      BY <1>1, <3>1, LineFacts
    <3>3. Line = << >>
      BY <1>7, <3>2, EmptySeq
    <3>4. QED
      BY <1>16, <3>1, <3>3 DEF Line
  <2>7. Places(Line, Holders, buffer, Age)'
    <3>1. Places(<< >>, Holders, buffer, Age)
      BY <1>8, <2>6
    <3>2. Places(<< >>, Holders \cup {d}, buffer', Age')
      BY <1>5, <1>6, <1>7, <1>9, <2>2, <2>3, <2>4, <3>1, PlacesHanded
    <3>3. QED
      BY <2>3, <2>6, <3>2
  <2>8. Counts(Line, Holders, buffer, open)'
    <3>1. Counts(Line, Holders \cup {d}, buffer', open \cup {m})
      BY <1>7, <1>8, <1>10, <2>3, <2>4, CountsHanded
    <3>2. QED
      BY <1>2, <2>3, <2>6, <3>1
  <2>9. /\ Len(ready'[5]) = Len(ready[5]) + 1
        /\ \A j \in 1 .. Len(ready[5]) : ready'[5][j] = ready[5][j]
        /\ ready'[5][Len(ready[5]) + 1] = d
        /\ Head(ready'[5]) = p
    BY <1>3, <2>2, <2>5, AppendElements, TailElements
  <2>10. Before(ready'[5], Holders', buffer')
    <3>1. Before(ready'[5], Holders, buffer)
      <4>1. \A c \in Holders : buffer[c] \in Message
        BY <1>8 DEF Places
      <4>2. QED
        BY <1>3, <1>7, <1>13, <2>2, <2>3, <2>5, <4>1, BeforeLater
    <3>2. ASSUME NEW h \in 1 .. Len(ready'[5]), ready'[5][h] = p PROVE h = 1
      <4>1. h # Len(ready[5]) + 1
        BY <2>2, <2>9, <3>2
      <4>2. h \in 1 .. Len(ready[5])
        BY <1>3, <2>9, <4>1
      <4>3. QED
        BY <1>3, <2>9, <3>2, <4>2
    <3>3. buffer'[d][1] = p
      BY <1>5, <2>4
    <3>4. QED
      BY <2>3, <2>4, <3>1, <3>2, <3>3 DEF Before
  <2>11. InTurn'
    <3>1. \A c \in Holders' : state'[c] = "ready"
      BY <1>12, <1>13, <2>2, <2>3, <2>5, HoldersListed
    <3>2. ASSUME NEW c \in Holders', Head(ready'[5]) = buffer'[c][1]
          PROVE  Age'[buffer'[c]] + Len(receivers') <= 2 + Len(queue')
      <4>1. CASE c = d
        <5>1. Age'[buffer'[c]] = 0 /\ Len(queue') = 0
          BY <1>5, <1>16, <2>4, <2>6, <4>1 DEF Older
        <5>2. QED
          BY <2>1, <5>1
      <4>2. CASE c \in Holders
        <5>1. buffer[c][1] = m[1] /\ buffer'[c] = buffer[c] /\ queue' = queue
          BY <1>5, <1>16, <2>4, <2>9, <3>2, <4>2
        <5>2. /\ Age[buffer[c]] + Len(receivers) <= 2 + Len(queue)
              /\ Age[buffer[c]] \in Nat /\ Age'[buffer[c]] = Age[buffer[c]] + 1
          BY <1>9, <4>2, <5>1
        <5>3. (Age[buffer[c]] + 1) + Len(receivers') <= 2 + Len(queue)
          BY <1>7, <2>1, <5>2, TurnArithmetic
        <5>4. Age'[buffer'[c]] = Age[buffer[c]] + 1 /\ Len(queue') = Len(queue)
          BY <5>1, <5>2
        <5>5. QED
          BY <5>3, <5>4
      <4>3. QED
        BY <2>3, <4>1, <4>2
    <3>3. QED
      BY <2>10, <3>1, <3>2 DEF InTurn
  <2>12. OnLevels' /\ Room'
    BY <1>4, <1>12, <1>14, <1>16, <2>2, <2>5, <2>6 DEF OnLevels, Room
  <2>13. QED
    BY <1>1, <2>7, <2>8, <2>11, <2>12 DEF OnceInv
<1>17. CASE /\ Len(queue) = capacity
            /\ Block(p, "blocked") /\ senders' = Append(senders, <<p, m>>)
            /\ UNCHANGED <<queue, receivers, buffer>>
  <2>1. Holders' = Holders
    BY <1>11, <1>17 DEF Holders
  <2>2. Line' = Append(Line, m)
    BY <1>3, <1>5, <1>7, <1>17, InLineWaits DEF Line
  <2>3. Places(Line, Holders, buffer, Age)'
    BY <1>5, <1>6, <1>7, <1>8, <1>9, <1>17, <2>1, <2>2, PlacesQueued
  <2>4. Counts(Line, Holders, buffer, open)'
    BY <1>2, <1>5, <1>7, <1>8, <1>10, <1>17, <2>1, <2>2, CountsQueued
  <2>5. /\ level' = level /\ state' = [state EXCEPT ![p] = "blocked"]
        /\ ready'[5] = Tail(ready[5])
    BY <1>3, <1>12, <1>17 DEF Block
  <2>6. InTurn'
    <3>1. /\ Before(ready'[5], Holders, buffer)
          /\ ready'[5] # << >> =>
                \A c \in Holders : \A j \in 1 .. Len(ready[5]) :
                    Head(ready'[5]) = buffer[c][1] /\ ready[5][j] = c => c = p
      BY <1>3, <1>13, <2>5, BeforeRest
    <3>2. ASSUME NEW c \in Holders, ready'[5] # << >>, Head(ready'[5]) = buffer[c][1]
          PROVE  FALSE
      <4>1. \E j \in 1 .. Len(ready[5]) : ready[5][j] = c
        BY HoldersListed
      <4>2. QED
        BY <1>3, <1>7, <3>1, <3>2, <4>1
    <3>3. \A c \in Holders : state'[c] = "ready"
      BY <1>3, <1>7, <1>11, <1>12, <1>13, <2>5
    <3>4. QED
      BY <1>17, <2>1, <3>1, <3>2, <3>3 DEF InTurn
  <2>7. OnLevels' /\ Room'
    <3>1. state[p] # "absent"
      BY <1>2 DEF Runs
    <3>2. OnLevels'
      BY <1>12, <2>5, <3>1 DEF OnLevels
    <3>3. Room'
      BY <1>4, <1>14, <1>17 DEF Room
    <3>4. QED
      BY <3>2, <3>3
  <2>8. QED
    BY <1>1, <2>3, <2>4, <2>6, <2>7 DEF OnceInv
<1>18. QED
  BY <1>4, <1>15, <1>16, <1>17 DEF m

LEMMA ConcatOne ==
    ASSUME NEW s \in Seq(Message), NEW m \in Message PROVE s \o <<m>> = Append(s, m)
  BY AppendIsConcat

\* A consumer gets the first message in line, or waits.
LEMMA OnceReceive ==
    ASSUME MaxWord >= 11, OnceInv, NEW c \in Consumer, Receive(c)
    PROVE  OnceInv'
<1>1. TaskInv' /\ TaskInv
  BY TaskReceiveInv DEF OnceInv
<1>2. /\ Runs(c) /\ pc[c] = "receive"
      /\ UNCHANGED <<calls, local_counter, open>>
  BY DEF Receive
<1>3. /\ c \in Task /\ level[c] = 5 /\ calls # 0 /\ c \notin Producer
      /\ c \notin Elements(receivers)
      /\ ready[5] \in Seq(Task) /\ Len(ready[5]) \in Nat /\ Len(ready[5]) > 0
      /\ ready[5] # << >> /\ Head(ready[5]) = c /\ ready[5][1] = c
      /\ \A j \in 1 .. Len(ready[5]) : ready[5][j] = c => j = 1
  BY <1>2, OnceRuns, TaskNames
<1>4. /\ pc' = [pc EXCEPT ![c] = "check"] /\ UNCHANGED capacity
      /\ \/ /\ queue # << >> /\ senders = << >> /\ queue' = Tail(queue)
            /\ buffer' = [buffer EXCEPT ![c] = Head(queue)]
            /\ UNCHANGED <<state, level, ready, senders, receivers>>
         \/ /\ queue # << >> /\ senders # << >>
            /\ queue' = Tail(queue) \o <<Head(senders)[2]>>
            /\ buffer' = [buffer EXCEPT ![c] = Head(queue)]
            /\ MakeReady(Head(senders)[1]) /\ senders' = Tail(senders)
            /\ UNCHANGED receivers
         \/ /\ queue = << >>
            /\ Block(c, "blocked") /\ receivers' = Append(receivers, c)
            /\ UNCHANGED <<queue, senders, buffer>>
  BY TaskNames DEF Receive, tm_queue_receive, TakeMessage, Goto, kernel
<1>5. Age' = Age /\ Age \in [Message -> Word]
  <2>1. \A p \in Producer : p \in Task /\ p # c
    BY <1>3, TaskNames
  <2>2. \A p \in Producer : LastSent(p)' = LastSent(p)
    BY <1>1, <1>2, <1>4, <2>1, TaskTypes DEF LastSent
  <2>3. QED
    BY <1>1, <2>2, AgeSame, AgeTypes
<1>6. /\ Line \in Seq(Message) /\ Len(Line) <= 11 /\ queue \in Seq(Message)
      /\ senders \in Seq(Task \X Message) /\ receivers \in Seq(Task)
      /\ Holders \in SUBSET Consumer
  <2>1. /\ Line \in Seq(Message) /\ Len(Line) <= 11 /\ queue \in Seq(Message)
        /\ senders \in Seq(Task \X Message)
    BY <1>1, LineFacts
  <2>2. QED
    BY <1>1, <2>1, TaskTypes DEF Holders
<1>7. Places(Line, Holders, buffer, Age) /\ Counts(Line, Holders, buffer, open)
  BY DEF OnceInv
<1>8. /\ pc \in [Task -> Label] /\ pc'[c] = "check"
      /\ \A t \in Consumer : t \in Task /\ (t # c => pc'[t] = pc[t])
  BY <1>1, <1>3, <1>4, TaskTypes, TaskNames
<1>9. /\ \A t \in Task : state[t] # "absent" =>
             level[t] = IF t \in Producer \cup Consumer THEN 5 ELSE 1
      /\ state \in [Task -> State] /\ ready \in [Level -> Seq(Task)] /\ 5 \in Level
      /\ level \in [Task -> Level] /\ state[c] = "ready"
  BY <1>1, <1>2, TaskNames, TaskTypes DEF OnceInv, OnLevels, KernelInv, KernelTypeOK, Runs
<1>10. /\ Before(ready[5], Holders, buffer) /\ \A d \in Holders : state[d] = "ready"
       /\ \A d \in Holders : buffer[d] \in Message
  BY DEF OnceInv, InTurn, Places
<1>11. /\ receivers # << >> => queue = << >>
       /\ senders # << >> => Len(queue) = capacity
       /\ capacity # 0
  BY <1>3 DEF OnceInv, Room
<1>12. c \notin Holders
  BY <1>2 DEF Holders
<1>13. \A x \in Message : x[1] \in Producer
  BY DEF Message
<1>14. CASE queue # << >> /\ senders = << >> /\ queue' = Tail(queue)
            /\ buffer' = [buffer EXCEPT ![c] = Head(queue)]
            /\ UNCHANGED <<state, level, ready, senders, receivers>>
  <2>1. Holders' = Holders \cup {c}
    BY <1>3, <1>8, <1>14 DEF Holders
  <2>2. Line # << >> /\ Head(Line) = Head(queue) /\ Line' = Tail(Line)
    <3>1. << >> \in Seq(Task \X Message) /\ Tail(queue) \in Seq(Message)
      BY <1>6, <1>14, HeadTailProperties
    <3>2. QED
      BY <1>6, <1>14, <3>1, InLineFirst DEF Line
  <2>3. buffer'[c] = Head(Line) /\ \A d \in Holders : buffer'[d] = buffer[d]
    BY <1>1, <1>3, <1>6, <1>8, <1>12, <1>14, <2>2, TaskTypes
  <2>4. Places(Line, Holders, buffer, Age)'
    <3>1. Places(Tail(Line), Holders \cup {c}, buffer', Age)
      BY <1>5, <1>6, <1>7, <1>12, <2>2, <2>3, PlacesTaken
    <3>2. QED
      BY <1>5, <2>1, <2>2, <3>1
  <2>5. Counts(Line, Holders, buffer, open)'
    <3>1. Counts(Tail(Line), Holders \cup {c}, buffer', open)
      BY <1>6, <1>7, <1>12, <2>2, <2>3, CountsTaken
    <3>2. QED
      BY <1>2, <2>1, <2>2, <3>1
  <2>6. Before(ready'[5], Holders', buffer')
    BY <1>3, <1>10, <1>14, <2>1, <2>3 DEF Before
  <2>7. InTurn'
    <3>1. \A d \in Holders' : state'[d] = "ready" /\ buffer'[d][1] \in Producer
      <4>1. Head(Line) \in Message
        BY <1>6, <2>2, ElementsShorter
      <4>2. QED
        BY <1>9, <1>10, <1>13, <1>14, <2>1, <2>3, <4>1
    <3>2. \A d \in Holders' : Head(ready'[5]) # buffer'[d][1]
      BY <1>3, <1>14, <3>1
    <3>3. QED
      BY <2>6, <3>1, <3>2 DEF InTurn
  <2>8. OnLevels' /\ Room'
    <3>1. OnLevels'
      BY <1>9, <1>14 DEF OnLevels
    <3>2. receivers = << >>
      BY <1>11, <1>14
    <3>3. Room'
      BY <1>4, <1>11, <1>14, <3>2 DEF Room
    <3>4. QED
      BY <3>1, <3>3
  <2>9. QED
    BY <1>1, <2>4, <2>5, <2>7, <2>8 DEF OnceInv
<1>15. CASE /\ queue # << >> /\ senders # << >>
            /\ queue' = Tail(queue) \o <<Head(senders)[2]>>
            /\ buffer' = [buffer EXCEPT ![c] = Head(queue)]
            /\ MakeReady(Head(senders)[1]) /\ senders' = Tail(senders)
            /\ UNCHANGED receivers
  <2> DEFINE p == Head(senders)[1]
  <2>1. /\ p \in Firsts(senders) /\ Head(senders)[2] \in Message
        /\ Tail(senders) \in Seq(Task \X Message)
    <3>1. OnceFirst(senders)
      BY <1>1, TaskTypes
    <3>2. /\ Head(senders) \in Task \X Message /\ Head(senders)[1] \in Firsts(senders)
          /\ Tail(senders) \in Seq(Task \X Message)
      BY <1>6, <1>15, <3>1, FirstsTail
    <3>3. QED
      BY <3>2
  <2>2. p \in Producer /\ p \in Task /\ state[p] = "blocked" /\ p # c /\ p \notin Consumer
    BY <1>1, <1>3, <2>1, TaskNames DEF TaskInv, SendersWait
  <2>3. Holders' = Holders \cup {c}
    BY <1>3, <1>8, <1>15 DEF Holders
  <2>4. queue' = Append(Tail(queue), Head(senders)[2]) /\ queue' \in Seq(Message)
        /\ Len(queue') = Len(queue)
    <3>1. /\ Tail(queue) \in Seq(Message) /\ Len(Tail(queue)) = Len(queue) - 1
          /\ Len(queue) \in Nat
      BY <1>6, <1>15, HeadTailProperties, LenProperties
    <3>2. queue' = Append(Tail(queue), Head(senders)[2])
      BY <1>15, <2>1, <3>1, ConcatOne
    <3>3. QED
      BY <2>1, <3>1, <3>2, AppendProperties
  <2>5. Line # << >> /\ Head(Line) = Head(queue) /\ Line' = Tail(Line)
    BY <1>6, <1>15, <2>1, <2>4, InLineFirst DEF Line
  <2>6. buffer'[c] = Head(Line) /\ \A d \in Holders : buffer'[d] = buffer[d]
    BY <1>1, <1>3, <1>6, <1>8, <1>12, <1>15, <2>5, TaskTypes
  <2>7. Places(Line, Holders, buffer, Age)'
    <3>1. Places(Tail(Line), Holders \cup {c}, buffer', Age)
      BY <1>5, <1>6, <1>7, <1>12, <2>5, <2>6, PlacesTaken
    <3>2. QED
      BY <1>5, <2>3, <2>5, <3>1
  <2>8. Counts(Line, Holders, buffer, open)'
    <3>1. Counts(Tail(Line), Holders \cup {c}, buffer', open)
      BY <1>6, <1>7, <1>12, <2>5, <2>6, CountsTaken
    <3>2. QED
      BY <1>2, <2>3, <2>5, <3>1
  <2>9. /\ level' = level /\ state' = [state EXCEPT ![p] = "ready"]
        /\ ready'[5] = Append(ready[5], p)
    <3>1. level[p] = 5
      BY <1>9, <2>2
    <3>2. QED
      BY <1>9, <1>15, <3>1 DEF MakeReady
  <2> HIDE DEF p
  <2>10. /\ Len(ready'[5]) = Len(ready[5]) + 1 /\ ready'[5] \in Seq(Task)
         /\ \A j \in 1 .. Len(ready[5]) : ready'[5][j] = ready[5][j]
         /\ ready'[5][Len(ready[5]) + 1] = p
         /\ Head(ready'[5]) = c
    BY <1>3, <2>2, <2>9, AppendElements, TailElements
  <2>11. Before(ready'[5], Holders', buffer')
    <3>1. Before(ready'[5], Holders, buffer)
      BY <1>3, <1>6, <1>10, <2>2, <2>9, BeforeLater
    <3>2. ASSUME NEW j \in 1 .. Len(ready'[5]), ready'[5][j] = c PROVE j = 1
      <4>1. j # Len(ready[5]) + 1
        BY <2>2, <2>10, <3>2
      <4>2. j \in 1 .. Len(ready[5])
        BY <1>3, <2>10, <4>1
      <4>3. QED
        BY <1>3, <2>10, <3>2, <4>2
    <3>3. \A h \in 1 .. Len(ready'[5]) : h # 1 => 1 < h
      BY <1>3, <2>10
    <3>4. QED
      BY <2>3, <2>6, <3>1, <3>2, <3>3 DEF Before
  <2>12. InTurn'
    <3>1. \A d \in Holders' : state'[d] = "ready" /\ buffer'[d][1] \in Producer
      <4>1. Head(Line) \in Message
        BY <1>6, <2>5, ElementsShorter
      <4>2. \A d \in Holders' : state'[d] = "ready"
        BY <1>3, <1>8, <1>9, <1>10, <2>2, <2>3, <2>9, HoldersListed
      <4>3. QED
        BY <1>10, <1>13, <2>3, <2>6, <4>1, <4>2
    <3>2. \A d \in Holders' : Head(ready'[5]) # buffer'[d][1]
      BY <1>3, <2>10, <3>1
    <3>3. QED
      BY <2>11, <3>1, <3>2 DEF InTurn
  <2>13. OnLevels' /\ Room'
    <3>1. OnLevels'
      BY <1>9, <2>2, <2>9 DEF OnLevels
    <3>2. receivers = << >>
      BY <1>11, <1>15
    <3>3. Room'
      BY <1>4, <1>11, <1>15, <2>4, <3>2 DEF Room
    <3>4. QED
      BY <3>1, <3>3
  <2>14. QED
    BY <1>1, <2>7, <2>8, <2>12, <2>13 DEF OnceInv
<1>16. CASE /\ queue = << >>
            /\ Block(c, "blocked") /\ receivers' = Append(receivers, c)
            /\ UNCHANGED <<queue, senders, buffer>>
  <2>1. Holders' = Holders
    <3>1. Elements(receivers') = Elements(receivers) \cup {c}
      BY <1>3, <1>6, <1>16, ElementsLonger
    <3>2. QED
      BY <1>8, <1>12, <3>1 DEF Holders
  <2>2. Line' = Line
    BY <1>16 DEF Line
  <2>3. Places(Line, Holders, buffer, Age)' /\ Counts(Line, Holders, buffer, open)'
    BY <1>2, <1>5, <1>7, <1>16, <2>1, <2>2
  <2>4. /\ level' = level /\ state' = [state EXCEPT ![c] = "blocked"]
        /\ ready'[5] = Tail(ready[5])
    BY <1>3, <1>9, <1>16 DEF Block
  <2>5. InTurn'
    <3>1. /\ Before(ready'[5], Holders, buffer)
          /\ ready'[5] # << >> =>
                \A d \in Holders : \A j \in 1 .. Len(ready[5]) :
                    Head(ready'[5]) = buffer[d][1] /\ ready[5][j] = d => d = c
      <4>1. /\ Before(Tail(ready[5]), Holders, buffer)
            /\ Tail(ready[5]) # << >> =>
                   \A d \in Holders : \A j \in 1 .. Len(ready[5]) :
                       Head(Tail(ready[5])) = buffer[d][1] /\ ready[5][j] = d =>
                           d = ready[5][1]
        BY <1>3, <1>10, BeforeRest
      <4>2. QED
        BY <1>3, <2>4, <4>1
    <3>2. ASSUME NEW d \in Holders, ready'[5] # << >>, Head(ready'[5]) = buffer[d][1]
          PROVE  FALSE
      <4>1. \E j \in 1 .. Len(ready[5]) : ready[5][j] = d
        BY HoldersListed
      <4>2. QED
        BY <1>12, <3>1, <3>2, <4>1
    <3>3. \A d \in Holders : state'[d] = "ready"
      BY <1>6, <1>8, <1>9, <1>10, <1>12, <2>4
    <3>4. QED
      BY <1>16, <2>1, <3>1, <3>2, <3>3 DEF InTurn
  <2>6. OnLevels' /\ Room'
    <3>1. OnLevels'
      BY <1>9, <2>4 DEF OnLevels
    <3>2. Room'
      BY <1>4, <1>11, <1>16 DEF Room
    <3>3. QED
      BY <3>1, <3>2
  <2>7. QED
    BY <1>1, <2>3, <2>5, <2>6 DEF OnceInv
<1>17. QED
  BY <1>4, <1>14, <1>15, <1>16

LEMMA OnceCheck ==
    ASSUME MaxWord >= 11, OnceInv, NEW c \in Consumer, Check(c)
    PROVE  OnceInv'
<1>1. TaskInv' /\ TaskInv
  BY TaskCheckInv DEF OnceInv
<1>2. /\ Runs(c) /\ pc[c] = "check" /\ pc' = [pc EXCEPT ![c] = "receive"]
      /\ open' = open \ {buffer[c]}
      /\ UNCHANGED <<state, level, ready, capacity, queue, senders, receivers, buffer, calls,
                     local_counter>>
  BY DEF Check, Goto, queues, kernel
<1>3. c \in Task /\ c \notin Elements(receivers) /\ c \notin Producer
  BY <1>2, OnceRuns, TaskNames
<1>4. c \in Holders /\ Holders' = Holders \ {c}
  BY <1>1, <1>2, <1>3, TaskTypes, TaskNames DEF Holders
<1>5. Age' = Age /\ Age \in [Message -> Word]
  <2>1. \A p \in Producer : p \in Task /\ p # c
    BY <1>3, TaskNames
  <2>2. \A p \in Producer : LastSent(p)' = LastSent(p)
    BY <1>1, <1>2, <2>1, TaskTypes DEF LastSent
  <2>3. QED
    BY <1>1, <2>2, AgeSame, AgeTypes
<1>6. Line' = Line /\ Line \in Seq(Message)
  BY <1>1, <1>2, LineFacts DEF Line
<1>7. Places(Line, Holders, buffer, Age)'
  BY <1>2, <1>4, <1>5, <1>6, PlacesFewer DEF OnceInv
<1>8. Counts(Line, Holders, buffer, open)'
  <2>1. Counts(Line, Holders \ {c}, buffer, open \ {buffer[c]})
    BY <1>4, <1>5, <1>6, CountsChecked DEF OnceInv
  <2>2. QED
    BY <1>2, <1>4, <1>6, <2>1
<1>9. InTurn'
  BY <1>2, <1>4, <1>5 DEF OnceInv, InTurn, Before
<1>10. OnLevels' /\ Room'
  BY <1>2 DEF OnceInv, OnLevels, Room
<1>11. QED
  BY <1>1, <1>7, <1>8, <1>9, <1>10 DEF OnceInv

LEMMA OnceInit ==
    ASSUME Init \/ ThreadX!Init
    PROVE  OnceInv
<1>1. TaskInv
  BY TaskInit
<1>2. StartedWith(1)
  BY TaskNames
  DEF Init, KernelInit, rtos_main_zephyr, StartedWith, Task, Level, ThreadX!Init,
   ThreadX!KernelInit, ThreadX!rtos_main_threadx, ThreadX!StartedWith, ThreadX!Task,
   ThreadX!Level
<1>3. queue = << >> /\ senders = << >> /\ receivers = << >> /\ open = {} /\ calls = 0
  BY DEF Init, QueueInit, ThreadX!Init, ThreadX!QueueInit
<1>4. \A c \in Consumer : pc[c] = "receive"
  <2>1. pc = [t \in Task |-> CASE t = Main -> "initialize"
                               [] t \in Producer -> "send"
                               [] t \in Consumer -> "receive"
                               [] t = Reporter -> "sleep"]
    BY DEF Init, Task, Producer, Consumer, Reporter, ThreadX!Init, ThreadX!Task,
       ThreadX!Producer, ThreadX!Consumer, ThreadX!Reporter
  <2>2. QED
    BY <2>1, TaskNames
<1>5. Holders = {}
  BY <1>4 DEF Holders
<1>6. OnLevels
  BY <1>2, TaskNames DEF OnLevels, StartedWith
<1>7. Line \in Seq(Message) /\ Len(Line) = 0
  <2>1. Len(Line) = Len(queue) + Len(senders) /\ Line \in Seq(Message)
    BY <1>1, LineFacts
  <2>2. Len(queue) = 0 /\ Len(senders) = 0
    BY <1>3
  <2>3. QED
    BY <2>1, <2>2
<1>8. Places(Line, Holders, buffer, Age)
  BY <1>5, <1>7 DEF Places
<1>9. Counts(Line, Holders, buffer, open)
  <2>1. Elements(Line) = {}
    BY <1>7 DEF Elements
  <2>2. IsFiniteSet({}) /\ Cardinality({}) = 0
    BY FS_EmptySet
  <2>3. QED
    BY <1>3, <1>5, <1>7, <2>1, <2>2 DEF Counts
<1>10. InTurn /\ Room
  BY <1>3, <1>5 DEF InTurn, Before, Room
<1>11. QED
  BY <1>1, <1>6, <1>8, <1>9, <1>10 DEF OnceInv

LEMMA OnceStutter ==
    ASSUME OnceInv, UNCHANGED mcvars
    PROVE  OnceInv'
<1>1. UNCHANGED <<state, level, ready, capacity, queue, senders, receivers, buffer, calls, pc,
                  local_counter, totals, last_total, open>>
  BY DEF mcvars, vars, kernel, queues
<1>2. TaskInv'
  BY TaskStutter DEF OnceInv
<1>3. Holders' = Holders /\ Age' = Age
  <2>1. \A p \in Producer : LastSent(p)' = LastSent(p)
    BY <1>1 DEF LastSent
  <2>2. QED
    BY <1>1, <2>1, AgeSame DEF Holders
<1>4. OnLevels' /\ Room'
  BY <1>1 DEF OnceInv, OnLevels, Room
<1>5. \A c \in Holders : state'[c] = "ready"
  BY <1>1, HoldersListed
<1>6. QED
  BY <1>1, <1>2, <1>3, <1>4, <1>5, OnceOther

OfOnceInv == test = "task" => OnceInv

LEMMA MCOnceInv == ASSUME MaxWord >= 11 PROVE MCSpec => []OfOnceInv
<1>1. MCInit => OfOnceInv
  BY OnceInit DEF MCInit, OfOnceInv
<1>2. OfOnceInv /\ [MCNext]_mcvars => OfOnceInv'
  <2> SUFFICES ASSUME OfOnceInv, [MCNext]_mcvars, test' = "task" PROVE OnceInv'
    BY DEF OfOnceInv
  <2>1. test = "task" /\ OnceInv
    <3>1. UNCHANGED test
      BY DEF MCNext, MCMainStep, MCThreadStep, MCWake, MCHandler, OfTask, OfIsr, mcvars
    <3>2. QED
      BY <3>1 DEF OfOnceInv
  <2>2. CASE MCNext
    <3>1. Initialize \/ ThreadX!Initialize \/ Sleep \/ Report \/ ThreadStep \/ Wake
      BY <2>1, <2>2, SameThreadStep, SameReporter
      DEF MCNext, MCMainStep, MCThreadStep, MCWake, MCHandler, OfIsr, MainStep,
       ThreadX!MainStep
    <3>2. QED
      BY <2>1, <3>1, OnceInitialize, OnceReporter, OnceSend, OnceSent, OnceReceive, OnceCheck
      DEF ThreadStep
  <2>3. QED
    BY <2>1, <2>2, OnceStutter
<1>3. QED
  BY <1>1, <1>2, PTL DEF MCSpec

\* The invariant in the words of the benchmark's module.
LEMMA OnceIs == ASSUME OnceInv PROVE EachMessageOnce
<1>1. TaskInv /\ Counts(Line, Holders, buffer, open)
  BY DEF OnceInv
<1>2. {c \in Consumer : Given(c)} = Holders
  BY <1>1, TaskTypes, NotElement DEF Given, Holders
<1>3. /\ queue \in Seq(Message) /\ senders \in Seq(Task \X Message)
      /\ Len(Line) = Len(queue) + Len(senders)
      /\ Len(queue) \in Nat /\ Len(senders) \in Nat
      /\ \A k \in 1 .. Len(queue) : Line[k] = queue[k]
      /\ \A k \in 1 .. Len(senders) : Line[Len(queue) + k] = senders[k][2]
  BY <1>1, LineFacts, InLineType DEF Line
<1>4. Elements(Line) = {queue[k] : k \in DOMAIN queue}
                        \cup {senders[k][2] : k \in DOMAIN senders}
  <2>1. DOMAIN queue = 1 .. Len(queue) /\ DOMAIN senders = 1 .. Len(senders)
    BY <1>3, LenProperties
  <2>2. ASSUME NEW k \in 1 .. Len(Line)
        PROVE  \/ k \in 1 .. Len(queue) /\ Line[k] = queue[k]
               \/ \E h \in 1 .. Len(senders) : Line[k] = senders[h][2]
    <3>1. CASE k <= Len(queue)
      BY <1>3, <3>1
    <3>2. CASE k > Len(queue)
      <4>1. k - Len(queue) \in 1 .. Len(senders) /\ Len(queue) + (k - Len(queue)) = k
        BY <1>3, <3>2
      <4>2. QED
        BY <1>3, <4>1
    <3>3. QED
      BY <1>3, <3>1, <3>2
  <2>3. /\ \A k \in 1 .. Len(queue) : k \in 1 .. Len(Line)
        /\ \A k \in 1 .. Len(senders) : Len(queue) + k \in 1 .. Len(Line)
    BY <1>3
  <2>4. \A k \in 1 .. Len(queue) : queue[k] \in Elements(Line)
    BY <1>3, <2>3 DEF Elements
  <2>5. \A k \in 1 .. Len(senders) : senders[k][2] \in Elements(Line)
    BY <1>3, <2>3 DEF Elements
  <2>6. QED
    BY <2>1, <2>2, <2>4, <2>5 DEF Elements
<1>5. UnderWay = open
  BY <1>1, <1>2, <1>4 DEF UnderWay, Counts
<1>6. Cardinality(open) = Len(queue) + Len(senders) + Cardinality({c \in Consumer : Given(c)})
  BY <1>1, <1>2, <1>3 DEF Counts
<1>7. QED
  BY <1>5, <1>6 DEF EachMessageOnce

(***************************************************************************)
(* On ThreadX and Zephyr every message of message_task_test.c (lines       *)
(* 150-163) is at one place, with a waiting producer, in the queue or with *)
(* one consumer, until a consumer has checked it, in every order of the    *)
(* tasks and however often the numbers wrap.  Twelve messages of one       *)
(* producer can be on their way, so the word must tell twelve numbers      *)
(* apart; an unsigned long does.                                           *)
(***************************************************************************)
THEOREM MessagesCheckedOnce == ASSUME MaxWord >= 11 PROVE MCSpec => []MessagesOnce
<1>1. OfOnceInv => MessagesOnce
  BY OnceIs DEF OfOnceInv, MessagesOnce
<1>2. QED
  BY <1>1, MCOnceInv, PTL

-----------------------------------------------------------------------------
(* The benchmarks with one thread.                                         *)

ProcessTask == {0, Main}
ProcessLevel == 0 .. 32

ProcessOwn(p) ==
    [t \in ProcessTask |-> IF t = Main THEN IF p = "FreeRTOS" THEN 30 ELSE 1
                           ELSE IF p = "FreeRTOS" THEN 23 ELSE 10]

ProcessKernel(p) == FixedLevels(ProcessTask, ProcessLevel, ProcessOwn(p))

ProcessLabel == {"initialize", "sleep", "report", "take", "give", "count", "break"}

PoolBlock == 1 .. 16 + HeapBlocks

ProcessTypes ==
    /\ count \in [{0} -> Nat]
    /\ wants = [t \in ProcessTask |-> None]
    /\ capacity \in {0, 1, 8, 10} /\ queue \in Seq(Word) /\ Len(queue) <= capacity
    /\ senders = << >> /\ receivers = << >>
    /\ buffer \in [ProcessTask -> Word \cup {NoMessage}]
    /\ free \in Seq(PoolBlock) /\ memory_ptr \in PoolBlock \cup {NoBlock}
    /\ process_test \in {"basic", "memory", "message", "synchronization"}
    /\ process_calls \in 0 .. 3
    /\ process_pc \in [ProcessTask -> ProcessLabel]
    /\ sent \in Word /\ counter \in Word /\ last_counter \in Word

\* The calls of the initialisation, and which of them creates the thread.
LastCall == IF process_test = "basic" THEN 2 ELSE 3
CreateCall == IF process_test = "memory" THEN 2 ELSE 1

\* The initialisation, while the main task is ready and nobody else runs.
Starting(p) ==
    /\ process_calls < LastCall
    /\ process_pc[Main] = "initialize" /\ state[Main] = "ready"
    /\ state[0] = IF process_calls < CreateCall THEN "absent"
                  ELSE IF p = "FreeRTOS" \/ process_calls > CreateCall THEN "ready"
                  ELSE "suspended"
    /\ process_pc[0] = "take" /\ queue = << >>
    /\ process_test = "memory" /\ process_calls >= 1 => free = On(p)!Pool

Complete(p) ==
    /\ process_test = "memory" => free = On(p)!Pool
    /\ process_test = "message" => queue = << >>
    /\ process_test = "synchronization" => count[0] = 1

WithThread(p) ==
    /\ process_test # "basic"
    /\ process_test = "memory" => <<memory_ptr>> \o free = On(p)!Pool
    /\ process_test = "message" => queue = <<sent>>
    /\ process_test = "synchronization" => count[0] = 0

\* The turns of the thread, which is always ready.
Turning(p) ==
    /\ process_calls = LastCall
    /\ process_pc[Main] \in {"sleep", "report"} /\ state[Main] \in {"ready", "asleep"}
    /\ state[0] = "ready" /\ process_pc[0] \in {"take", "give", "count"}
    /\ IF process_pc[0] = "give" THEN WithThread(p) ELSE Complete(p)
    /\ process_test = "message" => capacity >= 1 /\ (process_pc[0] = "count" => buffer[0] = sent)

ProcessInv(p) ==
    /\ ProcessKernel(p)
    /\ ProcessTypes
    /\ Starting(p) \/ Turning(p)

LEMMA ProcessNames ==
    /\ Main # 0 /\ None # 0 /\ 0 \in ProcessTask /\ Main \in ProcessTask
    /\ ProcessPort = {"FreeRTOS", "ThreadX", "Zephyr"}
    /\ HeapBlocks \in Nat \ {0} /\ NoBlock \notin PoolBlock
    /\ \A p \in ProcessPort : On(p)!Task = ProcessTask
    /\ \A p \in ProcessPort : On(p)!Level = ProcessLevel
    /\ \A p \in ProcessPort : On(p)!State = State
<1>1. /\ Main # 0 /\ None # 0 /\ 0 \in ProcessTask /\ Main \in ProcessTask
      /\ ProcessPort = {"FreeRTOS", "ThreadX", "Zephyr"}
  BY ProcessAssumptions DEF ProcessPort, ProcessTask
<1>2. \A p \in ProcessPort : On(p)!Task = ProcessTask
  BY DEF On!Task, ProcessTask
<1>3. HeapBlocks \in Nat \ {0} /\ NoBlock \notin PoolBlock
  <2>1. On("FreeRTOS")!Configuration
    BY ProcessAssumptions DEF ProcessPort
  <2>2. QED
    BY <2>1 DEF On!Configuration, On!MaxBlocks, PoolBlock
<1>4. QED
  BY <1>1, <1>2, <1>3 DEF On!Level, ProcessLevel, On!State, State

\* The main task is the most urgent one.
LEMMA ProcessLevels ==
    ASSUME NEW p \in ProcessPort
    PROVE  /\ ProcessOwn(p) \in [ProcessTask -> ProcessLevel]
           /\ \A t, u \in ProcessTask : t # u => ProcessOwn(p)[t] # ProcessOwn(p)[u]
           /\ On(p)!MoreUrgent(ProcessOwn(p)[Main], ProcessOwn(p)[0])
<1>1. /\ ProcessOwn(p)[Main] = IF p = "FreeRTOS" THEN 30 ELSE 1
      /\ ProcessOwn(p)[0] = IF p = "FreeRTOS" THEN 23 ELSE 10
  BY ProcessNames DEF ProcessOwn
<1>2. /\ ProcessOwn(p) \in [ProcessTask -> ProcessLevel]
      /\ \A t, u \in ProcessTask : t # u => ProcessOwn(p)[t] # ProcessOwn(p)[u]
  BY ProcessNames DEF ProcessOwn, ProcessTask, ProcessLevel
<1>3. QED
  BY <1>1, <1>2 DEF On!MoreUrgent

\* Who runs is ready, and the thread runs only when all is there.
LEMMA ProcessTurn ==
    ASSUME NEW p \in ProcessPort, ProcessInv(p),
           NEW t \in ProcessTask, On(p)!Runs(t)
    PROVE  state[t] = "ready" /\ (t = 0 => Turning(p))
<1>1. /\ state[t] = "ready"
      /\ \A l \in ProcessLevel : On(p)!MoreUrgent(l, level[t]) => ready[l] = << >>
  BY ProcessNames DEF On!Runs
<1>2. SUFFICES ASSUME t = 0, state[Main] = "ready" PROVE FALSE
  BY <1>1 DEF ProcessInv, Starting
<1>3. FixedLevels(ProcessTask, ProcessLevel, ProcessOwn(p))
  BY DEF ProcessInv, ProcessKernel
<1>4. /\ level[t] = ProcessOwn(p)[0] /\ ready[ProcessOwn(p)[Main]] # << >>
      /\ ProcessOwn(p)[Main] \in ProcessLevel
  BY <1>1, <1>2, <1>3, FixedTypes, ProcessNames
<1>5. QED
  BY <1>1, <1>4, ProcessLevels

LEMMA ProcessFacts ==
    ASSUME NEW p \in ProcessPort, ProcessInv(p)
    PROVE  /\ ProcessKernel(p) /\ ProcessTypes /\ (Starting(p) \/ Turning(p))
           /\ state \in [ProcessTask -> State]
           /\ 0 \in ProcessTask /\ Main \in ProcessTask /\ Main # 0
           /\ process_pc \in [ProcessTask -> ProcessLabel]
           /\ LastCall \in {2, 3} /\ CreateCall \in {1, 2}
           /\ count[0] \in Nat
<1>1. ProcessKernel(p) /\ ProcessTypes /\ (Starting(p) \/ Turning(p))
  BY DEF ProcessInv
<1>2. state \in [ProcessTask -> State]
  BY <1>1, FixedTypes DEF ProcessKernel
<1>3. QED
  BY <1>1, <1>2, ProcessNames DEF ProcessTypes, LastCall, CreateCall

\* The pool has a first block.
LEMMA PoolBlocks ==
    ASSUME NEW p \in ProcessPort
    PROVE  /\ On(p)!Pool \in Seq(PoolBlock)
           /\ On(p)!Pool # << >>
<1>1. On(p)!Pool =
        On(p)!Blocks(CASE p = "FreeRTOS" -> HeapBlocks [] p = "ThreadX" -> 15
                                 [] p = "Zephyr" -> 8)
  <2>1. 2048 \div (128 + 4) = 15
    OBVIOUS
  <2>2. QED
    BY <2>1, ProcessNames
    DEF On!Pool, On!freertos_memory_pool,
        On!threadx_memory_pool, On!zephyr_memory_pool
<1>2. PICK n \in Nat : n \in PoolBlock /\ On(p)!Pool = [b \in 1 .. n |-> b]
  BY <1>1, ProcessNames DEF On!Blocks, PoolBlock
<1>3. [b \in 1 .. n |-> b] \in [1 .. n -> PoolBlock] /\ n \in Nat \ {0}
  BY <1>2, ProcessNames DEF PoolBlock
<1>4. [b \in 1 .. n |-> b] \in Seq(PoolBlock) /\ [b \in 1 .. n |-> b][1] = 1
  BY <1>3, SeqDef
<1>5. [b \in 1 .. n |-> b] # << >>
  <2>1. DOMAIN [b \in 1 .. n |-> b] = 1 .. n /\ 1 \in 1 .. n /\ DOMAIN << >> = {}
    BY <1>3
  <2>2. QED
    BY <2>1
<1>6. QED
  BY <1>2, <1>4, <1>5

\* The first element is taken off and put back.
LEMMA FirstAndRest ==
    ASSUME NEW S, NEW q \in Seq(S), q # << >>
    PROVE  /\ Head(q) \in S /\ Tail(q) \in Seq(S) /\ <<Head(q)>> \o Tail(q) = q
<1>1. Head(q) \in S /\ Tail(q) \in Seq(S) /\ Len(q) > 0 /\ Head(q) = q[1]
      /\ Len(Tail(q)) = Len(q) - 1
      /\ \A k \in 1 .. Len(q) - 1 : Tail(q)[k] = q[k + 1]
  BY HeadTailProperties, EmptySeq
<1>2. <<Head(q)>> \in Seq(S) /\ Len(<<Head(q)>>) = 1 /\ <<Head(q)>>[1] = Head(q)
  BY <1>1
<1>3. /\ <<Head(q)>> \o Tail(q) \in Seq(S) /\ Len(<<Head(q)>> \o Tail(q)) = Len(q)
      /\ \A k \in 1 .. Len(q) : (<<Head(q)>> \o Tail(q))[k] = q[k]
  BY <1>1, <1>2, ConcatProperties
<1>4. QED
  BY <1>1, <1>3, SeqEqual

LEMMA FirstOf ==
    ASSUME NEW S, NEW x, NEW q \in Seq(S), NEW r \in Seq(S), <<x>> \o q = r, r # << >>
    PROVE  x \in S
<1>1. /\ <<x>> \in Seq(S \cup {x}) /\ Len(<<x>>) = 1 /\ <<x>>[1] = x
      /\ q \in Seq(S \cup {x}) /\ Len(q) \in Nat
  OBVIOUS
<1>2. (<<x>> \o q)[1] = x
  BY <1>1, ConcatProperties
<1>3. r[1] \in S
  BY HeadTailProperties, EmptySeq
<1>4. QED
  BY <1>2, <1>3

\* The running task leaves the processor.
LEMMA ProcessLeaves ==
    ASSUME NEW p \in ProcessPort, ProcessInv(p),
           On(p)!Runs(Main), On(p)!Block(Main, "asleep")
    PROVE  ProcessKernel(p)' /\ state' = [state EXCEPT ![Main] = "asleep"]
<1>1. /\ state' = [state EXCEPT ![Main] = "asleep"] /\ level' = level
      /\ ready' = [ready EXCEPT ![level[Main]] = Tail(@)]
  BY DEF On!Block
<1>2. /\ state[Main] = "ready" /\ Main \in ProcessTask
      /\ FixedLevels(ProcessTask, ProcessLevel, ProcessOwn(p))
  BY ProcessTurn, ProcessNames DEF ProcessInv, ProcessKernel
<1>3. FixedLevels(ProcessTask, ProcessLevel, ProcessOwn(p))'
  BY <1>1, <1>2, FixedLeaves
<1>4. QED
  BY <1>1, <1>3 DEF ProcessKernel

\* A task that was created and is not ready becomes so.
LEMMA ProcessWakes ==
    ASSUME NEW p \in ProcessPort, ProcessInv(p),
           NEW t \in ProcessTask, state[t] # "absent", state[t] # "ready",
           On(p)!MakeReady(t)
    PROVE  ProcessKernel(p)' /\ state' = [state EXCEPT ![t] = "ready"]
<1>1. /\ state' = [state EXCEPT ![t] = "ready"] /\ level' = level
      /\ ready' = [ready EXCEPT ![level[t]] = Append(@, t)]
  BY DEF On!MakeReady
<1>2. FixedLevels(ProcessTask, ProcessLevel, ProcessOwn(p))
  BY DEF ProcessInv, ProcessKernel
<1>3. FixedLevels(ProcessTask, ProcessLevel, ProcessOwn(p))'
  BY <1>1, <1>2, FixedWakes
<1>4. QED
  BY <1>1, <1>3 DEF ProcessKernel

\* The thread is created: FreeRTOS starts it, the others do not.
LEMMA ProcessCreates ==
    ASSUME NEW p \in ProcessPort, ProcessInv(p),
           On(p)!tm_thread_create(0, 10)
    PROVE  /\ ProcessKernel(p)'
           /\ state' = [state EXCEPT ![0] = IF p = "FreeRTOS" THEN "ready" ELSE "suspended"]
<1>1. /\ ProcessOwn(p)[0] = IF p = "FreeRTOS" THEN 23 ELSE 10
      /\ 0 \in ProcessTask
  BY ProcessNames DEF ProcessOwn
<1>2. FixedLevels(ProcessTask, ProcessLevel, ProcessOwn(p))
  BY DEF ProcessInv, ProcessKernel
<1>3. CASE p = "FreeRTOS"
  <2>1. On(p)!freertos_thread_create(0, 10)
    BY <1>3 DEF On!tm_thread_create
  <2>2. On(p)!AddReady(0, 23)
    BY <2>1 DEF On!freertos_thread_create
  <2>3. SUFFICES ASSUME NEW l, l = ProcessOwn(p)[0], On(p)!AddReady(0, l)
                 PROVE  /\ FixedLevels(ProcessTask, ProcessLevel, ProcessOwn(p))'
                        /\ state' = [state EXCEPT ![0] = "ready"]
    BY <1>1, <1>3, <2>2 DEF ProcessKernel
  <2>4. /\ state' = [state EXCEPT ![0] = "ready"] /\ state[0] # "ready"
        /\ level' = [level EXCEPT ![0] = l] /\ ready' = [ready EXCEPT ![l] = Append(@, 0)]
    BY <2>3 DEF On!AddReady
  <2>5. QED
    BY <1>1, <1>2, <2>3, <2>4, FixedAddReady
<1>4. CASE p # "FreeRTOS"
  <2>1. On(p)!AddSuspended(0, 10)
    BY <1>4, ProcessNames
    DEF On!tm_thread_create, On!threadx_thread_create,
        On!zephyr_thread_create
  <2>2. SUFFICES ASSUME NEW l, l = ProcessOwn(p)[0], On(p)!AddSuspended(0, l)
                 PROVE  /\ FixedLevels(ProcessTask, ProcessLevel, ProcessOwn(p))'
                        /\ state' = [state EXCEPT ![0] = "suspended"]
    BY <1>1, <1>4, <2>1 DEF ProcessKernel
  <2>3. /\ state' = [state EXCEPT ![0] = "suspended"] /\ state[0] # "ready"
        /\ level' = [level EXCEPT ![0] = l] /\ ready' = ready
    BY <2>2 DEF On!AddSuspended
  <2>4. QED
    BY <1>1, <1>2, <2>2, <2>3, FixedAddSuspended
<1>5. QED
  BY <1>3, <1>4

LEMMA ProcessStays ==
    ASSUME NEW p \in ProcessPort, ProcessInv(p), UNCHANGED <<state, level, ready>>
    PROVE  ProcessKernel(p)'
  BY FixedStays DEF ProcessInv, ProcessKernel

LEMMA ProcessInitInv ==
    ASSUME NEW p \in ProcessPort, On(p)!Init
    PROVE  ProcessInv(p)
<1>1. Main \in ProcessTask /\ 0 \in ProcessTask /\ Main # 0 /\ 0 \in ProcessLevel
  BY ProcessNames DEF ProcessLevel
<1>2. /\ state = [t \in ProcessTask |-> IF t = Main THEN "ready" ELSE "absent"]
      /\ level = [t \in ProcessTask |-> IF t = Main THEN ProcessOwn(p)[Main] ELSE 0]
      /\ ready = [k \in ProcessLevel |->
                    IF k = ProcessOwn(p)[Main] THEN <<Main>> ELSE << >>]
  <2>1. ProcessOwn(p)[Main] = IF p = "FreeRTOS" THEN 30 ELSE 1
    BY <1>1 DEF ProcessOwn
  <2>2. On(p)!StartedWith(ProcessOwn(p)[Main])
    BY <2>1, ProcessNames
    DEF On!Init, On!KernelInit, On!rtos_main_freertos,
        On!rtos_main_threadx, On!rtos_main_zephyr
  <2>3. QED
    BY <2>2, ProcessNames DEF On!StartedWith
<1>3. ProcessKernel(p)
  BY <1>1, <1>2, ProcessLevels, FixedStarts DEF ProcessKernel
<1>4. /\ count = [s \in {0} |-> 0] /\ wants = [t \in ProcessTask |-> None]
      /\ capacity = 0 /\ queue = << >> /\ senders = << >> /\ receivers = << >>
      /\ buffer = [t \in ProcessTask |-> NoMessage]
      /\ free = (IF p = "FreeRTOS" THEN On(p)!Pool ELSE << >>)
      /\ memory_ptr = NoBlock
      /\ process_test \in {"basic", "memory", "message", "synchronization"}
      /\ process_calls = 0
      /\ process_pc = [t \in ProcessTask |-> IF t = Main THEN "initialize" ELSE "take"]
      /\ sent = 0 /\ counter = 0 /\ last_counter = 0
  <2>1. DOMAIN On(p)!Calls = {"basic", "memory", "message", "synchronization"}
    BY DEF On!Calls
  <2>2. QED
    BY <2>1, ProcessNames
    DEF On!Init, On!SemaphoreInit, On!QueueInit,
        On!MemoryInit
<1>5. ProcessTypes
  <2>1. 0 \in Word /\ << >> \in Seq(Word) /\ Len(<< >>) = 0
    BY MaxWordAssumption DEF Word
  <2>2. free \in Seq(PoolBlock)
    BY <1>4, PoolBlocks
  <2>3. count \in [{0} -> Nat] /\ buffer \in [ProcessTask -> Word \cup {NoMessage}]
    BY <1>4
  <2>4. process_pc \in [ProcessTask -> ProcessLabel]
    BY <1>4 DEF ProcessLabel
  <2>5. QED
    BY <1>4, <2>1, <2>2, <2>3, <2>4 DEF ProcessTypes
<1>6. Starting(p)
  BY <1>1, <1>2, <1>4 DEF Starting, LastCall, CreateCall
<1>7. QED
  BY <1>3, <1>5, <1>6 DEF ProcessInv

-----------------------------------------------------------------------------
(* Their steps.                                                            *)

LEMMA ProcessLengths ==
    ASSUME NEW p \in ProcessPort, ProcessInv(p)
    PROVE  Len(On(p)!Calls[process_test]) = LastCall
<1>1. process_test \in {"basic", "memory", "message", "synchronization"}
  BY ProcessFacts DEF ProcessTypes
<1>2. On(p)!Calls[process_test] =
        CASE process_test = "basic" -> <<"thread", "resume">>
          [] process_test = "memory" -> <<"pool", "thread", "resume">>
          [] process_test = "message" -> <<"thread", "resume", "queue">>
          [] process_test = "synchronization" -> <<"thread", "resume", "semaphore">>
  BY <1>1 DEF On!Calls
<1>3. QED
  BY <1>1, <1>2 DEF LastCall

\* What each call of the four initialisations is.
LEMMA ProcessCalls ==
    ASSUME NEW p \in ProcessPort, ProcessInv(p), process_calls < LastCall
    PROVE  On(p)!Calls[process_test][process_calls + 1] =
               IF process_calls + 1 = CreateCall THEN "thread"
               ELSE IF process_calls = CreateCall THEN "resume"
               ELSE IF process_test = "memory" THEN "pool"
               ELSE IF process_test = "message" THEN "queue" ELSE "semaphore"
<1>1. process_calls \in {0, 1, 2} /\ process_test \in {"basic", "memory", "message", "synchronization"}
  BY ProcessFacts DEF ProcessTypes
<1>2. On(p)!Calls[process_test] =
        CASE process_test = "basic" -> <<"thread", "resume">>
          [] process_test = "memory" -> <<"pool", "thread", "resume">>
          [] process_test = "message" -> <<"thread", "resume", "queue">>
          [] process_test = "synchronization" -> <<"thread", "resume", "semaphore">>
  BY <1>1 DEF On!Calls
<1>3. CASE process_test = "basic"
  BY <1>1, <1>2, <1>3 DEF LastCall, CreateCall
<1>4. CASE process_test = "memory"
  BY <1>1, <1>2, <1>4 DEF LastCall, CreateCall
<1>5. CASE process_test = "message"
  BY <1>1, <1>2, <1>5 DEF LastCall, CreateCall
<1>6. CASE process_test = "synchronization"
  BY <1>1, <1>2, <1>6 DEF LastCall, CreateCall
<1>7. QED
  BY <1>1, <1>3, <1>4, <1>5, <1>6

\* One call more: who is ready, and what exists.
LEMMA ProcessInitializeInv ==
    ASSUME NEW p \in ProcessPort, ProcessInv(p),
           On(p)!Initialize
    PROVE  ProcessInv(p)'
<1> DEFINE call == On(p)!Calls[process_test][process_calls + 1]
<1>1. /\ process_pc[Main] = "initialize" /\ process_calls' = process_calls + 1
      /\ process_pc' = [process_pc EXCEPT ![Main] = IF process_calls + 1 = Len(On(p)!Calls[process_test])
                                    THEN "sleep" ELSE "initialize"]
      /\ UNCHANGED <<process_test, sent, counter, last_counter>>
  BY DEF On!Initialize, On!Goto
<1>2. /\ ProcessTypes /\ Starting(p) /\ state \in [ProcessTask -> State]
      /\ process_pc \in [ProcessTask -> ProcessLabel] /\ process_calls \in Nat
      /\ 0 \in ProcessTask /\ Main \in ProcessTask /\ Main # 0
      /\ LastCall \in {2, 3} /\ CreateCall \in {1, 2}
      /\ process_test \in {"basic", "memory", "message", "synchronization"}
  BY <1>1, ProcessFacts DEF Turning, ProcessTypes
<1>3. /\ call = IF process_calls + 1 = CreateCall THEN "thread"
                ELSE IF process_calls = CreateCall THEN "resume"
                ELSE IF process_test = "memory" THEN "pool"
                ELSE IF process_test = "message" THEN "queue" ELSE "semaphore"
      /\ process_pc' = [process_pc EXCEPT ![Main] =
                        IF process_calls + 1 = LastCall THEN "sleep" ELSE "initialize"]
      /\ process_calls < LastCall
  BY <1>1, <1>2, ProcessCalls, ProcessLengths DEF Starting
<1>4. \/ /\ call = "thread" /\ On(p)!tm_thread_create(0, 10)
         /\ UNCHANGED On(p)!objects
      \/ /\ call = "resume" /\ On(p)!tm_thread_resume(0)
         /\ UNCHANGED On(p)!objects
      \/ /\ call = "semaphore" /\ On(p)!tm_semaphore_create(0)
         /\ UNCHANGED <<On(p)!kernel, On(p)!queues, On(p)!memory>>
      \/ /\ call = "queue" /\ On(p)!tm_queue_create
         /\ UNCHANGED <<On(p)!kernel, On(p)!semaphores,
                        On(p)!memory>>
      \/ /\ call = "pool" /\ On(p)!tm_memory_pool_create
         /\ UNCHANGED <<On(p)!kernel, On(p)!semaphores,
                        On(p)!queues>>
  BY <1>1 DEF On!Initialize
<1> HIDE DEF call
<1>5. /\ ProcessKernel(p)' /\ state'[Main] = "ready"
      /\ state'[0] = IF process_calls + 1 < CreateCall THEN "absent"
                     ELSE IF p = "FreeRTOS" \/ process_calls + 1 > CreateCall THEN "ready"
                     ELSE "suspended"
  <2>1. CASE call = "thread"
    <3>1. On(p)!tm_thread_create(0, 10) /\ process_calls + 1 = CreateCall
      BY <1>2, <1>3, <1>4, <2>1
    <3>2. /\ ProcessKernel(p)'
          /\ state' = [state EXCEPT ![0] = IF p = "FreeRTOS" THEN "ready" ELSE "suspended"]
      BY <3>1, ProcessCreates
    <3>3. QED
      BY <1>2, <3>1, <3>2 DEF Starting
  <2>2. CASE call = "resume"
    <3>1. On(p)!tm_thread_resume(0) /\ process_calls = CreateCall
      BY <1>2, <1>3, <1>4, <2>2
    <3>2. state[0] = IF p = "FreeRTOS" THEN "ready" ELSE "suspended"
      BY <1>2, <3>1 DEF Starting
    <3>3. CASE p = "FreeRTOS"
      <4>1. UNCHANGED <<state, level, ready>>
        BY <3>1, <3>2, <3>3 DEF On!tm_thread_resume, On!kernel
      <4>2. QED
        BY <1>2, <3>1, <3>2, <3>3, <4>1, ProcessStays DEF Starting
    <3>4. CASE p # "FreeRTOS"
      <4>1. On(p)!MakeReady(0)
        BY <3>1, <3>2, <3>4 DEF On!tm_thread_resume
      <4>2. ProcessKernel(p)' /\ state' = [state EXCEPT ![0] = "ready"]
        BY <1>2, <3>2, <3>4, <4>1, ProcessWakes
      <4>3. QED
        BY <1>2, <3>1, <4>2 DEF Starting
    <3>5. QED
      BY <3>3, <3>4
  <2>3. CASE call \notin {"thread", "resume"}
    <3>1. UNCHANGED <<state, level, ready>>
      BY <1>4, <2>3 DEF On!kernel
    <3>2. state[0] = IF process_calls + 1 < CreateCall THEN "absent"
                     ELSE IF p = "FreeRTOS" \/ process_calls + 1 > CreateCall THEN "ready"
                     ELSE "suspended"
      BY <1>2, <1>3, <2>3 DEF Starting
    <3>3. QED
      BY <1>2, <3>1, <3>2, ProcessStays DEF Starting
  <2>4. QED
    BY <2>1, <2>2, <2>3
<1>6. /\ queue' = queue /\ senders' = senders /\ receivers' = receivers /\ buffer' = buffer
      /\ wants' = wants /\ memory_ptr' = memory_ptr
      /\ IF call = "semaphore" THEN count' = [count EXCEPT ![0] = 1] ELSE count' = count
      /\ IF call = "queue" THEN capacity' \in {1, 8, 10} ELSE capacity' = capacity
      /\ IF call = "pool" THEN free' = On(p)!Pool ELSE free' = free
  <2>1. CASE call \in {"thread", "resume"}
    BY <1>4, <2>1
    DEF On!objects, On!semaphores, On!queues, On!memory
  <2>2. CASE call = "semaphore"
    BY <1>4, <2>2 DEF On!tm_semaphore_create, On!queues, On!memory
  <2>3. CASE call = "queue"
    <3>1. /\ On(p)!tm_queue_create
          /\ UNCHANGED <<count, wants, free, memory_ptr>>
      BY <1>4, <2>3 DEF On!semaphores, On!memory
    <3>2. capacity' \in {1, 8, 10} /\ UNCHANGED <<queue, senders, receivers, buffer>>
      BY <3>1, ProcessNames
      DEF On!tm_queue_create, On!freertos_queue_create,
          On!threadx_queue_create, On!zephyr_queue_create
    <3>3. QED
      BY <2>3, <3>1, <3>2
  <2>4. CASE call = "pool"
    BY <1>4, <2>4
    DEF On!tm_memory_pool_create, On!semaphores, On!queues
  <2>5. QED
    BY <1>3, <2>1, <2>2, <2>3, <2>4
<1>7. ProcessTypes'
  <2>1. count' \in [{0} -> Nat] /\ process_calls' \in 0 .. 3 /\ free' \in Seq(PoolBlock)
    BY <1>1, <1>2, <1>3, <1>6, PoolBlocks DEF ProcessTypes
  <2>2. process_pc' \in [ProcessTask -> ProcessLabel]
    BY <1>2, <1>3 DEF ProcessLabel
  <2>3. capacity' \in {0, 1, 8, 10} /\ queue' \in Seq(Word) /\ Len(queue') <= capacity'
    <3>1. queue = << >> /\ Len(queue) = 0 /\ queue \in Seq(Word)
      BY <1>2 DEF Starting, ProcessTypes
    <3>2. QED
      BY <1>2, <1>6, <3>1 DEF ProcessTypes
  <2>4. QED
    BY <1>1, <1>2, <1>6, <2>1, <2>2, <2>3 DEF ProcessTypes
<1>8. process_pc'[0] = "take" /\ queue' = << >>
  BY <1>2, <1>3, <1>6 DEF Starting
<1>9. LastCall' = LastCall /\ CreateCall' = CreateCall
      /\ On(p)!Pool' = On(p)!Pool
  BY <1>1
  DEF LastCall, CreateCall, On!Pool, On!freertos_memory_pool,
      On!threadx_memory_pool, On!zephyr_memory_pool, On!Blocks
<1>10. process_test = "memory" => free' = On(p)!Pool
  BY <1>2, <1>3, <1>6 DEF Starting, CreateCall
<1>11. CASE process_calls + 1 < LastCall
  <2>1. process_pc'[Main] = "initialize"
    BY <1>2, <1>3, <1>11
  <2>2. Starting(p)'
    BY <1>1, <1>2, <1>5, <1>8, <1>9, <1>10, <1>11, <2>1 DEF Starting
  <2>3. QED
    BY <1>5, <1>7, <2>2 DEF ProcessInv
<1>12. CASE process_calls + 1 = LastCall
  <2>1. process_pc'[Main] = "sleep" /\ state'[0] = "ready"
    BY <1>2, <1>3, <1>5, <1>12 DEF LastCall, CreateCall
  <2>2. /\ process_test = "synchronization" => count'[0] = 1
        /\ process_test = "message" => capacity' >= 1
    BY <1>2, <1>3, <1>6, <1>12 DEF LastCall, CreateCall, ProcessTypes
  <2>3. Complete(p)'
    BY <1>1, <1>8, <1>9, <1>10, <2>2 DEF Complete
  <2>4. Turning(p)'
    BY <1>1, <1>2, <1>5, <1>8, <1>9, <1>12, <2>1, <2>2, <2>3 DEF Turning
  <2>5. QED
    BY <1>5, <1>7, <2>4 DEF ProcessInv
<1>13. QED
  BY <1>2, <1>3, <1>11, <1>12

\* A turn goes on: only what it has to take and to give back is left to show.
LEMMA ProcessGoesOn ==
    ASSUME NEW p \in ProcessPort, ProcessInv(p), Turning(p),
           UNCHANGED <<state, level, ready, process_test, process_calls, wants, senders, receivers, capacity,
                       last_counter>>,
           NEW next \in {"take", "give", "count"}, process_pc' = [process_pc EXCEPT ![0] = next],
           count' \in [{0} -> Nat], queue' \in Seq(Word), Len(queue') <= capacity,
           buffer' \in [ProcessTask -> Word \cup {NoMessage}],
           free' \in Seq(PoolBlock), memory_ptr' \in PoolBlock \cup {NoBlock},
           sent' \in Word, counter' \in Word,
           IF next = "give" THEN WithThread(p)' ELSE Complete(p)',
           process_test = "message" /\ next = "count" => buffer'[0] = sent'
    PROVE  ProcessInv(p)'
<1>1. /\ ProcessTypes /\ process_pc \in [ProcessTask -> ProcessLabel]
      /\ 0 \in ProcessTask /\ Main \in ProcessTask /\ Main # 0
  BY ProcessFacts
<1>2. ProcessKernel(p)'
  BY ProcessStays
<1>3. /\ process_pc'[0] = next /\ process_pc'[Main] = process_pc[Main]
      /\ process_pc' \in [ProcessTask -> ProcessLabel]
  BY <1>1 DEF ProcessLabel
<1>4. ProcessTypes'
  BY <1>1, <1>3 DEF ProcessTypes
<1>5. LastCall' = LastCall
  BY DEF LastCall
<1>6. Turning(p)'
  BY <1>3, <1>5 DEF Turning
<1>7. QED
  BY <1>2, <1>4, <1>6 DEF ProcessInv

LEMMA ProcessAt ==
    ASSUME NEW p \in ProcessPort, ProcessInv(p),
           NEW label, On(p)!At(label)
    PROVE  /\ Turning(p) /\ process_pc[0] = label /\ ProcessTypes
           /\ LastCall \in {2, 3}
  BY ProcessTurn, ProcessFacts DEF On!At

\* The pool is the same in every state.
LEMMA SamePool ==
    ASSUME NEW p \in ProcessPort PROVE On(p)!Pool' = On(p)!Pool
  BY DEF On!Pool, On!freertos_memory_pool,
         On!threadx_memory_pool, On!zephyr_memory_pool, On!Blocks

LEMMA ProcessMemoryInv ==
    ASSUME NEW p \in ProcessPort, ProcessInv(p),
           On(p)!Allocate \/ On(p)!Deallocate
    PROVE  ProcessInv(p)'
<1>1. /\ process_test = "memory"
      /\ UNCHANGED <<state, level, ready, process_test, process_calls, wants, senders, receivers, capacity,
                     count, queue, buffer, sent, counter, last_counter>>
  BY DEF On!Allocate, On!Deallocate, On!Then,
         On!kernel, On!semaphores, On!queues
<1>2. CASE On(p)!Allocate
  <2>1. PICK ok \in BOOLEAN : On(p)!tm_memory_pool_allocate(ok)
    BY <1>2 DEF On!Allocate
  <2>2. On(p)!At("take") /\ process_pc' = [process_pc EXCEPT ![0] = "give"]
    BY <1>2 DEF On!Allocate, On!Then, On!Goto
  <2>3. Turning(p) /\ ProcessTypes /\ free = On(p)!Pool
    BY <1>1, <2>2, ProcessAt DEF Turning, Complete
  <2>4. memory_ptr' = Head(free) /\ free' = Tail(free)
    BY <2>1, <2>3, PoolBlocks DEF On!tm_memory_pool_allocate
  <2>5. /\ memory_ptr' \in PoolBlock /\ free' \in Seq(PoolBlock)
        /\ <<memory_ptr'>> \o free' = On(p)!Pool
    BY <2>3, <2>4, PoolBlocks, FirstAndRest
  <2>6. WithThread(p)'
    BY <1>1, <2>5, SamePool DEF WithThread
  <2>7. QED
    BY <1>1, <2>2, <2>3, <2>5, <2>6, ProcessGoesOn DEF ProcessTypes
<1>3. CASE On(p)!Deallocate
  <2>1. PICK ok \in BOOLEAN : /\ On(p)!tm_memory_pool_deallocate(ok)
                              /\ On(p)!Then(IF ok THEN "count" ELSE "break")
    BY <1>3 DEF On!Deallocate
  <2>2. On(p)!At("give") /\ ok = TRUE /\ memory_ptr' = memory_ptr
    BY <1>3, <2>1 DEF On!Deallocate, On!tm_memory_pool_deallocate
  <2>3. process_pc' = [process_pc EXCEPT ![0] = "count"]
    BY <2>1, <2>2 DEF On!Then, On!Goto
  <2>4. Turning(p) /\ ProcessTypes /\ <<memory_ptr>> \o free = On(p)!Pool
    BY <1>1, <2>2, ProcessAt DEF Turning, WithThread
  <2>5. memory_ptr \in PoolBlock
    BY <2>4, PoolBlocks, FirstOf DEF ProcessTypes
  <2>6. free' = On(p)!Pool
    BY <2>1, <2>4, <2>5, ProcessNames DEF On!tm_memory_pool_deallocate
  <2>7. Complete(p)' /\ free' \in Seq(PoolBlock)
    BY <1>1, <2>6, SamePool, PoolBlocks DEF Complete
  <2>8. QED
    BY <1>1, <2>2, <2>3, <2>4, <2>5, <2>7, ProcessGoesOn DEF ProcessTypes
<1>4. QED
  BY <1>2, <1>3

LEMMA ProcessMessageInv ==
    ASSUME NEW p \in ProcessPort, ProcessInv(p),
           On(p)!Send \/ On(p)!Receive
    PROVE  ProcessInv(p)'
<1>1. /\ process_test = "message"
      /\ UNCHANGED <<process_test, process_calls, count, wants, free, memory_ptr,
                     sent, counter, last_counter>>
  BY DEF On!Send, On!Receive, On!Then,
         On!semaphores, On!memory
<1>2. CASE On(p)!Send
  <2>1. PICK done \in BOOLEAN : /\ On(p)!tm_queue_send(0, sent, done)
                                /\ On(p)!Then(IF done THEN "give" ELSE "take")
    BY <1>2 DEF On!Send
  <2>2. On(p)!At("take")
    BY <1>2 DEF On!Send
  <2>3. /\ Turning(p) /\ ProcessTypes /\ queue = << >> /\ receivers = << >>
        /\ capacity >= 1 /\ sent \in Word
    BY <1>1, <2>2, ProcessAt DEF Turning, Complete, ProcessTypes
  <2>4. Len(queue) = 0 /\ Append(queue, sent) = <<sent>>
        /\ <<sent>> \in Seq(Word) /\ Len(<<sent>>) = 1
    BY <2>3
  <2>5. On(p)!Deliver(sent) /\ done = TRUE /\ UNCHANGED <<capacity, senders>>
    BY <2>1, <2>3, <2>4 DEF On!tm_queue_send
  <2>6. UNCHANGED <<state, level, ready, receivers, buffer>> /\ queue' = <<sent>>
    BY <2>3, <2>4, <2>5 DEF On!Deliver, On!kernel
  <2>7. process_pc' = [process_pc EXCEPT ![0] = "give"]
    BY <2>1, <2>5 DEF On!Then, On!Goto
  <2>8. WithThread(p)'
    BY <1>1, <2>6 DEF WithThread
  <2>9. QED
    BY <1>1, <2>3, <2>4, <2>5, <2>6, <2>7, <2>8, ProcessGoesOn DEF ProcessTypes
<1>3. CASE On(p)!Receive
  <2>1. PICK done \in BOOLEAN : /\ On(p)!tm_queue_receive(0, done)
                                /\ On(p)!Then(IF done THEN "count" ELSE "give")
    BY <1>3 DEF On!Receive
  <2>2. On(p)!At("give")
    BY <1>3 DEF On!Receive
  <2>3. /\ Turning(p) /\ ProcessTypes /\ queue = <<sent>> /\ senders = << >>
        /\ sent \in Word /\ capacity \in Nat
    BY <1>1, <2>2, ProcessAt DEF Turning, WithThread, ProcessTypes
  <2>4. <<sent>> # << >> /\ Head(<<sent>>) = sent /\ Tail(<<sent>>) = << >>
        /\ << >> \in Seq(Word) /\ Len(<< >>) = 0
    BY <2>3
  <2>5. /\ buffer' = [buffer EXCEPT ![0] = sent] /\ On(p)!TakeMessage
        /\ done = TRUE /\ UNCHANGED <<capacity, receivers>>
    BY <2>1, <2>3, <2>4 DEF On!tm_queue_receive
  <2>6. UNCHANGED <<state, level, ready, senders>> /\ queue' = << >>
    BY <2>3, <2>4, <2>5 DEF On!TakeMessage, On!kernel
  <2>7. process_pc' = [process_pc EXCEPT ![0] = "count"]
    BY <2>1, <2>5 DEF On!Then, On!Goto
  <2>8. Complete(p)'
    BY <1>1, <2>6 DEF Complete
  <2>9. buffer' \in [ProcessTask -> Word \cup {NoMessage}] /\ buffer'[0] = sent'
    BY <1>1, <2>3, <2>5, ProcessNames DEF ProcessTypes
  <2>10. QED
    BY <1>1, <2>3, <2>4, <2>5, <2>6, <2>7, <2>8, <2>9, ProcessGoesOn DEF ProcessTypes
<1>4. QED
  BY <1>2, <1>3

LEMMA ProcessSemaphoreInv ==
    ASSUME NEW p \in ProcessPort, ProcessInv(p),
           On(p)!Get \/ On(p)!Put
    PROVE  ProcessInv(p)'
<1>1. /\ process_test = "synchronization"
      /\ UNCHANGED <<process_test, process_calls, capacity, queue, senders, receivers, buffer,
                     free, memory_ptr, sent, counter, last_counter>>
  BY DEF On!Get, On!Put, On!Then,
         On!queues, On!memory
<1>2. CASE On(p)!Get
  <2>1. PICK ok \in BOOLEAN : On(p)!tm_semaphore_get(0, ok)
    BY <1>2 DEF On!Get
  <2>2. /\ On(p)!At("take") /\ process_pc' = [process_pc EXCEPT ![0] = "give"]
        /\ UNCHANGED <<state, level, ready>>
    BY <1>2 DEF On!Get, On!Then, On!Goto, On!kernel
  <2>3. Turning(p) /\ ProcessTypes /\ count[0] = 1
    BY <1>1, <2>2, ProcessAt DEF Turning, Complete
  <2>4. count' = [count EXCEPT ![0] = @ - 1] /\ wants' = wants
    <3>1. ok = (count[0] > 0)
      BY <2>1, Zenon DEF On!tm_semaphore_get
    <3>2. count[0] > 0
      BY <2>3
    <3>3. ok = TRUE
      BY <3>1, <3>2
    <3>4. QED
      BY <2>1, <3>3 DEF On!tm_semaphore_get
  <2>5. count' \in [{0} -> Nat] /\ count'[0] = 0
    BY <2>3, <2>4 DEF ProcessTypes
  <2>6. WithThread(p)'
    BY <1>1, <2>5 DEF WithThread
  <2>7. QED
    BY <1>1, <2>2, <2>3, <2>4, <2>5, <2>6, ProcessGoesOn DEF ProcessTypes
<1>3. CASE On(p)!Put
  <2>1. PICK ok \in BOOLEAN : /\ On(p)!tm_semaphore_put(0, ok)
                              /\ On(p)!Then(IF ok THEN "count" ELSE "break")
    BY <1>3 DEF On!Put
  <2>2. On(p)!At("give")
    BY <1>3 DEF On!Put
  <2>3. Turning(p) /\ ProcessTypes /\ count[0] = 0
    BY <1>1, <2>2, ProcessAt DEF Turning, WithThread
  <2>4. ok = TRUE /\ On(p)!Give(0)
    BY <2>1, <2>3, ProcessNames
    DEF On!tm_semaphore_put, On!freertos_semaphore_put,
        On!threadx_semaphore_put, On!zephyr_semaphore_put
  <2>5. On(p)!Waiter(0) = {}
    BY <2>3, ProcessNames DEF On!Waiter, ProcessTypes
  <2>6. /\ count' = [count EXCEPT ![0] = @ + 1]
        /\ UNCHANGED <<state, level, ready, wants>>
    BY <2>4, <2>5 DEF On!Give, On!kernel
  <2>7. process_pc' = [process_pc EXCEPT ![0] = "count"]
    BY <2>1, <2>4 DEF On!Then, On!Goto
  <2>8. count' \in [{0} -> Nat] /\ count'[0] = 1
    BY <2>3, <2>6 DEF ProcessTypes
  <2>9. Complete(p)'
    BY <1>1, <2>8 DEF Complete
  <2>10. QED
    BY <1>1, <2>3, <2>6, <2>7, <2>8, <2>9, ProcessGoesOn DEF ProcessTypes
<1>4. QED
  BY <1>2, <1>3

LEMMA ProcessCountInv ==
    ASSUME NEW p \in ProcessPort, ProcessInv(p),
           On(p)!Compute \/ On(p)!Count
    PROVE  ProcessInv(p)'
<1>1. UNCHANGED <<state, level, ready, count, wants, capacity, queue, senders, receivers,
                  buffer, free, memory_ptr, process_test, process_calls, last_counter>>
  BY DEF On!Compute, On!Count, On!Then, On!kernel,
         On!objects, On!semaphores, On!queues,
         On!memory
<1>2. CASE On(p)!Compute
  <2>1. /\ process_test = "basic" /\ On(p)!At("take")
        /\ process_pc' = [process_pc EXCEPT ![0] = "count"]
        /\ UNCHANGED <<sent, counter>>
    BY <1>2 DEF On!Compute, On!Then, On!Goto
  <2>2. Turning(p) /\ ProcessTypes
    BY <2>1, ProcessAt
  <2>3. Complete(p)'
    BY <1>1, <2>1 DEF Complete
  <2>4. QED
    BY <1>1, <2>1, <2>2, <2>3, ProcessGoesOn DEF ProcessTypes
<1>3. CASE On(p)!Count
  <2>1. On(p)!At("count")
    BY <1>3 DEF On!Count
  <2>2. Turning(p) /\ ProcessTypes /\ Complete(p) /\ (process_test = "message" => buffer[0] = sent)
    BY <2>1, ProcessAt DEF Turning
  <2>3. /\ process_pc' = [process_pc EXCEPT ![0] = "take"] /\ counter' = Inc(counter)
        /\ sent' = IF process_test = "message" THEN Inc(sent) ELSE sent
    BY <1>3, <2>2 DEF On!Count, On!Goto, On!Inc, Inc
  <2>4. counter' \in Word /\ sent' \in Word
    BY <2>2, <2>3, IncType DEF ProcessTypes
  <2>5. Complete(p)'
    BY <1>1, <2>2, SamePool DEF Complete
  <2>6. QED
    BY <1>1, <2>2, <2>3, <2>4, <2>5, ProcessGoesOn DEF ProcessTypes
<1>4. QED
  BY <1>2, <1>3

LEMMA ProcessReportInv ==
    ASSUME NEW p \in ProcessPort, ProcessInv(p),
           On(p)!Sleep \/ On(p)!Report \/ On(p)!Wake
    PROVE  ProcessInv(p)'
<1>1. UNCHANGED <<count, wants, capacity, queue, senders, receivers, buffer, free, memory_ptr,
                  process_test, process_calls, sent, counter>>
  BY DEF On!Sleep, On!Report, On!Wake, On!objects,
         On!semaphores, On!queues, On!memory
<1>2. /\ ProcessTypes /\ state \in [ProcessTask -> State]
      /\ process_pc \in [ProcessTask -> ProcessLabel]
      /\ 0 \in ProcessTask /\ Main \in ProcessTask /\ Main # 0
  BY ProcessFacts
<1>3. /\ ProcessKernel(p)' /\ Turning(p) /\ ProcessTypes'
      /\ state'[Main] \in {"ready", "asleep"} /\ process_pc'[Main] \in {"sleep", "report"}
      /\ state'[0] = state[0] /\ process_pc'[0] = process_pc[0]
  <2>1. CASE On(p)!Sleep
    <3>1. /\ On(p)!Runs(Main) /\ process_pc[Main] = "sleep"
          /\ On(p)!Block(Main, "asleep") /\ last_counter' = last_counter
          /\ process_pc' = [process_pc EXCEPT ![Main] = "report"]
      BY <2>1 DEF On!Sleep, On!tm_thread_sleep, On!Goto
    <3>2. ProcessKernel(p)' /\ state' = [state EXCEPT ![Main] = "asleep"]
      BY <3>1, ProcessLeaves
    <3>3. Turning(p)
      BY <3>1, ProcessFacts DEF Starting
    <3>4. process_pc' \in [ProcessTask -> ProcessLabel]
      BY <1>2, <3>1 DEF ProcessLabel
    <3>5. ProcessTypes'
      BY <1>1, <1>2, <3>1, <3>4 DEF ProcessTypes
    <3>6. QED
      BY <1>2, <3>1, <3>2, <3>3, <3>5
  <2>2. CASE On(p)!Report
    <3>1. /\ process_pc[Main] = "report" /\ process_pc' = [process_pc EXCEPT ![Main] = "sleep"]
          /\ last_counter' = counter
          /\ UNCHANGED <<state, level, ready>>
      BY <2>2 DEF On!Report, On!Goto, On!kernel
    <3>2. Turning(p) /\ ProcessKernel(p)'
      BY <3>1, ProcessFacts, ProcessStays DEF Starting
    <3>3. process_pc' \in [ProcessTask -> ProcessLabel]
      BY <1>2, <3>1 DEF ProcessLabel
    <3>4. ProcessTypes'
      BY <1>1, <1>2, <3>1, <3>3 DEF ProcessTypes
    <3>5. QED
      BY <1>2, <3>1, <3>2, <3>4 DEF Turning
  <2>3. CASE On(p)!Wake
    <3>1. /\ state[Main] = "asleep" /\ On(p)!MakeReady(Main)
          /\ UNCHANGED <<process_pc, last_counter>>
      BY <2>3 DEF On!Wake, On!TickWakes
    <3>2. ProcessKernel(p)' /\ state' = [state EXCEPT ![Main] = "ready"]
      BY <1>2, <3>1, ProcessWakes
    <3>3. Turning(p)
      BY <3>1, ProcessFacts DEF Starting
    <3>4. ProcessTypes'
      BY <1>1, <1>2, <3>1 DEF ProcessTypes
    <3>5. QED
      BY <1>2, <3>1, <3>2, <3>3, <3>4 DEF Turning
  <2>4. QED
    BY <2>1, <2>2, <2>3
<1>4. /\ LastCall' = LastCall
      /\ WithThread(p) => WithThread(p)'
      /\ Complete(p) => Complete(p)'
  BY <1>1, SamePool DEF LastCall, WithThread, Complete
<1>5. Turning(p)'
  BY <1>1, <1>3, <1>4 DEF Turning
<1>6. QED
  BY <1>3, <1>5 DEF ProcessInv

LEMMA ProcessSame ==
    ASSUME NEW p \in ProcessPort, ProcessInv(p), UNCHANGED processvars
    PROVE  ProcessInv(p)'
<1>1. UNCHANGED <<state, level, ready, count, wants, capacity, queue, senders, receivers,
                  buffer, free, memory_ptr, process_test, process_calls, process_pc,
                  sent, counter, last_counter>>
  BY DEF processvars, kernel, semaphores, queues
<1>2. ProcessKernel(p)'
  BY <1>1, ProcessStays
<1>3. ProcessTypes'
  BY <1>1 DEF ProcessInv, ProcessTypes
<1>4. (Starting(p) \/ Turning(p))'
  BY <1>1, SamePool
  DEF ProcessInv, Starting, Turning, WithThread, Complete, LastCall, CreateCall
<1>5. QED
  BY <1>2, <1>3, <1>4 DEF ProcessInv

-----------------------------------------------------------------------------
(* Their theorems.                                                         *)

ProcessPorts == \A p \in ProcessPort : process_port = p => ProcessInv(p)

LEMMA ProcessPortsInit ==
    ASSUME ProcessInit PROVE ProcessPorts
  BY ProcessInitInv DEF ProcessInit, ProcessPorts, ProcessPort

LEMMA ProcessPortsNext ==
    ASSUME ProcessPorts, [ProcessNext]_processvars
    PROVE  ProcessPorts'
<1>1. process_port' = process_port
  BY DEF ProcessNext, ProcessMainStep, ProcessWake, ProcessThreadStep,
         processvars
<1>2. SUFFICES ASSUME NEW p \in ProcessPort, process_port = p, ProcessInv(p) PROVE ProcessInv(p)'
  BY <1>1 DEF ProcessPorts
<1>3. CASE UNCHANGED processvars
  BY <1>2, <1>3, ProcessSame
<1>4. CASE ProcessMainStep
  <2>1. On(p)!MainStep
    BY <1>2, <1>4 DEF ProcessMainStep, ProcessPort
  <2>2. QED
    BY <1>2, <2>1, ProcessInitializeInv, ProcessReportInv DEF On!MainStep
<1>5. CASE ProcessWake
  <2>1. On(p)!Wake
    BY <1>2, <1>5 DEF ProcessWake, ProcessPort
  <2>2. QED
    BY <1>2, <2>1, ProcessReportInv
<1>6. CASE ProcessThreadStep
  <2>1. On(p)!ThreadStep
    BY <1>2, <1>6 DEF ProcessThreadStep, ProcessPort
  <2>2. ~On(p)!Break
    <3>1. SUFFICES ASSUME On(p)!At("break") PROVE FALSE
      BY DEF On!Break
    <3>2. QED
      BY <1>2, <3>1, ProcessAt DEF Turning
  <2>3. QED
    BY <1>2, <2>1, <2>2, ProcessMemoryInv, ProcessMessageInv, ProcessSemaphoreInv,
       ProcessCountInv
    DEF On!ThreadStep
<1>7. QED
  BY <1>3, <1>4, <1>5, <1>6 DEF ProcessNext

LEMMA ProcessInTime ==
    ASSUME NEW p \in ProcessPort, ProcessInv(p)
    PROVE  On(p)!CreatedInTime
<1>1. SUFFICES ASSUME On(p)!Runs(0) PROVE On(p)!Initialized
  BY DEF On!CreatedInTime
<1>2. process_calls = LastCall
  BY <1>1, ProcessTurn, ProcessNames DEF Turning
<1>3. Len(On(p)!Calls[process_test]) = LastCall
  BY ProcessLengths
<1>4. QED
  BY <1>2, <1>3 DEF On!Initialized

LEMMA ProcessTyped ==
    ASSUME NEW p \in ProcessPort, ProcessInv(p)
    PROVE  On(p)!TypeOK
<1>1. KernelTypes(ProcessTask, ProcessLevel) /\ ProcessTypes
  BY FixedTypes DEF ProcessInv, ProcessKernel
<1>2. On(p)!KernelTypeOK
  BY <1>1, ProcessNames DEF KernelTypes, On!KernelTypeOK
<1>3. On(p)!SemaphoreTypeOK
  BY <1>1, ProcessNames DEF ProcessTypes, On!SemaphoreTypeOK
<1>4. On(p)!QueueTypeOK(Word)
  <2>1. << >> \in Seq(ProcessTask \X Word) /\ << >> \in Seq(ProcessTask)
    OBVIOUS
  <2>2. QED
    BY <1>1, <2>1, ProcessNames DEF ProcessTypes, On!QueueTypeOK
<1>5. On(p)!MemoryTypeOK
  BY <1>1 DEF ProcessTypes, On!MemoryTypeOK, On!MaxBlocks, PoolBlock
<1>6. /\ process_calls \in 0 .. 3 /\ process_pc \in [ProcessTask -> On(p)!Label]
      /\ sent \in Word /\ counter \in Word /\ last_counter \in Word
      /\ On(p)!Word = Word
  BY <1>1 DEF ProcessTypes, ProcessLabel, On!Label, On!Word, Word
<1>7. QED
  BY <1>2, <1>3, <1>4, <1>5, <1>6, ProcessNames DEF On!TypeOK

LEMMA ProcessBalance ==
    ASSUME NEW p \in ProcessPort, ProcessInv(p)
    PROVE  On(p)!TurnsBalance
<1>1. /\ process_test \in {"basic", "memory", "message", "synchronization"}
      /\ On(p)!Initialized <=> process_calls = LastCall
  BY ProcessLengths, ProcessFacts DEF ProcessTypes, On!Initialized
<1>2. CASE Starting(p)
  BY <1>1, <1>2 DEF Starting, On!TurnsBalance, LastCall
<1>3. CASE Turning(p)
  <2>1. Complete(p) => On(p)!Full
    BY <1>1 DEF Complete, On!Full
  <2>2. WithThread(p) => On(p)!OneOut
    BY <1>1 DEF WithThread, On!OneOut
  <2>3. QED
    BY <1>1, <1>3, <2>1, <2>2 DEF Turning, On!TurnsBalance
<1>4. QED
  BY <1>2, <1>3 DEF ProcessInv

(***************************************************************************)
(* On every port and in all four benchmarks the thread gets the processor  *)
(* only when the initialisation has made all its calls, although it is     *)
(* ready before the last of them (tm_message_processing_test.c:82-85,      *)
(* tm_synchronization_processing_test.c:80-83).                            *)
(***************************************************************************)
THEOREM ProcessingCreatedInTime ==
    ProcessSpec => []CreatedInTime
<1>1. ProcessInit => ProcessPorts
  BY ProcessPortsInit
<1>2. ProcessPorts /\ [ProcessNext]_processvars => ProcessPorts'
  BY ProcessPortsNext
<1>3. ProcessPorts => CreatedInTime
  BY ProcessInTime DEF ProcessPorts, ProcessPort, CreatedInTime
<1>4. QED
  BY <1>1, <1>2, <1>3, PTL DEF ProcessSpec

(***************************************************************************)
(* Every turn gives back what it took, for every size of FreeRTOS's heap   *)
(* and every word size: no service reports an error, no block is lost and  *)
(* every message comes back as it was sent                                 *)
(* (tm_memory_allocation_test.c:98-104 and                                 *)
(* tm_message_processing_test.c:106-122).                                  *)
(***************************************************************************)
THEOREM ProcessingTurnsBalance ==
    ProcessSpec => []TurnsBalance
<1>1. ProcessInit => ProcessPorts
  BY ProcessPortsInit
<1>2. ProcessPorts /\ [ProcessNext]_processvars => ProcessPorts'
  BY ProcessPortsNext
<1>3. ProcessPorts => TurnsBalance
  BY ProcessBalance, ProcessTyped
  DEF ProcessPorts, ProcessPort, TurnsBalance, ProcessTypeOK
<1>4. QED
  BY <1>1, <1>2, <1>3, PTL DEF ProcessSpec
=============================================================================
