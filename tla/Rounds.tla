------------------------------- MODULE Rounds -------------------------------
(***************************************************************************)
(* What the scheduling benchmarks promise, without a kernel: the threads   *)
(* count in rounds.  In every round each thread increments its counter     *)
(* once, in the order given by Slot, and no thread starts the next round   *)
(* before all have finished this one.  The counters are unsigned longs.    *)
(***************************************************************************)
EXTENDS UnsignedLong

CONSTANTS
    Thread,
    Slot      \* Slot[t]: the turn of thread t in every round

VARIABLE counter

Init == counter = [t \in Thread |-> 0]

Count(t) ==
    /\ \A u \in Thread : Slot[u] < Slot[t] => counter[u] = Inc(counter[t])
    /\ \A u \in Thread : Slot[u] > Slot[t] => counter[u] = counter[t]
    /\ counter' = [counter EXCEPT ![t] = Inc(@)]

Next == \E t \in Thread : Count(t)

Spec == Init /\ [][Next]_counter /\ \A t \in Thread : WF_counter(Count(t))
=============================================================================
