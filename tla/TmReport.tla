------------------------------ MODULE TmReport ------------------------------
(***************************************************************************)
(* The arithmetic of the report loops of the five-thread scheduling        *)
(* benchmarks (tm_preemptive_thread_report, tm_cooperative_thread_report): *)
(* the total of the five counters, their average and the error check, all  *)
(* in unsigned long.                                                       *)
(***************************************************************************)
EXTENDS UnsignedLong

\* Mutant: the sum leaves out the last counter.
TotalOfFour(c) == Plus(Plus(Plus(c[0], c[1]), c[2]), c[3])

Total(c) == Plus(Plus(Plus(Plus(c[0], c[1]), c[2]), c[3]), c[4])

Average(c) == Total(c) \div 5

Alarm(c) ==
    \E i \in 0 .. 4 : \/ c[i] < Minus(Average(c), 1)
                      \/ c[i] > Plus(Average(c), 1)
=============================================================================
