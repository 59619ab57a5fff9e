----------------------------- MODULE PmuDriver ------------------------------
(***************************************************************************)
(* The PMU driver of the Zephyr port (tm_porting_layer_zephyr.c:465-743)   *)
(* with the counter registers PmuLog leaves out: the cycle counter runs    *)
(* on, the event counters are reset by every start, and all wrap.  A call  *)
(* reads all the counters at once; that they are read one after the other  *)
(* is left out.                                                            *)
(***************************************************************************)
EXTENDS PmuLog, UnsignedLong

CONSTANT Event  \* the configured events, gPmuEventCfg

Counter == {"cycles"} \cup Event

VARIABLES
    register,  \* register[c]: PMCCNTR and the event counters
    reading,   \* reading[i][c]: start and value of counter c in entry i
    since,     \* since[c]: what c counted since the last start, for good
    took       \* took[i][c]: since[c] when entry i was written

history == <<since, took>>
driver == <<pmu, register, reading, history>>

\* Histories count this far: more than a register holds.
Long == 0 .. MaxWord + 1
Longer(n, d) == IF n + d > MaxWord THEN MaxWord + 1 ELSE n + d

DriverTypeOK ==
    /\ PmuTypeOK
    /\ register \in [Counter -> Word]
    /\ reading \in [Entry -> [Counter -> [start : Word, value : Word]]]
    /\ since \in [Counter -> Long]
    /\ took \in [Entry -> [Counter -> Long]]

\* What is read and kept in an entry that has not been written.
NoReading == [c \in Counter |-> [start |-> 0, value |-> 0]]
Nothing == [c \in Counter |-> 0]

\* SYS_INIT runs tm_setup_pmu before the kernel starts.
DriverInit ==
    /\ Clear
    /\ register = Nothing /\ since = Nothing
    /\ reading = [i \in Entry |-> NoReading]
    /\ took = [i \in Entry |-> Nothing]

pmu_init_profile ==
    /\ logIndex' = 0
    /\ point' = [i \in Entry |-> ClearEntry]
    /\ reading' = [i \in Entry |-> NoReading]
    /\ took' = [i \in Entry |-> Nothing]

tm_setup_pmu == register' = Nothing /\ since' = Nothing /\ pmu_init_profile

\* The hardware counts.
Elapse(d) ==
    /\ register' = [c \in Counter |-> Plus(register[c], d[c])]
    /\ since' = [c \in Counter |-> Longer(since[c], d[c])]
    /\ UNCHANGED <<pmu, reading, took>>

\* tm_pmu_profile_start, with the registers.
Start(name) ==
    /\ tm_pmu_profile_start(name)
    /\ IF logIndex \in Entry
       THEN /\ register' = [c \in Counter |-> IF c \in Event THEN 0 ELSE register[c]]
            /\ reading' = [reading EXCEPT ![logIndex] =
                 [c \in Counter |-> [start |-> register'[c], value |-> @[c].value]]]
            /\ since' = [c \in Counter |-> 0]
       ELSE UNCHANGED <<register, reading, since>>
    /\ UNCHANGED took

\* tm_pmu_profile_end, with value[c] for counter c.
EndWith(name, value) ==
    /\ tm_pmu_profile_end(name)
    /\ IF logIndex \in Entry
       THEN /\ reading' = [reading EXCEPT ![logIndex] =
                 [c \in Counter |-> [start |-> @[c].start, value |-> value[c]]]]
            /\ took' = [took EXCEPT ![logIndex] = since]
       ELSE UNCHANGED <<reading, took>>
    /\ UNCHANGED <<register, since>>

\* Mutant: the value is the counter, not the difference.
EndWithCount(name) == EndWith(name, register)

End(name) ==
    EndWith(name, [c \in Counter |->
                      Minus(register[c], reading[logIndex][c].start)])

-----------------------------------------------------------------------------
(* The driver and any caller.                                              *)

DriverNext ==
    \/ \E d \in [Counter -> Word] : Elapse(d)
    \/ \E name \in Nat : Start(name) \/ End(name)
    \/ tm_setup_pmu

DriverSpec == DriverInit /\ [][DriverNext]_driver

(***************************************************************************)
(* The value of a logged measurement is what its counter counted between   *)
(* its start and its end, whether or not the counter wrapped in between,   *)
(* as long as that fits the register at all                                *)
(* (tm_porting_layer_zephyr.c:673-679).                                    *)
(***************************************************************************)
ValuesExact ==
    \A i \in Entry : i < logIndex /\ point[i].name # NoName =>
        \A c \in Counter : took[i][c] <= MaxWord => reading[i][c].value = took[i][c]
=============================================================================
