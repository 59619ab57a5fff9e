------------------------------- MODULE PmuLog -------------------------------
(***************************************************************************)
(* The profile log of the Zephyr port (tm_porting_layer_zephyr.c:557-743). *)
(* Its entries are filled by tm_pmu_profile_start and tm_pmu_profile_end   *)
(* and searched by tm_pmu_profile_print.                                   *)
(*                                                                         *)
(* The counter readings are abstracted to the names of the calls that made *)
(* them: an entry measures what it should when the start and the end that  *)
(* wrote it were called with the same name.  A name is its index in the    *)
(* benchmark's array of names; NoName is the NULL of the cleared log.      *)
(***************************************************************************)
EXTENDS Integers

CONSTANTS
    MaxLogEntries,  \* PMU_MAX_LOG_ENTRIES
    NoName

ASSUME MaxLogEntriesAssumption == MaxLogEntries \in Nat \ {0}
ASSUME NoNameAssumption == NoName \notin Nat

VARIABLES
    logIndex,  \* the next free entry
    point      \* the entries, from 0

pmu == <<logIndex, point>>

Entry == 0 .. MaxLogEntries - 1
Name == Nat \cup {NoName}

\* name: from the last start; ended: the name given to the end.
ClearEntry == [name |-> NoName, ended |-> NoName]

PmuTypeOK ==
    /\ logIndex \in 0 .. MaxLogEntries
    /\ point \in [Entry -> [name : Name, ended : Name]]

\* The cleared object of pmu_init_profile and tm_pmu_profile_reset.
Clear ==
    /\ logIndex = 0
    /\ point = [i \in Entry |-> ClearEntry]

tm_pmu_profile_start(name) ==
    /\ point' = IF logIndex \in Entry
                THEN [point EXCEPT ![logIndex].name = name]
                ELSE point
    /\ UNCHANGED logIndex

\* Mutant: the driver forgets to move to the next slot.
EndInPlace(name) ==
    /\ point' = IF logIndex \in Entry
                THEN [point EXCEPT ![logIndex].ended = name]
                ELSE point
    /\ UNCHANGED logIndex

tm_pmu_profile_end(name) ==
    IF logIndex \in Entry
    THEN /\ point' = [point EXCEPT ![logIndex].ended = name]
         /\ logIndex' = logIndex + 1
    ELSE UNCHANGED pmu

\* The entries tm_pmu_profile_print(name) finds; it prints the first.
Found(name) == {i \in Entry : i < logIndex /\ point[i].name = name}

Printed(name) == CHOOSE i \in Found(name) : \A j \in Found(name) : i <= j
=============================================================================
