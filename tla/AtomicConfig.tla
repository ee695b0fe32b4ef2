---------------------------- MODULE AtomicConfig ----------------------------
(***************************************************************************)
(* What the firmware expects of its configuration store: one persistent    *)
(* record that a save replaces as a whole, at one instant, and a copy in   *)
(* RAM that a restart loses.  Losing power never leaves a mixture: the     *)
(* record is the one before the save or the one after it.  The promise     *)
(* ends when two contexts save at the same time.                           *)
(***************************************************************************)
CONSTANTS Configs,  \* the configurations the firmware can be in
          Default,  \* the one CFG_Load builds when nothing valid is stored
          None      \* no valid configuration (erased flash, RAM after a reset)

VARIABLES stored,   \* the persistent record
          ram,      \* sysCfg, once loaded
          broken    \* has a save interfered with another one?

vars == <<stored, ram, broken>>

Init ==
    /\ stored \in Configs \union {None}
    /\ ram = None
    /\ broken = FALSE

\* Start-up: the stored record, or the defaults.
Load ==
    /\ ram = None
    /\ ram' = IF stored = None THEN Default ELSE stored
    /\ UNCHANGED stored

\* A handler changes fields of sysCfg.
Modify ==
    /\ ram # None
    /\ ram' \in Configs
    /\ UNCHANGED stored

\* The single instant at which a save takes effect.
Commit ==
    /\ ram # None
    /\ stored' = ram
    /\ UNCHANGED ram

\* Power is lost.  A save under way took effect or it did not.
Crash ==
    /\ ram' = None
    /\ \/ UNCHANGED stored
       \/ ram # None /\ stored' = ram

\* From then on anything may be stored.
Interfere == broken'

Next ==
    \/ (Load \/ Modify \/ Commit \/ Crash) /\ UNCHANGED broken
    \/ Interfere

Spec == Init /\ [][Next]_vars
=============================================================================
