------------------------------- MODULE Relays -------------------------------
(***************************************************************************)
(* The relays and everything that switches them: the web page (cgiGPIO in  *)
(* user/cgi.c), MQTT messages (mqttDataCb in user/user_main.c), lines on   *)
(* the serial port (uart0_rx_intr_handler in user/stdout.c), the           *)
(* thermostat (user/thermostat.c), its page (cgiThermostat in              *)
(* user/cgithermostat.c) and the start of the board (user/io.c).  They     *)
(* share the levels kept in RAM (currGPIO12State and so on), the output    *)
(* pins, and the relay fields of the configuration.                        *)
(*                                                                         *)
(* Handlers do not preempt each other, the serial interrupt preempts any   *)
(* of them, so a handler is a sequence of steps and the interrupt is one.  *)
(* CFG_Save is the atomic replacement that module ConfigStore is shown to  *)
(* implement.  A level is 0, or 1 for any other number.                    *)
(***************************************************************************)
EXTENDS Naturals

CONSTANTS Relays,  \* the relays in use
          Board,   \* sysCfg.board_id: "relay", "single" or "dual"
          None

ASSUME RelaysAssumption ==
    /\ Relays \subseteq 1..3
    /\ 1 \in Relays
    /\ Board \in {"relay", "single", "dual"}
    /\ None \notin {0, 1}

VARIABLES curr,       \* currGPIO12State, currGPIO13State, currGPIO15State
          driven,     \* the levels at the output pins
          sysCfg,     \* the fields of sysCfg in RAM that matter here
          stored,     \* the same fields of the saved configuration
          pc, by,     \* the running handler: how far it is, and which it is
          todo,       \* relays it has still to switch, and their levels
          seen,       \* levels it has read to copy them to sysCfg
          latched,    \* history: the level a restart has to bring back
          manual,     \* history: was relay 1 last switched by hand, with or
                      \* without latching?
          forcedOff,  \* history: was the thermostat page the last to switch
                      \* relay 1, switching the thermostat off?
          raced       \* history: relays the interrupt has switched while a
                      \* handler held another level for them

handler == <<pc, by, todo, seen>>
history == <<latched, manual, forcedOff, raced>>
vars == <<curr, driven, sysCfg, stored, handler, history>>

Levels == {0, 1}
Flags == {0, 1}
Handlers == {"web", "mqtt", "thermostat", "page", "settings"}
Pins == {4, 5, 12, 13, 15}

\* The pins of the switches that know one board only, and relay1GPIO,
\* relay2GPIO, relay3GPIO after ioInit.
FixedPin == [r \in Relays |-> CASE r = 1 -> 12 [] r = 2 -> 13 [] r = 3 -> 15]
\* A faulty choice of the pins, the same for every board.
RelayGPIO_Dual == [r \in Relays |-> CASE r = 1 -> 4 [] r = 2 -> 5 [] OTHER -> 15]

RelayGPIO == [r \in Relays |-> CASE Board = "dual" /\ r = 1 -> 4
                                 [] Board = "dual" /\ r = 2 -> 5
                                 [] OTHER -> FixedPin[r]]
BoardRelays == Relays \cap (CASE Board = "single" -> {1}
                              [] Board = "dual" -> {1, 2}
                              [] OTHER -> 1..3)

Config == [latching : Flags, relay : [Relays -> Levels], thermostat : Flags]
AllOff == [r \in Relays |-> 0]
Zeroed == [latching |-> 0, relay |-> AllOff, thermostat |-> 0]
Nothing == [r \in {} |-> 0]

TypeOK ==
    /\ curr \in [Relays -> Levels]
    /\ driven \in [Pins -> Levels]
    /\ sysCfg \in Config
    /\ stored \in Config
    /\ pc \in {"boot", "init", "idle", "store", "drive", "copy", "latch", "save"}
    /\ by \in Handlers
    /\ \E S \in SUBSET Relays : todo \in [S -> Levels]
    /\ pc \in {"store", "drive"} => DOMAIN todo # {}
    /\ seen \in [Relays -> Levels]
    /\ latched \in [Relays -> Levels \union {None}]
    /\ manual \in {"no", "unsaved", "latched"}
    /\ forcedOff \in BOOLEAN
    /\ raced \subseteq Relays

Init ==
    /\ curr = AllOff
    /\ driven = [p \in Pins |-> 0]
    /\ sysCfg = Zeroed
    /\ stored \in Config
    /\ pc = "boot"
    /\ by = "web"
    /\ todo = Nothing
    /\ seen = AllOff
    /\ latched = [r \in Relays |-> None]
    /\ manual = "no"
    /\ forcedOff = FALSE
    /\ raced = {}
-----------------------------------------------------------------------------
\* A faulty start: the thermostat is on whatever was saved.
Load_ThermostatOn ==
    /\ pc = "boot"
    /\ sysCfg' = [stored EXCEPT !.thermostat = 1]
    /\ pc' = "init"
    /\ UNCHANGED <<curr, driven, stored, by, todo, seen, history>>

\* CFG_Load in user_init; the interrupt is enabled before it.
Load ==
    /\ pc = "boot"
    /\ sysCfg' = stored
    /\ pc' = "init"
    /\ UNCHANGED <<curr, driven, stored, by, todo, seen, history>>

\* ioInit: with latching the saved levels, else all relays of the board off
\* (in the second case the levels in RAM are left as they are).
IoInit ==
    /\ pc = "init"
    /\ LET level(r) == IF sysCfg.latching = 1 THEN sysCfg.relay[r] ELSE 0
           on == {RelayGPIO[r] : r \in {q \in BoardRelays : level(q) = 1}}
           off == {RelayGPIO[r] : r \in {q \in BoardRelays : level(q) = 0}}
       IN driven' = [p \in Pins |-> CASE p \in on -> 1 [] p \in off -> 0
                                      [] OTHER -> driven[p]]
    /\ IF sysCfg.latching = 1
       THEN /\ curr' = [r \in Relays |-> IF r \in BoardRelays THEN sysCfg.relay[r]
                                         ELSE curr[r]]
            /\ raced' = raced \ BoardRelays
       ELSE UNCHANGED <<curr, raced>>
    /\ pc' = "idle"
    /\ UNCHANGED <<sysCfg, stored, by, todo, seen, latched, manual, forcedOff>>
-----------------------------------------------------------------------------
Start(h, step) ==
    /\ pc = "idle"
    /\ by' = h
    /\ pc' = step

\* Faulty levels: the argument is not reduced to off and on.
Switches_Any(S) == [S -> 0..2]

Switches(S) == [S -> Levels]

\* cgiGPIO with one or more relayN arguments.
WebSwitch ==
    /\ Start("web", "store")
    /\ \E S \in (SUBSET Relays) \ {{}} : todo' \in Switches(S)
    /\ UNCHANGED <<curr, driven, sysCfg, stored, seen, history>>

\* mqttDataCb with a topic that names a relay, or one that names none.
MqttSwitch ==
    /\ \/ /\ Start("mqtt", "store")
          /\ \E r \in Relays : todo' \in Switches({r})
       \/ /\ Start("mqtt", "copy")
          /\ todo' = Nothing
    /\ UNCHANGED <<curr, driven, sysCfg, stored, seen, history>>

\* pollThermostatCb with a valid reading outside the hysteresis band.
Thermostat ==
    /\ Start("thermostat", "store")
    /\ sysCfg.thermostat = 1
    /\ todo' \in Switches({1})
    /\ UNCHANGED <<curr, driven, sysCfg, stored, seen, history>>

\* cgiThermostat, thermostat_state posted: relay 1 goes off either way.
ThermostatPage ==
    /\ Start("page", "store")
    /\ \E v \in Flags :
           /\ sysCfg' = [sysCfg EXCEPT !.thermostat = v]
           /\ manual' = IF v = 1 THEN "no" ELSE manual
    /\ todo' = [r \in {1} |-> 0]
    /\ UNCHANGED <<curr, driven, stored, seen, latched, forcedOff, raced>>

\* cgiRLYSettings; with latching as it is, any settings page that saves.
Settings ==
    /\ Start("settings", "save")
    /\ \E v \in Flags : sysCfg' = [sysCfg EXCEPT !.latching = v]
    /\ UNCHANGED <<curr, driven, stored, todo, seen, history>>
-----------------------------------------------------------------------------
\* The relay a handler is at: its arguments are looked up in this order.
Now == CHOOSE r \in DOMAIN todo : \A q \in DOMAIN todo : r <= q

\* currGPIO12State = ...
Store ==
    /\ pc = "store"
    /\ curr' = [curr EXCEPT ![Now] = todo[Now]]
    /\ pc' = "drive"
    /\ latched' = [latched EXCEPT ![Now] = None]
    /\ forcedOff' = IF Now = 1 THEN by = "page" /\ sysCfg.thermostat = 0 ELSE forcedOff
    /\ raced' = raced \ {Now}
    /\ UNCHANGED <<driven, sysCfg, stored, by, todo, seen, manual>>

\* ioGPIO(currGPIO12State, ...).  A build may pass the level just stored
\* from a register or read the variable again.  The web page then switches
\* the thermostat of the relay off (only relay 1 has one that runs).
Drive ==
    /\ pc = "drive"
    /\ LET pin == IF by = "web" THEN RelayGPIO[Now] ELSE FixedPin[Now]
       IN \E level \in {todo[Now], curr[Now]} : driven' = [driven EXCEPT ![pin] = level]
    /\ IF by = "web" /\ Now = 1
       THEN /\ sysCfg' = [sysCfg EXCEPT !.thermostat = 0]
            /\ manual' = IF sysCfg.latching = 1 THEN "latched" ELSE "unsaved"
       ELSE UNCHANGED <<sysCfg, manual>>
    /\ todo' = [r \in DOMAIN todo \ {Now} |-> todo[r]]
    /\ pc' = IF DOMAIN todo # {Now} THEN "store"
             ELSE CASE by = "thermostat" -> "idle"
                    [] by = "page" -> "save"
                    [] OTHER -> "copy"
    /\ UNCHANGED <<curr, stored, by, seen, latched, forcedOff, raced>>

\* if (sysCfg.relay_latching_enable): the levels of all relays are read ...
Copy ==
    /\ pc = "copy"
    /\ IF sysCfg.latching = 1
       THEN pc' = "latch" /\ seen' = curr
       ELSE pc' = "idle" /\ UNCHANGED seen
    /\ UNCHANGED <<curr, driven, sysCfg, stored, by, todo, history>>

\* A faulty Latch: the levels are read but not assigned.
Latch_Forgotten ==
    /\ pc = "latch"
    /\ pc' = "save"
    /\ UNCHANGED <<curr, driven, sysCfg, stored, by, todo, seen, history>>

\* ... and assigned to sysCfg.relay_1_state and so on.
Latch ==
    /\ pc = "latch"
    /\ sysCfg' = [sysCfg EXCEPT !.relay = seen]
    /\ pc' = "save"
    /\ UNCHANGED <<curr, driven, stored, by, todo, seen, history>>

\* CFG_Save.
Save ==
    /\ pc = "save"
    /\ stored' = sysCfg
    /\ pc' = "idle"
    /\ latched' = CASE sysCfg.latching = 0 -> [r \in Relays |-> None]
                    [] sysCfg.latching # 0 /\ by \in {"web", "mqtt"} ->
                           [r \in Relays |-> IF r \in raced THEN None ELSE sysCfg.relay[r]]
                    [] OTHER -> latched
    /\ UNCHANGED <<curr, driven, sysCfg, by, todo, seen, manual, forcedOff, raced>>
-----------------------------------------------------------------------------
\* The places where a handler, or the start of the board, will go by a level
\* it has already: a switch of relay r that comes in now gets mixed with it.
Holds(r) ==
    \/ pc \in {"boot", "init", "latch"}
    \/ pc = "drive" /\ r = Now

\* A line "relayN=" on the serial port, in the interrupt.  A number that is
\* no relay's switches nothing and still copies and saves.
SerialSwitch(r, level) ==
    /\ curr' = [q \in Relays |-> IF q = r THEN level ELSE curr[q]]
    /\ driven' = [p \in Pins |-> IF r \in Relays /\ p = FixedPin[r] THEN level
                                 ELSE driven[p]]
    /\ raced' = IF Holds(r) THEN raced \union ({r} \cap Relays) ELSE raced \ {r}
    /\ forcedOff' = (forcedOff /\ r # 1)
    /\ IF sysCfg.latching = 1
       THEN /\ sysCfg' = [sysCfg EXCEPT !.relay = curr']
            /\ stored' = sysCfg'
            /\ latched' = [q \in Relays |->
                   IF pc = "init" \/ q \in raced' THEN None ELSE curr'[q]]
       ELSE /\ latched' = [q \in Relays |->
                   IF q = r /\ pc # "boot" THEN None ELSE latched[q]]
            /\ UNCHANGED <<sysCfg, stored>>
    /\ UNCHANGED <<handler, manual>>

\* Power fails, or the board restarts: what a handler had begun is not kept.
Restart ==
    /\ pc # "boot"
    /\ curr' = AllOff
    /\ driven' = [p \in Pins |-> 0]
    /\ sysCfg' = Zeroed
    /\ pc' = "boot"
    /\ by' = "web"
    /\ todo' = Nothing
    /\ seen' = AllOff
    /\ manual' = IF pc \in {"idle", "init"} \/ by # "web" THEN manual ELSE "no"
    /\ forcedOff' = (forcedOff /\ (pc \in {"idle", "init"} \/ by # "page"))
    /\ raced' = {}
    /\ UNCHANGED <<stored, latched>>

HandlerStep == Store \/ Drive \/ Copy \/ Latch \/ Save

Next ==
    \/ Load
    \/ IoInit
    \/ WebSwitch
    \/ MqttSwitch
    \/ Thermostat
    \/ ThermostatPage
    \/ Settings
    \/ HandlerStep
    \/ \E r \in Relays \union {0}, level \in Levels : SerialSwitch(r, level)
    \/ Restart

Spec == Init /\ [][Next]_vars
-----------------------------------------------------------------------------
Quiet == pc = "idle"

\* The level the pages and the JSON show for a relay, and that the log line
\* "Relay %d is now" reports, is the level at the relay's pin, unless the
\* interrupt switched the relay in the middle of another switch of it.
ShownIsDriven ==
    Quiet => \A r \in BoardRelays \ raced : driven[RelayGPIO[r]] = curr[r]

\* A relay switched by a command while latching is on keeps the level of the
\* command, over any number of restarts and whatever interrupts, until it is
\* switched again.
LatchedHolds ==
    Quiet => \A r \in BoardRelays :
        latched[r] \in {None, driven[RelayGPIO[r]]}

\* With latching on, switching relay 1 by hand switches its thermostat off
\* for good, until somebody switches it on again.
ManualLatched ==
    Quiet /\ manual = "latched" => sysCfg.thermostat = 0

\* "Manually switching relays means switching the thermostat off"
\* (user/cgi.c): with latching or without.
ManualMeansOff ==
    Quiet /\ manual # "no" => sysCfg.thermostat = 0

\* "Switching off thermostat means force off for relay 1"
\* (user/cgithermostat.c): it stays off until it is switched again.
OffMeansOff ==
    Quiet /\ forcedOff => driven[RelayGPIO[1]] = 0
=============================================================================
