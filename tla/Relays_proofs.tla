---------------------------- MODULE Relays_proofs ----------------------------
(***************************************************************************)
(* Proofs about Relays, for every set of relays and every board: the       *)
(* types, and the three safety properties of the relay board.  The levels  *)
(* agree and latched levels hold because of what is true in the middle of  *)
(* a handler; IInv says what that is.                                      *)
(***************************************************************************)
EXTENDS Relays, TLAPS

Starting == {"boot", "init"}

\* Until the levels were restored there are none but those of the interrupt.
StartInv ==
    /\ pc = "boot" => sysCfg = Zeroed
    /\ pc \in Starting => \A r \in BoardRelays \ raced : curr[r] = 0

\* The pins show the variables, but for the relay that is about to be driven,
\* and that one is driven with its variable.
AgreeInv ==
    Board # "dual" =>
        /\ \A r \in BoardRelays \ raced :
               pc \notin Starting /\ ~(pc = "drive" /\ r = Now) =>
                   driven[RelayGPIO[r]] = curr[r]
        /\ pc = "drive" /\ Now \notin raced => todo[Now] = curr[Now]

\* What is copied to the configuration is what the variables say.
CopyInv ==
    /\ pc = "latch" =>
           sysCfg.latching = 1 /\ \A r \in BoardRelays \ raced : seen[r] = curr[r]
    /\ pc = "save" /\ by \in {"web", "mqtt"} =>
           sysCfg.latching = 1 /\ \A r \in BoardRelays \ raced : sysCfg.relay[r] = curr[r]

\* A latched level is the saved one, from the start of the board on the one in
\* RAM, and from then on the one of the variable.
LatchInv ==
    \A r \in BoardRelays : latched[r] # None =>
        /\ stored.latching = 1 /\ stored.relay[r] = latched[r]
        /\ pc # "boot" => sysCfg.relay[r] = latched[r]
        /\ pc = "init" => sysCfg.latching = 1
        /\ pc \notin Starting => r \notin raced /\ curr[r] = latched[r]

\* The thermostat that a switch by hand turned off is off in RAM, and saved as
\* off unless the handler that will save it still runs.
ManualInv ==
    manual = "latched" =>
        /\ pc # "boot" => sysCfg.thermostat = 0
        /\ \/ stored.thermostat = 0
           \/ by = "web" /\ pc \notin {"boot", "init", "idle"} /\ sysCfg.latching = 1

IInv == TypeOK /\ StartInv /\ AgreeInv /\ CopyInv /\ LatchInv /\ ManualInv
-----------------------------------------------------------------------------
USE RelaysAssumption DEF Levels, Flags, Config, Pins, Handlers, Starting

LEMMA BoardFacts ==
    /\ BoardRelays \subseteq Relays
    /\ RelayGPIO \in [Relays -> Pins]
    /\ FixedPin \in [Relays -> Pins]
    /\ \A r, q \in Relays : FixedPin[r] = FixedPin[q] => r = q
    /\ \A r, q \in Relays : RelayGPIO[r] = RelayGPIO[q] => r = q
    /\ Board # "dual" => RelayGPIO = FixedPin
  BY DEF BoardRelays, RelayGPIO, FixedPin

LEMMA LeastRelay ==
    ASSUME NEW S \in SUBSET Relays, S # {}
    PROVE  \E r \in S : \A q \in S : r <= q
<1>1. CASE 1 \in S
  BY <1>1
<1>2. CASE 1 \notin S /\ 2 \in S
  BY <1>2
<1>3. CASE 1 \notin S /\ 2 \notin S
  <2>1. S \subseteq {3}
    BY <1>3
  <2>2. 3 \in S
    BY <2>1
  <2>3. QED
    BY <2>1, <2>2
<1>4. QED
  BY <1>1, <1>2, <1>3

\* The relay a handler is at is one it has to switch.
LEMMA NowIsOne ==
    ASSUME TypeOK, DOMAIN todo # {}
    PROVE  Now \in DOMAIN todo /\ Now \in Relays /\ todo[Now] \in Levels
<1>1. DOMAIN todo \in SUBSET Relays /\ \A r \in DOMAIN todo : todo[r] \in Levels
  BY DEF TypeOK
<1>2. \E r \in DOMAIN todo : \A q \in DOMAIN todo : r <= q
  BY <1>1, LeastRelay
<1>3. Now \in DOMAIN todo
  BY <1>2, Zenon DEF Now
<1>4. QED
  BY <1>1, <1>3

LEMMA InitInv == Init => IInv
<1> SUFFICES ASSUME Init PROVE IInv
  OBVIOUS
<1>1. AllOff \in [Relays -> Levels] /\ Zeroed \in Config /\ Nothing \in [{} -> Levels]
  BY DEF AllOff, Zeroed, Nothing
<1>2. TypeOK
  BY <1>1 DEF Init, TypeOK
<1>3. StartInv
  BY BoardFacts DEF Init, StartInv, AllOff
<1>4. AgreeInv /\ CopyInv /\ ManualInv
  BY DEF Init, AgreeInv, CopyInv, ManualInv
<1>5. LatchInv
  BY BoardFacts DEF Init, LatchInv
<1>6. QED
  BY <1>2, <1>3, <1>4, <1>5 DEF IInv

LEMMA LoadInv == IInv /\ Load => IInv'
<1> SUFFICES ASSUME IInv, Load PROVE IInv'
  OBVIOUS
<1> USE DEF IInv, history
<1>1. TypeOK'
  BY DEF Load, TypeOK
<1>2. StartInv'
  BY DEF Load, StartInv
<1>3. AgreeInv' /\ CopyInv'
  BY DEF Load, AgreeInv, CopyInv
<1>4. LatchInv'
  BY DEF Load, LatchInv
<1>5. ManualInv'
  BY DEF Load, ManualInv
<1>6. QED
  BY <1>1, <1>2, <1>3, <1>4, <1>5

LEMMA IoInitInv == IInv /\ IoInit => IInv'
<1> SUFFICES ASSUME IInv, IoInit PROVE IInv'
  OBVIOUS
<1> USE DEF IInv
<1>1. TypeOK'
  BY BoardFacts DEF IoInit, TypeOK
<1>2. StartInv'
  BY DEF IoInit, StartInv
<1>3. AgreeInv'
  <2> DEFINE level(r) == IF sysCfg.latching = 1 THEN sysCfg.relay[r] ELSE 0
  <2>1. ASSUME NEW r \in BoardRelays PROVE driven'[RelayGPIO[r]] = level(r)
    <3>1. level(r) \in Levels /\ RelayGPIO[r] \in Pins
      BY BoardFacts DEF TypeOK
    <3>2. \A q \in BoardRelays : RelayGPIO[q] = RelayGPIO[r] => q = r
      BY BoardFacts
    <3>3. QED
      BY <3>1, <3>2 DEF IoInit, TypeOK
  <2>2. ASSUME NEW r \in BoardRelays, r \notin raced' PROVE curr'[r] = level(r)
    BY BoardFacts, <2>2 DEF IoInit, StartInv, TypeOK
  <2>3. QED
    BY <2>1, <2>2 DEF IoInit, AgreeInv
<1>4. CopyInv'
  BY DEF IoInit, CopyInv
<1>5. LatchInv'
  BY BoardFacts DEF IoInit, LatchInv, TypeOK
<1>6. ManualInv'
  BY DEF IoInit, ManualInv
<1>7. QED
  BY <1>1, <1>2, <1>3, <1>4, <1>5, <1>6

\* The handlers' first steps, which switch nothing yet.
LEMMA StartsInv ==
    IInv /\ (WebSwitch \/ MqttSwitch \/ Thermostat \/ ThermostatPage \/ Settings) => IInv'
<1> SUFFICES ASSUME IInv, WebSwitch \/ MqttSwitch \/ Thermostat \/ ThermostatPage \/ Settings
             PROVE  IInv'
  OBVIOUS
<1> USE DEF IInv, Start, Switches, history
<1>1. /\ pc = "idle" /\ pc' \in {"store", "copy", "save"}
      /\ pc' = "save" => by' = "settings"
      /\ UNCHANGED <<curr, driven, stored, seen, latched, forcedOff, raced>>
      /\ UNCHANGED <<sysCfg, manual>> \/ Settings \/ ThermostatPage
  BY DEF WebSwitch, MqttSwitch, Thermostat, ThermostatPage, Settings
<1>2. TypeOK'
  <2>1. CASE WebSwitch
    <3>1. PICK S \in (SUBSET Relays) \ {{}} : todo' \in [S -> Levels]
      BY <2>1 DEF WebSwitch
    <3>2. /\ DOMAIN todo' = S /\ S # {} /\ S \in SUBSET Relays
          /\ by' \in Handlers /\ pc' = "store"
      BY <2>1, <3>1 DEF WebSwitch
    <3>3. UNCHANGED <<sysCfg, manual>>
      BY <2>1 DEF WebSwitch
    <3>4. QED
      BY <1>1, <3>1, <3>2, <3>3 DEF TypeOK
  <2>2. CASE MqttSwitch
    <3>1. PICK S \in SUBSET Relays : todo' \in [S -> Levels]
                                      /\ (pc' = "store" => S # {})
      <4>1. Nothing \in [{} -> Levels]
        BY DEF Nothing
      <4>2. CASE todo' = Nothing /\ pc' = "copy"
        BY <4>1, <4>2
      <4>3. CASE \E r \in Relays : todo' \in [{r} -> Levels]
        <5>1. PICK r \in Relays : todo' \in [{r} -> Levels]
          BY <4>3
        <5>2. {r} \in SUBSET Relays /\ {r} # {}
          OBVIOUS
        <5>3. QED
          BY <5>1, <5>2, Zenon
      <4>4. QED
        BY <2>2, <4>2, <4>3 DEF MqttSwitch
    <3>2. DOMAIN todo' = S /\ by' \in Handlers /\ pc' \in {"store", "copy"}
      BY <2>2, <3>1 DEF MqttSwitch
    <3>3. QED
      BY <1>1, <2>2, <3>1, <3>2 DEF MqttSwitch, TypeOK
  <2>3. CASE Thermostat
    BY <2>3 DEF Thermostat, TypeOK
  <2>4. CASE ThermostatPage
    BY <2>4 DEF ThermostatPage, TypeOK
  <2>5. CASE Settings
    BY <2>5 DEF Settings, TypeOK
  <2>6. QED
    BY <2>1, <2>2, <2>3, <2>4, <2>5
<1>3. StartInv' /\ AgreeInv' /\ CopyInv'
  BY <1>1 DEF StartInv, AgreeInv, CopyInv
<1>4. LatchInv'
  <2>1. sysCfg'.relay = sysCfg.relay
    BY <1>1 DEF Settings, ThermostatPage, TypeOK
  <2>2. QED
    BY <1>1, <2>1 DEF LatchInv
<1>5. ManualInv'
  BY <1>1 DEF ManualInv, Settings, ThermostatPage, TypeOK
<1>6. QED
  BY <1>2, <1>3, <1>4, <1>5

LEMMA StoreInv == IInv /\ Store => IInv'
<1> SUFFICES ASSUME IInv, Store PROVE IInv'
  OBVIOUS
<1> USE DEF IInv
<1>n. Now \in DOMAIN todo /\ Now \in Relays /\ todo[Now] \in Levels /\ Now' = Now
  BY NowIsOne DEF Store, TypeOK, Now
<1>1. TypeOK'
  BY <1>n DEF Store, TypeOK
<1>2. StartInv' /\ CopyInv'
  BY DEF Store, StartInv, CopyInv
<1>3. AgreeInv'
  BY <1>n, BoardFacts DEF Store, AgreeInv, TypeOK
<1>4. LatchInv'
  BY <1>n, BoardFacts DEF Store, LatchInv, TypeOK
<1>5. ManualInv'
  BY DEF Store, ManualInv
<1>6. QED
  BY <1>1, <1>2, <1>3, <1>4, <1>5

LEMMA DriveInv == IInv /\ Drive => IInv'
<1> SUFFICES ASSUME IInv, Drive PROVE IInv'
  OBVIOUS
<1> USE DEF IInv
<1>n. Now \in DOMAIN todo /\ Now \in Relays /\ todo[Now] \in Levels
  BY NowIsOne DEF Drive, TypeOK
<1>l. PICK level \in {todo[Now], curr[Now]} :
          driven' = [driven EXCEPT ![IF by = "web" THEN RelayGPIO[Now] ELSE FixedPin[Now]] = level]
  BY DEF Drive
<1>p. /\ pc' \in {"store", "idle", "save", "copy"}
      /\ pc' = "save" => by' = "page"
      /\ pc' = "idle" => by = "thermostat"
      /\ UNCHANGED <<curr, stored, by, seen, latched, raced>>
      /\ sysCfg'.relay = sysCfg.relay /\ sysCfg'.latching = sysCfg.latching
  BY DEF Drive, TypeOK
<1>1. TypeOK'
  <2>1. driven' \in [Pins -> Levels]
    BY <1>n, <1>l, BoardFacts DEF TypeOK
  <2>2. /\ todo' \in [DOMAIN todo \ {Now} -> Levels] /\ DOMAIN todo \ {Now} \in SUBSET Relays
        /\ pc' \in {"store", "drive"} => DOMAIN todo' # {}
    BY <1>n DEF Drive, TypeOK
  <2>3. sysCfg' \in Config /\ manual' \in {"no", "unsaved", "latched"}
    BY DEF Drive, TypeOK
  <2>4. QED
    BY <1>p, <2>1, <2>2, <2>3 DEF Drive, TypeOK
<1>2. StartInv' /\ CopyInv'
  BY <1>p DEF StartInv, CopyInv
<1>3. AgreeInv'
  <2> SUFFICES ASSUME Board # "dual", NEW r \in BoardRelays \ raced
               PROVE  driven'[RelayGPIO[r]] = curr[r]
    BY <1>p DEF AgreeInv
  <2>1. CASE r = Now
    BY <1>n, <1>l, <2>1, BoardFacts DEF AgreeInv, TypeOK, Drive
  <2>2. CASE r # Now
    BY <1>n, <1>l, <2>2, BoardFacts DEF AgreeInv, TypeOK, Drive
  <2>3. QED
    BY <2>1, <2>2
<1>4. LatchInv'
  BY <1>p DEF LatchInv, Drive
<1>5. ManualInv'
  BY <1>p DEF Drive, ManualInv, TypeOK
<1>6. QED
  BY <1>1, <1>2, <1>3, <1>4, <1>5

LEMMA CopyLatchInv == IInv /\ (Copy \/ Latch) => IInv'
<1> SUFFICES ASSUME IInv, Copy \/ Latch PROVE IInv'
  OBVIOUS
<1> USE DEF IInv, history
<1>1. TypeOK'
  BY DEF Copy, Latch, TypeOK
<1>2. StartInv' /\ AgreeInv'
  BY DEF Copy, Latch, StartInv, AgreeInv
<1>3. CopyInv'
  BY BoardFacts DEF Copy, Latch, CopyInv, TypeOK
<1>4. LatchInv'
  BY BoardFacts DEF Copy, Latch, LatchInv, CopyInv, TypeOK
<1>5. ManualInv'
  BY DEF Copy, Latch, ManualInv, TypeOK
<1>6. QED
  BY <1>1, <1>2, <1>3, <1>4, <1>5

LEMMA SaveInv == IInv /\ Save => IInv'
<1> SUFFICES ASSUME IInv, Save PROVE IInv'
  OBVIOUS
<1> USE DEF IInv
<1>1. TypeOK'
  BY DEF Save, TypeOK
<1>2. StartInv' /\ AgreeInv' /\ CopyInv'
  BY DEF Save, StartInv, AgreeInv, CopyInv
<1>3. LatchInv'
  BY BoardFacts DEF Save, LatchInv, CopyInv, TypeOK
<1>4. ManualInv'
  BY DEF Save, ManualInv, TypeOK
<1>5. QED
  BY <1>1, <1>2, <1>3, <1>4

LEMMA SerialInv ==
    ASSUME IInv, NEW r \in Relays \union {0}, NEW level \in Levels, SerialSwitch(r, level)
    PROVE  IInv'
<1> USE DEF IInv, handler
<1>n. Now' = Now
  BY DEF SerialSwitch, Now
<1>1. TypeOK'
  BY DEF SerialSwitch, TypeOK, Holds
<1>2. StartInv'
  BY BoardFacts DEF SerialSwitch, StartInv, Holds, TypeOK, Zeroed
<1>3. AgreeInv'
  <2> SUFFICES ASSUME Board # "dual"
               PROVE  /\ \A q \in BoardRelays \ raced' :
                             pc \notin Starting /\ ~(pc = "drive" /\ q = Now) =>
                                 driven'[FixedPin[q]] = curr'[q]
                      /\ pc = "drive" /\ Now \notin raced' => todo[Now] = curr'[Now]
    BY <1>n, BoardFacts DEF SerialSwitch, AgreeInv
  <2>1. ASSUME NEW q \in BoardRelays \ raced', pc \notin Starting, ~(pc = "drive" /\ q = Now)
        PROVE  driven'[FixedPin[q]] = curr'[q]
    <3>1. q \in Relays /\ FixedPin[q] \in Pins
          /\ (r \in Relays => (FixedPin[q] = FixedPin[r] => q = r))
      BY BoardFacts
    <3>2. CASE q = r
      BY <2>1, <3>1, <3>2 DEF SerialSwitch, TypeOK
    <3>3. CASE q # r
      <4>1. driven'[FixedPin[q]] = driven[FixedPin[q]] /\ curr'[q] = curr[q]
        BY <3>1, <3>3 DEF SerialSwitch, TypeOK
      <4>2. q \notin raced
        BY <3>3 DEF SerialSwitch
      <4>3. QED
        BY <2>1, <4>1, <4>2, BoardFacts DEF AgreeInv
    <3>4. QED
      BY <3>2, <3>3
  <2>2. ASSUME pc = "drive", Now \notin raced' PROVE todo[Now] = curr'[Now]
    <3>1. Now \in Relays
      BY <2>2, NowIsOne DEF TypeOK
    <3>2. r # Now /\ Now \notin raced
      BY <2>2, <3>1 DEF SerialSwitch, Holds
    <3>3. QED
      BY <2>2, <3>1, <3>2 DEF SerialSwitch, AgreeInv
  <2>3. QED
    BY <2>1, <2>2
<1>4. CopyInv'
  BY BoardFacts DEF SerialSwitch, CopyInv, Holds, TypeOK
<1>5. LatchInv'
  BY BoardFacts DEF SerialSwitch, LatchInv, StartInv, Zeroed, Holds, TypeOK
<1>6. ManualInv'
  <2>1. /\ manual' = manual /\ pc' = pc /\ by' = by
        /\ sysCfg'.thermostat = sysCfg.thermostat /\ sysCfg'.latching = sysCfg.latching
        /\ stored' = stored \/ (stored'.thermostat = sysCfg.thermostat /\ pc # "boot")
    <3>1. sysCfg.latching = 1 => pc # "boot"
      BY DEF StartInv, Zeroed
    <3>2. manual' = manual /\ pc' = pc /\ by' = by
      BY DEF SerialSwitch
    <3>3. CASE sysCfg.latching = 1
      <4>1. sysCfg' = [sysCfg EXCEPT !.relay = curr'] /\ stored' = sysCfg'
        BY <3>3 DEF SerialSwitch
      <4>2. QED
        BY <3>1, <3>2, <3>3, <4>1 DEF TypeOK
    <3>4. CASE sysCfg.latching # 1
      BY <3>2, <3>4 DEF SerialSwitch
    <3>5. QED
      BY <3>3, <3>4
  <2>2. QED
    BY <2>1 DEF ManualInv
<1>7. QED
  BY <1>1, <1>2, <1>3, <1>4, <1>5, <1>6

LEMMA RestartInv == IInv /\ Restart => IInv'
<1> SUFFICES ASSUME IInv, Restart PROVE IInv'
  OBVIOUS
<1> USE DEF IInv
<1>1. AllOff \in [Relays -> Levels] /\ Zeroed \in Config /\ Nothing \in [{} -> Levels]
  BY DEF AllOff, Zeroed, Nothing
<1>2. TypeOK'
  BY <1>1 DEF Restart, TypeOK
<1>3. StartInv'
  BY BoardFacts DEF Restart, StartInv, AllOff
<1>4. AgreeInv' /\ CopyInv' /\ LatchInv' /\ ManualInv'
  BY DEF Restart, AgreeInv, CopyInv, LatchInv, ManualInv
<1>5. QED
  BY <1>2, <1>3, <1>4

LEMMA NextInv == IInv /\ [Next]_vars => IInv'
<1> SUFFICES ASSUME IInv, [Next]_vars PROVE IInv'
  OBVIOUS
<1>1. CASE UNCHANGED vars
  BY <1>1 DEF vars, handler, history, IInv, TypeOK, StartInv, AgreeInv, CopyInv, LatchInv,
              ManualInv, Now
<1>2. CASE \E r \in Relays \union {0}, level \in Levels : SerialSwitch(r, level)
  BY <1>2, SerialInv
<1>3. QED
  BY <1>1, <1>2, LoadInv, IoInitInv, StartsInv, StoreInv, DriveInv, CopyLatchInv, SaveInv,
     RestartInv DEF Next, HandlerStep
-----------------------------------------------------------------------------
\* IInv holds in every reachable state.
THEOREM Invariance == Spec => []IInv
  BY InitInv, NextInv, PTL DEF Spec

\* Every variable of Relays keeps its type, through switches, interrupts and
\* restarts.
THEOREM TypeCorrect == Spec => []TypeOK
<1>1. IInv => TypeOK
  BY DEF IInv
<1>2. QED
  BY <1>1, Invariance, PTL

\* On a board whose relays are at the pins that all switches name, what the
\* pages show for a relay is its level, whatever the serial interrupt does,
\* but where it came into the middle of another switch of that relay.
THEOREM ShownIsDrivenHolds == Spec => [](Board # "dual" => ShownIsDriven)
<1>1. IInv => (Board # "dual" => ShownIsDriven)
  BY DEF IInv, AgreeInv, ShownIsDriven, Quiet
<1>2. QED
  BY <1>1, Invariance, PTL

\* On such a board a level that was switched with latching on is the level of
\* the pin until the next switch, over any number of restarts.
THEOREM LatchedHoldsAlways == Spec => [](Board # "dual" => LatchedHolds)
<1>1. IInv => (Board # "dual" => LatchedHolds)
  BY DEF IInv, AgreeInv, LatchInv, LatchedHolds, Quiet
<1>2. QED
  BY <1>1, Invariance, PTL

\* On every board, with latching a switch of relay 1 by hand keeps its
\* thermostat off, over any number of restarts.
THEOREM ManualLatchedHolds == Spec => []ManualLatched
<1>1. IInv => ManualLatched
  BY DEF IInv, ManualInv, ManualLatched, Quiet
<1>2. QED
  BY <1>1, Invariance, PTL
=============================================================================
