-------------------------- MODULE Settings_proofs ---------------------------
(***************************************************************************)
(* Proofs about what keeps the settings.                                   *)
(*                                                                         *)
(* ConfigStore, for every set of configurations: the type invariant, the   *)
(* protocol invariant, what it gives (NoTornLoad, NeverLost,               *)
(* SavedOnReturn), and that the two sectors implement AtomicConfig.        *)
(*                                                                         *)
(* Wifi (W), for any networks and any length of a long press: the board    *)
(* gives its access point up only for a network it was in, and short       *)
(* presses of the reset button never add up.  The first rests on InStep:   *)
(* what the station is to join is what was asked for last, once the timer  *)
(* of the request has run out.                                             *)
(***************************************************************************)
EXTENDS MCSettings, TLAPS

USE DEF Contexts, Slots, Flags, ErasedFlag, Contents, SaveSteps, PCs

\* What a write over old contents gives is again possible contents.
LEMMA ProgrammedType ==
    ASSUME NEW was \in Contents, NEW now \in Contents
    PROVE  Programmed(was, now) \in Contents
  BY DEF Programmed

LEMMA ProgrammedFlagType ==
    ASSUME NEW was \in Flags, NEW now \in Flags
    PROVE  ProgrammedFlag(was, now) \in Flags
  BY DEF ProgrammedFlag

\* A failure leaves possible contents.
LEMMA TornType ==
    ASSUME TypeOK, NEW s \in Slots
    PROVE  /\ TornSlot(slot[s]) \subseteq Contents
           /\ TornFlag \subseteq Flags
  <1>1. Programmed(slot[s], sysCfg) \in Contents
    BY ProgrammedType DEF TypeOK
  <1>2. ProgrammedFlag(flag, saveFlag) \in Flags
    BY ProgrammedFlagType DEF TypeOK
  <1>3. QED
    BY <1>1, <1>2 DEF TypeOK, TornSlot, TornFlag

LEMMA FlashTypeInit == Init => TypeOK
<1> SUFFICES ASSUME Init PROVE TypeOK
  OBVIOUS
<1>1. slot \in [Slots -> Contents]
  BY DEF Init
<1>2. pc \in [Contexts -> PCs] /\ pc["isr"] = "idle"
  BY DEF Init, PoweredOff
<1>3. target \in [Contexts -> Slots]
  BY DEF Init
<1>4. raced \in BOOLEAN
  BY Zenon DEF Init
<1>5. QED
  BY <1>1, <1>2, <1>3, <1>4 DEF Init, TypeOK

LEMMA FlashTypeNext == TypeOK /\ [Next]_vars => TypeOK'
<1> SUFFICES ASSUME TypeOK, [Next]_vars PROVE TypeOK'
  OBVIOUS
<1>1. Active \in Contents
  BY DEF TypeOK, Active, ActiveSlot
<1>2. CASE Load
  BY <1>1, <1>2 DEF TypeOK, Load, flash, history
<1>3. CASE LoadCheck
  BY <1>3, ConfigAssumption DEF TypeOK, LoadCheck, flash
<1>4. CASE Modify \/ ModifyAndSave
  BY <1>4 DEF TypeOK, Modify, ModifyAndSave, flash, history
<1>5. CASE Interrupt
  BY <1>5 DEF TypeOK, Interrupt, flash
<1>6. ASSUME NEW c \in Contexts, SaveStep(c) PROVE TypeOK'
  <2>1. CASE Branch(c) \/ EraseSlot(c) \/ Mark(c) \/ EraseFlag(c)
    BY <2>1 DEF TypeOK, Branch, EraseSlot, Mark, EraseFlag, flash, history
  <2>2. CASE WriteSlot(c)
    <3>1. Programmed(slot[target[c]], sysCfg) \in Contents
      BY ProgrammedType DEF TypeOK
    <3>2. QED
      BY <2>2, <3>1 DEF TypeOK, WriteSlot, history
  <2>3. CASE WriteFlag(c)
    <3>1. ProgrammedFlag(flag, saveFlag) \in Flags
      BY ProgrammedFlagType DEF TypeOK
    <3>2. QED
      BY <2>3, <3>1 DEF TypeOK, WriteFlag, history
  <2>4. QED
    BY <1>6, <2>1, <2>2, <2>3 DEF SaveStep
<1>7. CASE Crash
  <2>1. target[Running] \in Slots
    BY DEF TypeOK, Running
  <2>2. QED
    BY <1>7, <2>1, TornType DEF TypeOK, Crash, PoweredOff
<1>8. CASE UNCHANGED vars
  BY <1>8 DEF TypeOK, vars
<1>9. QED
  BY <1>2, <1>3, <1>4, <1>5, <1>6, <1>7, <1>8 DEF Next

\* Every variable keeps its type: CFG_Save and CFG_Load only ever use the
\* two sectors and the three readings of the flag byte.
THEOREM TypeCorrect == Spec => []TypeOK
  BY FlashTypeInit, FlashTypeNext, PTL DEF Spec
-----------------------------------------------------------------------------
IInv == TypeOK /\ ProtocolInv

\* The context that makes a step of CFG_Save is the running one.
LEMMA RunningContext ==
    ASSUME TypeOK, NEW c \in Contexts, SaveStep(c)
    PROVE  c = Running /\ pc[c] \in SaveSteps
  BY DEF TypeOK, SaveStep, Branch, EraseSlot, WriteSlot, Mark, EraseFlag, WriteFlag,
         Runs, Running

LEMMA InitProtocol == Init => ProtocolInv
  BY ConfigAssumption
  DEF Init, PoweredOff, ProtocolInv, LoadingInv, SavingInv, Running, Active, ActiveSlot, Window

\* The context that runs keeps the protocol when it takes a step of CFG_Save.
LEMMA SaveStepProtocol ==
    ASSUME IInv, NEW c \in Contexts, SaveStep(c), TypeOK'
    PROVE  ProtocolInv'
  <1> USE RunningContext DEF IInv
  <1>1. CASE Branch(c)
    BY <1>1 DEF Branch, TypeOK, ProtocolInv, LoadingInv, SavingInv, Running, Active,
                ActiveSlot, Window, flash, history
  <1>2. CASE EraseSlot(c)
    BY <1>2, ConfigAssumption
    DEF EraseSlot, TypeOK, ProtocolInv, LoadingInv, SavingInv, Running, Active,
        ActiveSlot, Window, history
  <1>3. CASE WriteSlot(c)
    BY <1>3 DEF WriteSlot, Programmed, TypeOK, ProtocolInv, LoadingInv, SavingInv, Running,
                Active, ActiveSlot, Window, history
  <1>4. CASE Mark(c)
    BY <1>4 DEF Mark, TypeOK, ProtocolInv, LoadingInv, SavingInv, Running, Active,
                ActiveSlot, Window, flash, history
  <1>5. CASE EraseFlag(c)
    BY <1>5 DEF EraseFlag, TypeOK, ProtocolInv, LoadingInv, SavingInv, Running, Active,
                ActiveSlot, Window, history
  <1>6. CASE WriteFlag(c)
    <2> SUFFICES ASSUME ~raced PROVE ProtocolInv'
      BY <1>6, RunningContext DEF WriteFlag, TypeOK, ProtocolInv, history
    <2>1. /\ saveFlag \in Slots
          /\ slot[saveFlag] = sysCfg
          /\ flag \in {ErasedFlag, saveFlag}
      BY <1>6, RunningContext DEF WriteFlag, ProtocolInv, SavingInv
    <2>2. flag' = saveFlag /\ saveFlag' = saveFlag
      BY <1>6, <2>1 DEF WriteFlag, ProgrammedFlag
    <2>3. slot' = slot /\ sysCfg' = sysCfg /\ raced' = raced
      BY <1>6 DEF WriteFlag, history
    <2>4. Active' = sysCfg
      BY <2>1, <2>2, <2>3 DEF Active, ActiveSlot
    <2>5. pc' = [pc EXCEPT ![c] = "idle"]
      BY <1>6 DEF WriteFlag
    <2>6. LoadingInv'
      BY <1>6, <2>3, <2>4, <2>5, RunningContext DEF ProtocolInv, LoadingInv, TypeOK, WriteFlag, Runs
    <2>7. CASE c = "main"
      BY <1>6, <2>5, <2>6, <2>7 DEF ProtocolInv, SavingInv, Running, TypeOK, Window, WriteFlag, Runs
    <2>8. CASE c = "isr"
      <3>1. pc'["isr"] = "idle" /\ pc'["main"] = pc["main"]
        BY <2>5, <2>8 DEF TypeOK
      <3>2. pc["main"] \in {"idle", "check", "branch", "writeFlag"}
        BY <1>6, <2>8 DEF ProtocolInv, WriteFlag
      <3>3. SavingInv("main")'
        BY <2>1, <2>2, <2>3, <3>1, <3>2 DEF SavingInv, Window
      <3>4. QED
        BY <2>6, <3>1, <3>2, <3>3 DEF ProtocolInv, Running
    <2>9. QED
      BY <2>7, <2>8
  <1>7. QED
    BY <1>1, <1>2, <1>3, <1>4, <1>5, <1>6 DEF SaveStep

\* So do the handlers, the interrupt and a power failure at any point.
LEMMA OtherStepsProtocol ==
    ASSUME IInv, Load \/ LoadCheck \/ Modify \/ ModifyAndSave \/ Interrupt
    PROVE  ProtocolInv'
  <1> USE DEF IInv
  <1>1. CASE Load
    BY <1>1 DEF Load, TypeOK, ProtocolInv, LoadingInv, SavingInv, Running, Active,
                ActiveSlot, Window, flash, history
  <1>2. CASE LoadCheck
    BY <1>2, ConfigAssumption
    DEF LoadCheck, Runs, TypeOK, ProtocolInv, LoadingInv, SavingInv, Running, Active,
        ActiveSlot, Window, flash
  <1>3. CASE Modify \/ ModifyAndSave
    BY <1>3, ConfigAssumption
    DEF Modify, ModifyAndSave, Runs, TypeOK, ProtocolInv, LoadingInv, SavingInv, Running,
        Active, ActiveSlot, Window, flash, history
  <1>4. CASE Interrupt
    <2>1. raced' <=> (raced \/ pc["main"] \in Window)
      BY <1>4 DEF Interrupt
    <2>2. /\ Active' = Active /\ flag' = flag /\ saveFlag' = flag
          /\ pc'["isr"] = "branch" /\ pc'["main"] = pc["main"]
          /\ pc["main"] # "off" /\ pc["isr"] = "idle"
      BY <1>4 DEF Interrupt, TypeOK, Active, flash
    <2>3. \/ sysCfg \in Configs /\ sysCfg' \in Configs
          \/ sysCfg' = sysCfg
      BY <1>4 DEF Interrupt
    <2>4. SavingInv(Running)'
      BY <2>2 DEF SavingInv, Running, Window
    <2>5. ~raced' => LoadingInv'
      BY <2>1, <2>2, <2>3, ConfigAssumption DEF ProtocolInv, LoadingInv
    <2>6. ~raced' => pc["main"] \in {"idle", "check", "branch", "writeFlag"}
      BY <2>1, <2>2 DEF TypeOK, Window
    <2>7. QED
      BY <2>2, <2>4, <2>5, <2>6 DEF ProtocolInv
  <1>5. QED
    BY <1>1, <1>2, <1>3, <1>4

LEMMA CrashProtocol ==
    ASSUME IInv, Crash
    PROVE  /\ ProtocolInv'
           /\ ~raced => (Active' = Active \/ Active' = sysCfg)
  <1> USE DEF IInv
  <1> DEFINE t == target[Running]
  <1>1. /\ pc'["main"] = "off" /\ pc'["isr"] = "idle"
        /\ sysCfg' = Blank /\ raced' = raced
    BY DEF Crash, PoweredOff
  <1>2. t \in Slots /\ flag \in Flags /\ flag' \in TornFlag
    BY DEF TypeOK, Running, Crash
  <1>3. PICK s \in TornSlot(slot[t]) : slot' = [slot EXCEPT ![t] = s]
    BY DEF Crash
  <1>4. ASSUME ~raced PROVE Active' # Torn /\ (Active' = Active \/ Active' = sysCfg)
    <2> USE <1>4
    <2>1. SavingInv(Running) /\ LoadingInv /\ pc[Running] \in PCs
      BY DEF ProtocolInv, TypeOK, Running
    <2>2. CASE pc[Running] \in {"eraseSlot", "writeSlot"}
      <3>1. t # ActiveSlot(flag) /\ flag' = flag
        BY <1>2, <2>1, <2>2 DEF SavingInv, Window, TornFlag
      <3>2. slot'[ActiveSlot(flag)] = slot[ActiveSlot(flag)]
        BY <1>3, <3>1 DEF TypeOK, ActiveSlot
      <3>3. QED
        BY <2>1, <3>1, <3>2 DEF LoadingInv, Active
    <2>3. CASE pc[Running] \notin {"eraseSlot", "writeSlot"}
      <3>1. slot' = slot
        BY <1>2, <1>3, <2>3 DEF TornSlot, TypeOK
      <3>2. CASE pc[Running] = "eraseFlag"
        <4>1. slot[t] = sysCfg /\ t # ActiveSlot(flag)
          BY <2>1, <3>2 DEF SavingInv, Window
        <4>2. slot[ActiveSlot(flag')] \in {sysCfg, Active}
          BY <1>2, <4>1 DEF ActiveSlot, Active
        <4>3. QED
          BY <2>1, <3>1, <4>2 DEF LoadingInv, Active
      <3>3. CASE pc[Running] = "writeFlag"
        <4>1. saveFlag \in Slots /\ slot[saveFlag] = sysCfg
          BY <2>1, <3>3 DEF SavingInv
        <4>2. flag' = flag \/ flag' = saveFlag
          BY <1>2, <2>1, <3>3 DEF TornFlag, SavingInv, ProgrammedFlag
        <4>3. slot[ActiveSlot(flag')] \in {sysCfg, Active}
          BY <4>1, <4>2 DEF ActiveSlot, Active
        <4>4. QED
          BY <2>1, <3>1, <4>3 DEF LoadingInv, Active
      <3>4. CASE pc[Running] \notin {"eraseFlag", "writeFlag"}
        BY <1>2, <2>1, <2>3, <3>1, <3>4 DEF TornFlag, LoadingInv, Active
      <3>5. QED
        BY <3>2, <3>3, <3>4
    <2>4. QED
      BY <2>2, <2>3
  <1>5. ~raced => LoadingInv'
    BY <1>1, <1>4, ConfigAssumption DEF LoadingInv
  <1>6. SavingInv(Running)'
    BY <1>1 DEF SavingInv, Running, Window
  <1>7. QED
    BY <1>1, <1>4, <1>5, <1>6 DEF ProtocolInv

\* The protocol invariant holds of every execution, with power failures
\* everywhere and whatever the interrupt does.
THEOREM Protocol == Spec => []ProtocolInv
<1>1. TypeOK /\ TypeOK' /\ ProtocolInv /\ [Next]_vars => ProtocolInv'
  <2> SUFFICES ASSUME TypeOK, TypeOK', ProtocolInv, [Next]_vars PROVE ProtocolInv'
    OBVIOUS
  <2>1. CASE Next
    BY <2>1, SaveStepProtocol, OtherStepsProtocol, CrashProtocol DEF Next, IInv
  <2>2. CASE UNCHANGED vars
    BY <2>2 DEF vars, ProtocolInv, LoadingInv, SavingInv, Running, Active, ActiveSlot
  <2>3. QED
    BY <2>1, <2>2
<1>2. QED
  BY <1>1, InitProtocol, TypeCorrect, PTL DEF Spec

\* A damaged sector is never loaded (see NoTornLoad).
THEOREM NoTornLoadHolds == Spec => []NoTornLoad
<1>1. ProtocolInv => NoTornLoad
  BY DEF ProtocolInv, LoadingInv, NoTornLoad
<1>2. QED
  BY <1>1, Protocol, PTL
-----------------------------------------------------------------------------
\* What a restart would load changes only to the sysCfg of that moment.
LEMMA ActiveStep ==
    ASSUME IInv, Next, ~raced
    PROVE  Active' = Active \/ (Active' = sysCfg /\ pc["main"] # "off")
  <1> USE DEF IInv
  <1>1. CASE Load \/ LoadCheck \/ Modify \/ ModifyAndSave \/ Interrupt
    BY <1>1 DEF Load, LoadCheck, Modify, ModifyAndSave, Interrupt, flash, Active
  <1>2. ASSUME NEW c \in Contexts, SaveStep(c)
        PROVE  Active' = Active \/ (Active' = sysCfg /\ pc["main"] # "off")
    <2>1. c = Running /\ pc[c] \in SaveSteps /\ SavingInv(c) /\ pc["main"] # "off"
      <3>1. c = Running /\ pc[c] \in SaveSteps
        BY <1>2, RunningContext
      <3>2. SavingInv(c)
        BY <3>1 DEF ProtocolInv
      <3>3. pc["main"] # "off"
        BY <3>1 DEF ProtocolInv, Running
      <3>4. QED
        BY <3>1, <3>2, <3>3
    <2>2. CASE Branch(c) \/ Mark(c)
      BY <2>2 DEF Branch, Mark, flash, Active
    <2>3. CASE EraseSlot(c)
      BY <2>1, <2>3 DEF EraseSlot, SavingInv, Window, Active, ActiveSlot, TypeOK
    <2>4. CASE WriteSlot(c)
      BY <2>1, <2>4 DEF WriteSlot, SavingInv, Window, Active, ActiveSlot, TypeOK
    <2>5. CASE EraseFlag(c)
      BY <2>1, <2>5 DEF EraseFlag, SavingInv, Window, Active, ActiveSlot, TypeOK
    <2>6. CASE WriteFlag(c)
      BY <2>1, <2>6 DEF WriteFlag, ProgrammedFlag, SavingInv, Active, ActiveSlot, TypeOK
    <2>7. QED
      BY <1>2, <2>2, <2>3, <2>4, <2>5, <2>6 DEF SaveStep
  <1>3. CASE Crash
    BY <1>3, CrashProtocol DEF Crash
  <1>4. QED
    BY <1>1, <1>2, <1>3 DEF Next

\* A valid stored configuration is never lost (see NeverLost).
THEOREM NeverLostHolds == Spec => NeverLost
<1>1. TypeOK /\ ProtocolInv /\ [Next]_vars
        => [~raced /\ Active \in Configs => Active' \in Configs]_vars
  <2> SUFFICES ASSUME TypeOK, ProtocolInv, Next, ~raced, Active \in Configs
               PROVE  Active' \in Configs
    OBVIOUS
  <2>1. CASE Active' = Active
    BY <2>1
  <2>2. CASE Active' = sysCfg /\ pc["main"] # "off"
    <3>1. sysCfg # Blank /\ sysCfg # Torn
      BY <2>2, ConfigAssumption DEF ProtocolInv, LoadingInv
    <3>2. QED
      BY <2>2, <3>1 DEF TypeOK
  <2>3. QED
    BY <2>1, <2>2, ActiveStep DEF IInv
<1>2. QED
  BY <1>1, TypeCorrect, Protocol, PTL DEF Spec, NeverLost
-----------------------------------------------------------------------------
\* Before CFG_Load the configuration in RAM is blank, also after a race.
OffInv == pc["main"] = "off" => sysCfg = Blank

LEMMA OffStep == TypeOK /\ OffInv /\ [Next]_vars => OffInv'
  <1> SUFFICES ASSUME TypeOK, OffInv, [Next]_vars PROVE OffInv'
    OBVIOUS
  <1>1. CASE Load \/ LoadCheck \/ Modify \/ ModifyAndSave \/ Interrupt
    BY <1>1 DEF Load, LoadCheck, Modify, ModifyAndSave, Interrupt, OffInv, TypeOK
  <1>2. ASSUME NEW c \in Contexts, SaveStep(c) PROVE OffInv'
    BY <1>2 DEF OffInv, TypeOK, SaveStep, Branch, EraseSlot, WriteSlot, Mark, EraseFlag,
                WriteFlag
  <1>3. CASE Crash
    BY <1>3 DEF Crash, OffInv
  <1>4. CASE UNCHANGED vars
    BY <1>4 DEF vars, OffInv
  <1>5. QED
    BY <1>1, <1>2, <1>3, <1>4 DEF Next

\* A step of the flash protocol is a step of the abstract store, or none.
LEMMA AbstractStep ==
    ASSUME IInv, OffInv, Next, ~raced'
    PROVE  [Abs!Next]_(Abs!vars)
  <1> USE DEF IInv
  <1>1. ~raced /\ raced' = raced /\ LoadingInv
    <2>1. ASSUME NEW c \in Contexts, SaveStep(c) PROVE raced' = raced
      BY <2>1 DEF SaveStep, Branch, EraseSlot, WriteSlot, Mark, EraseFlag, WriteFlag, history
    <2>2. raced' = raced \/ (raced' = (raced \/ pc["main"] \in Window))
      BY <2>1 DEF Next, Load, LoadCheck, Modify, ModifyAndSave, Interrupt, Crash, history
    <2>3. ~raced
      BY <2>2, Zenon
    <2>4. raced \in BOOLEAN /\ raced' \in BOOLEAN
      BY <2>2, Zenon DEF TypeOK
    <2>5. raced' = raced
      BY <2>3, <2>4, Zenon
    <2>6. QED
      BY <2>3, <2>5, Zenon DEF ProtocolInv
  <1>2. Active' = Active \/ (Active' = sysCfg /\ pc["main"] # "off")
    BY <1>1, ActiveStep
  <1>3. sysCfg = Blank => Active' = Active
    BY <1>1, <1>2 DEF LoadingInv
  <1>4. CASE Load
    <2>1. Active' = Active /\ sysCfg' = Active /\ sysCfg = Blank
      BY <1>4 DEF Load, OffInv, Active, flash
    <2>2. QED
      BY <1>1, <2>1 DEF Abs!Next, Abs!Load, Abs!vars
  <1>5. CASE LoadCheck
    <2>1. Active' = Active
      BY <1>5 DEF LoadCheck, Active, flash
    <2>2. CASE sysCfg' = sysCfg
      BY <1>1, <2>1, <2>2 DEF Abs!vars
    <2>3. CASE sysCfg = Blank /\ sysCfg' = Default
      <3>1. Active = Blank
        BY <1>1, <1>5, <2>3 DEF LoadCheck, LoadingInv
      <3>2. QED
        BY <1>1, <2>1, <2>3, <3>1 DEF Abs!Next, Abs!Load
    <2>4. QED
      BY <1>5, <2>2, <2>3 DEF LoadCheck
  <1>6. CASE Modify \/ ModifyAndSave \/ Interrupt
    <2>1. Active' = Active
      BY <1>6 DEF Modify, ModifyAndSave, Interrupt, Active, flash
    <2>2. sysCfg' = sysCfg \/ (sysCfg # Blank /\ sysCfg' \in Configs)
      BY <1>1, <1>6, ConfigAssumption DEF Modify, ModifyAndSave, Interrupt, LoadingInv
    <2>3. QED
      BY <1>1, <2>1, <2>2 DEF Abs!Next, Abs!Modify, Abs!vars
  <1>7. ASSUME NEW c \in Contexts, SaveStep(c) PROVE [Abs!Next]_(Abs!vars)
    <2>1. sysCfg' = sysCfg
      BY <1>7 DEF SaveStep, Branch, EraseSlot, WriteSlot, Mark, EraseFlag, WriteFlag
    <2>2. QED
      BY <1>1, <1>2, <1>3, <2>1 DEF Abs!Next, Abs!Commit, Abs!vars
  <1>8. CASE Crash
    <2>1. sysCfg' = Blank
      BY <1>8 DEF Crash
    <2>2. QED
      BY <1>1, <1>2, <1>3, <2>1 DEF Abs!Next, Abs!Crash
  <1>9. QED
    BY <1>4, <1>5, <1>6, <1>7, <1>8 DEF Next

\* The two sectors and the flag are one record that a save replaces at a
\* single instant, whenever power fails and the interrupt saves, as long as
\* it does not do so inside Window.
THEOREM ImplementsAtomicConfig == Spec => Atomic
<1>1. Init => Abs!Init
  BY DEF Init, Abs!Init, Active, ActiveSlot
<1>2. Init => OffInv
  BY DEF Init, OffInv
<1>3. TypeOK /\ ProtocolInv /\ OffInv /\ [Next]_vars => [Abs!Next]_(Abs!vars)
  <2> SUFFICES ASSUME TypeOK, ProtocolInv, OffInv, [Next]_vars
               PROVE  [Abs!Next]_(Abs!vars)
    OBVIOUS
  <2>1. CASE Next /\ ~raced'
    BY <2>1, AbstractStep DEF IInv
  <2>2. CASE raced'
    BY <2>2 DEF Abs!Next, Abs!Interfere
  <2>3. CASE UNCHANGED vars
    BY <2>3 DEF vars, Abs!vars, Active
  <2>4. QED
    BY <2>1, <2>2, <2>3
<1>4. QED
  BY <1>1, <1>2, <1>3, OffStep, TypeCorrect, Protocol, PTL DEF Spec, Atomic, Abs!Spec
-----------------------------------------------------------------------------
\* The sector that CFG_Save chooses when it has read f.
Chosen(f) == IF f = 0 THEN 1 ELSE 0

\* The save of the interrupt, which nothing interrupts.
InterruptSave ==
    LET t == target["isr"] IN
    /\ pc["isr"] = "branch" => saveFlag = flag
    /\ pc["isr"] = "writeSlot" => slot[t] = Blank
    /\ pc["isr"] \in {"mark", "eraseFlag"} => slot[t] = sysCfg
    /\ pc["isr"] = "eraseFlag" => saveFlag = t
    /\ pc["isr"] = "writeFlag" => saveFlag = t /\ flag = ErasedFlag /\ slot[t] = sysCfg

\* The save of the handlers, before the interrupt came in: it works on the
\* sector that the flag in flash would make the interrupt choose as well.
FirstSave ==
    nested = 0 =>
        /\ pc["main"] \in SaveSteps => pc["isr"] = "idle"
        /\ pc["main"] \in Window => target["main"] = Chosen(flag)
        /\ pc["main"] = "writeFlag" => flag = ErasedFlag

\* While the one that came in runs, both work on one sector.
SameSector ==
    nested < 2 /\ pc["isr"] # "idle" /\ pc["main"] \in Window =>
        IF pc["isr"] = "branch" THEN Chosen(saveFlag) = target["main"]
        ELSE target["isr"] = target["main"]

\* The save of the handlers when it runs, interrupted or not.
HandlersSave ==
    LET t == target["main"] IN
    nested < 2 /\ pc["isr"] = "idle" =>
        /\ pc["main"] = "branch" => saveFlag = flag
        /\ pc["main"] = "writeSlot" => slot[t] \in {Blank, sysCfg}
        /\ pc["main"] \in {"mark", "eraseFlag"} => slot[t] = sysCfg
        /\ pc["main"] = "eraseFlag" => saveFlag = t
        /\ pc["main"] = "writeFlag" => /\ saveFlag \in Slots
                                       /\ flag \in {ErasedFlag, saveFlag}
                                       /\ slot[saveFlag] = sysCfg

ReturnInv == InterruptSave /\ FirstSave /\ SameSector /\ HandlersSave

LEMMA ReturnInit == Init => ReturnInv
  BY DEF Init, PoweredOff, ReturnInv, InterruptSave, FirstSave, SameSector, HandlersSave, Window

\* The steps of the interrupt's save.
LEMMA InterruptSteps ==
    ASSUME TypeOK, ReturnInv, SaveStep("isr")
    PROVE  ReturnInv'
  <1> USE DEF ReturnInv, TypeOK, history, flash
  <1>0. pc["isr"] \in SaveSteps /\ target["isr"] \in Slots
    BY RunningContext
  <1>1. CASE Branch("isr")
    BY <1>0, <1>1 DEF Branch, InterruptSave, FirstSave, SameSector, HandlersSave, Chosen
  <1>2. CASE EraseSlot("isr")
    BY <1>0, <1>2 DEF EraseSlot, InterruptSave, FirstSave, SameSector, HandlersSave
  <1>3. CASE WriteSlot("isr")
    BY <1>0, <1>3 DEF WriteSlot, Programmed, InterruptSave, FirstSave, SameSector, HandlersSave
  <1>4. CASE Mark("isr")
    BY <1>0, <1>4 DEF Mark, InterruptSave, FirstSave, SameSector, HandlersSave
  <1>5. CASE EraseFlag("isr")
    BY <1>0, <1>5 DEF EraseFlag, InterruptSave, FirstSave, SameSector, HandlersSave, Window
  <1>6. CASE WriteFlag("isr")
    <2>1. /\ pc["isr"] = "writeFlag" /\ pc'["isr"] = "idle" /\ pc'["main"] = pc["main"]
          /\ UNCHANGED <<slot, saveFlag, sysCfg, target, nested>>
          /\ saveFlag = target["isr"] /\ slot[target["isr"]] = sysCfg
      BY <1>6 DEF WriteFlag, InterruptSave
    <2>2. flag' = saveFlag
      BY <1>6, <2>1 DEF WriteFlag, InterruptSave, ProgrammedFlag
    <2>3. nested # 0 \/ pc["main"] \notin SaveSteps
      BY <2>1 DEF FirstSave
    <2>4. InterruptSave' /\ FirstSave' /\ SameSector'
      BY <2>1, <2>3 DEF InterruptSave, FirstSave, SameSector, Window
    <2>5. nested < 2 /\ pc["main"] \in Window => target["main"] = saveFlag
      BY <2>1 DEF SameSector
    <2>6. HandlersSave'
      BY <1>0, <2>1, <2>2, <2>5 DEF HandlersSave, Window
    <2>7. QED
      BY <2>4, <2>6
  <1>7. QED
    BY <1>1, <1>2, <1>3, <1>4, <1>5, <1>6 DEF SaveStep

\* The steps of the handlers' save, while no interrupt is served.
LEMMA HandlersSteps ==
    ASSUME TypeOK, ReturnInv, SaveStep("main")
    PROVE  ReturnInv'
  <1> USE DEF ReturnInv, TypeOK, history, flash
  <1>0. pc["isr"] = "idle" /\ pc["main"] \in SaveSteps /\ target["main"] \in Slots
    BY RunningContext DEF SaveStep, Branch, EraseSlot, WriteSlot, Mark, EraseFlag, WriteFlag, Runs
  <1>1. CASE Branch("main")
    BY <1>0, <1>1
    DEF Branch, InterruptSave, FirstSave, SameSector, HandlersSave, Chosen, Window
  <1>2. CASE EraseSlot("main")
    BY <1>0, <1>2 DEF EraseSlot, InterruptSave, FirstSave, SameSector, HandlersSave, Window
  <1>3. CASE WriteSlot("main")
    BY <1>0, <1>3
    DEF WriteSlot, Programmed, InterruptSave, FirstSave, SameSector, HandlersSave, Window
  <1>4. CASE Mark("main")
    BY <1>0, <1>4 DEF Mark, InterruptSave, FirstSave, SameSector, HandlersSave, Window
  <1>5. CASE EraseFlag("main")
    BY <1>0, <1>5 DEF EraseFlag, InterruptSave, FirstSave, SameSector, HandlersSave, Window
  <1>6. CASE WriteFlag("main")
    BY <1>0, <1>6 DEF WriteFlag, InterruptSave, FirstSave, SameSector, HandlersSave, Window
  <1>7. QED
    BY <1>1, <1>2, <1>3, <1>4, <1>5, <1>6 DEF SaveStep

LEMMA ReturnStep ==
    ASSUME TypeOK, ProtocolInv, ReturnInv, [Next]_vars
    PROVE  ReturnInv'
  <1> USE DEF ReturnInv, TypeOK, history, flash
  <1>0. pc["main"] = "off" => pc["isr"] = "idle"
    BY DEF ProtocolInv
  <1>1. CASE Load
    BY <1>0, <1>1 DEF Load, InterruptSave, FirstSave, SameSector, HandlersSave, Window
  <1>2. CASE LoadCheck
    BY <1>2 DEF LoadCheck, Runs, InterruptSave, FirstSave, SameSector, HandlersSave, Window
  <1>3. CASE Modify \/ ModifyAndSave
    BY <1>3 DEF Modify, ModifyAndSave, Runs, InterruptSave, FirstSave, SameSector, HandlersSave,
                Window
  <1>4. CASE Interrupt
    <2>1. /\ pc["isr"] = "idle" /\ pc'["isr"] = "branch" /\ pc'["main"] = pc["main"]
          /\ saveFlag' = flag /\ UNCHANGED <<slot, flag, target>>
      BY <1>4 DEF Interrupt
    <2>2. pc["main"] \in SaveSteps => nested' # 0 /\ (nested' < 2 => nested = 0)
      BY <1>4 DEF Interrupt
    <2>3. InterruptSave' /\ HandlersSave'
      BY <2>1 DEF InterruptSave, HandlersSave
    <2>4. FirstSave'
      BY <2>1, <2>2 DEF FirstSave, Window
    <2>5. SameSector'
      BY <2>1, <2>2 DEF FirstSave, SameSector, Window
    <2>6. QED
      BY <2>3, <2>4, <2>5
  <1>5. CASE Crash
    BY <1>5 DEF Crash, PoweredOff, InterruptSave, FirstSave, SameSector, HandlersSave, Window
  <1>6. CASE UNCHANGED vars
    BY <1>6 DEF vars, InterruptSave, FirstSave, SameSector, HandlersSave
  <1>7. QED
    BY <1>1, <1>2, <1>3, <1>4, <1>5, <1>6, InterruptSteps, HandlersSteps DEF Next

\* When a save returns, a restart would load what is in RAM, also when the
\* interrupt has saved in the middle of it, wherever it came in: both have
\* chosen one sector, or go by the flag the interrupt has left.
THEOREM SavedOnReturnHolds == Spec => SavedOnReturn
<1>1. TypeOK /\ ReturnInv /\ [Next]_vars =>
          [\A c \in Contexts : nested < 2 /\ WriteFlag(c) => Active' = sysCfg]_vars
  <2> SUFFICES ASSUME TypeOK, ReturnInv, NEW c \in Contexts, nested < 2, WriteFlag(c)
               PROVE  Active' = sysCfg
    OBVIOUS
  <2>1. saveFlag \in Slots /\ flag \in {ErasedFlag, saveFlag} /\ slot[saveFlag] = sysCfg
    BY DEF WriteFlag, Runs, ReturnInv, InterruptSave, HandlersSave, TypeOK
  <2>2. flag' = saveFlag /\ slot' = slot
    BY <2>1 DEF WriteFlag, ProgrammedFlag
  <2>3. QED
    BY <2>1, <2>2 DEF Active, ActiveSlot
<1>2. TypeOK /\ ProtocolInv /\ ReturnInv /\ [Next]_vars => ReturnInv'
  BY ReturnStep
<1>3. QED
  BY <1>1, <1>2, ReturnInit, TypeCorrect, Protocol, PTL DEF Spec, SavedOnReturn
-----------------------------------------------------------------------------
\* Wifi

USE NetworksAssumption DEF W!Links, W!HasIP, W!button

RadioTyped ==
    /\ opmode \in {"sta", "ap", "both"}
    /\ saved \in Networks /\ ssid \in Networks /\ station \in Networks
    /\ link \in W!Links \union Networks
    /\ resetCnt \in 0..LongPress

InStep ==
    /\ IF reassTimer THEN stconf = ssid ELSE station = ssid
    /\ W!HasIP => link = station

RadioInv == RadioTyped /\ InStep /\ W!StationOnlyWorks

LEMMA RadioInit == W!Init => RadioInv
<1> SUFFICES ASSUME W!Init PROVE RadioInv
  OBVIOUS
<1>1. RadioTyped
  BY DEF W!Init, RadioTyped, W!Connecting
<1>2. InStep /\ W!StationOnlyWorks
  BY DEF W!Init, InStep, W!StationOnlyWorks, W!Connecting
<1>3. QED
  BY <1>1, <1>2 DEF RadioInv

\* What a start of the board leaves.
LEMMA BootFacts ==
    ASSUME RadioTyped, NEW mode \in {"sta", "ap", "both"}, W!Boot(mode)
    PROVE  RadioTyped' /\ InStep'
<1>1. RadioTyped'
  BY DEF W!Boot, RadioTyped, W!Connecting
<1>2. InStep'
  BY DEF W!Boot, InStep, W!Connecting, RadioTyped
<1>3. QED
  BY <1>1, <1>2

\* Steps that start the board.
LEMMA StartsRadio ==
    ASSUME RadioInv, W!PowerCycle \/ W!StationOnly \/ W!cgiWiFiSetMode
    PROVE  RadioInv'
<1> USE DEF RadioInv
<1>1. CASE W!PowerCycle
  <2>1. RadioTyped' /\ InStep'
    BY <1>1, BootFacts DEF W!PowerCycle, RadioTyped
  <2>2. W!StationOnlyWorks'
    BY <1>1 DEF W!PowerCycle, W!Boot, W!StationOnlyWorks
  <2>3. QED
    BY <2>1, <2>2
<1>2. CASE W!StationOnly
  <2>2. RadioTyped' /\ InStep'
    BY <1>2, BootFacts DEF W!StationOnly
  <2>3. W!StationOnlyWorks'
    BY <1>2 DEF W!StationOnly, W!Boot, InStep, W!StationOnlyWorks, RadioTyped
  <2>4. QED
    BY <2>2, <2>3
<1>3. CASE W!cgiWiFiSetMode
  <2>1. RadioTyped' /\ InStep'
    BY <1>3, BootFacts DEF W!cgiWiFiSetMode, RadioTyped
  <2>2. W!StationOnlyWorks'
    BY <1>3 DEF W!cgiWiFiSetMode, W!StationOnlyWorks
  <2>3. QED
    BY <2>1, <2>2
<1>4. QED
  BY <1>1, <1>2, <1>3

\* The radio and its timers.
LEMMA LinkRadio ==
    ASSUME RadioInv,
           \/ W!Join \/ W!Reach \/ W!wifi_check_ip \/ W!cgiWiFiScan \/ W!wifiScanDoneCb
           \/ W!cgiWiFiConnect \/ W!reassTimerCb \/ W!GiveUp
    PROVE  RadioInv'
<1> USE DEF RadioInv
<1>1. CASE W!Join
  BY <1>1 DEF W!Join, RadioTyped, InStep, W!StationOnlyWorks
<1>2. CASE W!Reach
  BY <1>2 DEF W!Reach, RadioTyped, InStep, W!StationOnlyWorks
<1>3. CASE W!wifi_check_ip
  BY <1>3
  DEF W!wifi_check_ip, W!Watched, W!Status, RadioTyped, InStep, W!StationOnlyWorks
<1>4. CASE W!cgiWiFiScan \/ W!wifiScanDoneCb
  BY <1>4
  DEF W!cgiWiFiScan, W!wifiScanDoneCb, RadioTyped, InStep, W!StationOnlyWorks
<1>5. CASE W!cgiWiFiConnect
  BY <1>5 DEF W!cgiWiFiConnect, RadioTyped, InStep, W!StationOnlyWorks
<1>6. CASE W!reassTimerCb
  <2>1. station' = ssid
    BY <1>6 DEF W!reassTimerCb, InStep
  <2>2. RadioTyped'
    BY <1>6, <2>1 DEF W!reassTimerCb, W!Connecting, RadioTyped
  <2>3. QED
    BY <1>6, <2>1, <2>2
    DEF W!reassTimerCb, W!Connecting, InStep, W!StationOnlyWorks
<1>7. CASE W!GiveUp
  BY <1>7 DEF W!GiveUp, RadioTyped, InStep, W!StationOnlyWorks
<1>8. QED
  BY <1>1, <1>2, <1>3, <1>4, <1>5, <1>6, <1>7

\* The reset button.
LEMMA ButtonRadio ==
    ASSUME RadioInv, W!Press \/ W!ButtonDown \/ W!ButtonUp
    PROVE  RadioInv'
<1> USE DEF RadioInv
<1>1. CASE W!Press
  BY <1>1
  DEF W!Press, W!unpressed, RadioTyped, InStep, W!StationOnlyWorks
<1>2. CASE W!ButtonDown
  BY <1>2
  DEF W!ButtonDown, W!unpressed, RadioTyped, InStep, W!StationOnlyWorks
<1>3. CASE W!ButtonUp /\ resetCnt >= LongPress
  <2>1. W!Boot("both") /\ proved' = NULL /\ doubt' = FALSE
    BY <1>3 DEF W!ButtonUp
  <2>2. RadioTyped' /\ InStep'
    BY <2>1, BootFacts DEF RadioTyped
  <2>3. QED
    BY <2>1, <2>2 DEF W!StationOnlyWorks
<1>4. CASE W!ButtonUp /\ ~(resetCnt >= LongPress)
  BY <1>4
  DEF W!ButtonUp, W!unpressed, RadioTyped, InStep, W!StationOnlyWorks
<1>5. QED
  BY <1>1, <1>2, <1>3, <1>4

LEMMA RadioNext == RadioInv /\ [W!Next]_(W!vars) => RadioInv'
<1> SUFFICES ASSUME RadioInv, [W!Next]_(W!vars) PROVE RadioInv'
  OBVIOUS
<1>1. CASE UNCHANGED W!vars
  BY <1>1 DEF W!vars, RadioInv, RadioTyped, InStep, W!StationOnlyWorks
<1>2. QED
  BY <1>1, StartsRadio, LinkRadio, ButtonRadio DEF W!Next
-----------------------------------------------------------------------------
\* IInv holds in every reachable state.
THEOREM RadioInvariant == W!Spec => []RadioInv
  BY RadioInit, RadioNext, PTL DEF W!Spec

\* When the board went into station-only mode by itself it had been in the
\* network that it joins after the restart, however requests, timers, losses
\* and restarts follow each other; unless another request was waiting then.
THEOREM StationOnlyWorksHolds == W!Spec => []W!StationOnlyWorks
<1>1. RadioInv => W!StationOnlyWorks
  BY DEF RadioInv
<1>2. QED
  BY <1>1, RadioInvariant, PTL

\* A step of another part leaves the Wi-Fi alone.
LEMMA OtherParts ==
    /\ part = "wifi" => RadioInv
    /\ [MCNext]_<<part, flashVars, pageVars, wifiVars>>
    => (part = "wifi" => RadioInv)'
<1> SUFFICES ASSUME part = "wifi" => RadioInv,
                    [MCNext]_<<part, flashVars, pageVars, wifiVars>>,
                    part' = "wifi"
             PROVE  RadioInv'
  OBVIOUS
<1>1. part = "wifi" /\ [W!Next]_(W!vars)
  BY DEF MCNext, Flash, Posting, Radio, wifiVars, W!vars
<1>2. QED
  BY <1>1, RadioNext

\* Whatever is saved, asked for, lost and found again, by however many clients
\* and with however many restarts between: the board leaves its access point
\* only for a network it was in.
THEOREM StaysInReachHolds == MCSpec => []StaysInReach
<1>1. MCInit => (part = "wifi" => RadioInv)
  BY RadioInit DEF MCInit
<1>2. (part = "wifi" => RadioInv) => StaysInReach
  BY DEF RadioInv, StaysInReach
<1>3. QED
  BY <1>1, <1>2, OtherParts, PTL DEF MCSpec
-----------------------------------------------------------------------------
\* The types of all parts

\* What RadioTyped leaves out.
RadioRest ==
    /\ stconf \in Networks \union {NULL} /\ proved \in Networks \union {NULL}
    /\ lastWifiStatus \in W!Links \union {"ip"}
    /\ WiFiLinker \in BOOLEAN /\ reassTimer \in BOOLEAN /\ resetTimer \in BOOLEAN
    /\ scanInProgress \in BOOLEAN /\ doubt \in BOOLEAN /\ pressed \in BOOLEAN
    /\ connTryStatus \in {"idle", "fail"}
    /\ there \subseteq Networks

\* The counts of the polls.
Polled == held \in 0..LongPress /\ forced \in 0..LongPress

LEMMA RadioRestInit == W!Init => RadioRest
<1> SUFFICES ASSUME W!Init PROVE RadioRest
  OBVIOUS
<1>1. stconf = NULL /\ proved = NULL /\ lastWifiStatus = "idle" /\ connTryStatus = "idle"
  BY DEF W!Init
<1>2. /\ WiFiLinker = TRUE /\ reassTimer = FALSE /\ resetTimer = FALSE /\ scanInProgress = FALSE
      /\ doubt = FALSE /\ pressed = FALSE /\ there \subseteq Networks
  BY DEF W!Init
<1>3. lastWifiStatus \in W!Links \union {"ip"} /\ connTryStatus \in {"idle", "fail"}
  BY <1>1
<1>4. QED
  BY <1>1, <1>2, <1>3, Zenon DEF RadioRest

LEMMA PolledInit == W!Init => Polled
  BY DEF W!Init, Polled

LEMMA PolledNext == Polled /\ [W!Next]_(W!vars) => Polled'
<1> SUFFICES ASSUME Polled, [W!Next]_(W!vars) PROVE Polled'
  OBVIOUS
<1> USE DEF Polled
<1>1. CASE W!PowerCycle \/ W!StationOnly \/ W!cgiWiFiSetMode
  BY <1>1 DEF W!PowerCycle, W!StationOnly, W!cgiWiFiSetMode, W!Boot
<1>2. CASE W!Join \/ W!Reach \/ W!wifi_check_ip
  BY <1>2 DEF W!Join, W!Reach, W!wifi_check_ip
<1>3. CASE W!cgiWiFiScan \/ W!wifiScanDoneCb \/ W!cgiWiFiConnect
  BY <1>3 DEF W!cgiWiFiScan, W!wifiScanDoneCb, W!cgiWiFiConnect
<1>4. CASE W!reassTimerCb \/ W!GiveUp
  BY <1>4 DEF W!reassTimerCb, W!GiveUp
<1>5. CASE W!Press \/ W!ButtonDown \/ W!ButtonUp
  BY <1>5 DEF W!Press, W!ButtonDown, W!ButtonUp, W!Boot, W!unpressed
<1>6. CASE UNCHANGED W!vars
  BY <1>6 DEF W!vars
<1>7. QED
  BY <1>1, <1>2, <1>3, <1>4, <1>5, <1>6 DEF W!Next

LEMMA RadioRestNext == RadioInv /\ RadioRest /\ [W!Next]_(W!vars) => RadioRest'
<1> SUFFICES ASSUME RadioInv, RadioRest, [W!Next]_(W!vars) PROVE RadioRest'
  OBVIOUS
<1> USE DEF RadioInv, RadioTyped, RadioRest
<1>1. CASE W!PowerCycle \/ W!StationOnly \/ W!cgiWiFiSetMode
  BY <1>1 DEF W!PowerCycle, W!StationOnly, W!cgiWiFiSetMode, W!Boot
<1>2. CASE W!Join \/ W!Reach
  BY <1>2 DEF W!Join, W!Reach
<1>3. CASE W!wifi_check_ip
  BY <1>3 DEF W!wifi_check_ip, W!Watched, W!Status
<1>4. CASE W!cgiWiFiScan \/ W!wifiScanDoneCb \/ W!cgiWiFiConnect
  BY <1>4 DEF W!cgiWiFiScan, W!wifiScanDoneCb, W!cgiWiFiConnect
<1>5. CASE W!reassTimerCb \/ W!GiveUp
  BY <1>5 DEF W!reassTimerCb, W!GiveUp
<1>6. CASE W!Press \/ W!ButtonDown \/ W!ButtonUp
  BY <1>6 DEF W!Press, W!ButtonDown, W!ButtonUp, W!Boot, W!unpressed
<1>7. CASE UNCHANGED W!vars
  BY <1>7 DEF W!vars
<1>8. QED
  BY <1>1, <1>2, <1>3, <1>4, <1>5, <1>6, <1>7 DEF W!Next

LEMMA RadioTypes == RadioInv /\ RadioRest /\ Polled => W!TypeOK
  BY DEF RadioInv, RadioTyped, RadioRest, Polled, W!TypeOK

\* What a page stores: a text that is there, whatever is posted.  A form knows
\* its page.
Named == \A n \in P!Explored : MCInputOf[n].name = n

PagesTyped ==
    /\ settings = [n \in P!Explored |-> settings[n]]
    /\ \A n \in P!Explored : MCInputOf[n].kind # "flag" => settings[n] \notin {None, <<>>}
    /\ form # None => form.page \in P!Pages /\ "page" \in DOMAIN form
    /\ posting # None => /\ posting.form.page \in P!Pages /\ "page" \in DOMAIN posting.form
                         /\ "form" \in DOMAIN posting

LEMMA InputsNamed == Named
<1> DEFINE all == UNION {{MCInputs[q][k] : k \in DOMAIN MCInputs[q]} : q \in DOMAIN MCInputs}
<1>1. MCInputOf = [n \in {i.name : i \in all} |-> CHOOSE i \in all : i.name = n]
  BY Zenon DEF MCInputOf, ByName
<1>2. SUFFICES ASSUME NEW n \in {i.name : i \in all} PROVE (CHOOSE i \in all : i.name = n).name = n
  BY <1>1 DEF Named, P!Explored
<1> HIDE DEF all
<1>3. \E i \in all : i.name = n
  BY <1>2
<1>4. QED
  BY <1>3

LEMMA StoredTexts ==
    ASSUME PagesTyped, NEW n \in P!Explored, NEW arg, MCInputOf[n].kind # "flag"
    PROVE  P!Stored(MCInputOf[n], arg) \notin {None, <<>>}
<1>1. settings[MCInputOf[n].name] \notin {None, <<>>}
  BY InputsNamed DEF Named, PagesTyped
<1>2. ASSUME arg \notin {None, <<>>} PROVE P!Formatted(arg) \notin {None, <<>>}
  <2>1. P!Formatted(arg) \in {<<"%">>, <<"?">>, arg}
    BY Zenon DEF P!Formatted
  <2>2. <<"%">> # <<>> /\ <<"?">> # <<>>
    OBVIOUS
  <2>3. QED
    BY <1>2, <2>1, <2>2, TextAssumption, Zenon
<1>3. QED
  BY <1>1, <1>2, Zenon DEF P!Stored

LEMMA PagesInit == P!Init => PagesTyped
<1> SUFFICES ASSUME P!Init PROVE PagesTyped
  OBVIOUS
<1>1. form = None /\ posting = None
  BY DEF P!Init
<1>2. \A n \in P!Explored :
         settings[n] = CASE MCInputOf[n].kind = "flag" -> <<"on">>
                         [] n = "board_id" -> <<"0">>
                         [] n # "board_id" /\ MCInputOf[n].kind = "number" -> <<"1">>
                         [] OTHER -> <<"a">>
  BY Zenon DEF P!Init
<1>3. ASSUME NEW n \in P!Explored, MCInputOf[n].kind # "flag"
      PROVE  settings[n] \notin {None, <<>>}
  <2>1. settings[n] \in {<<"0">>, <<"1">>, <<"a">>}
    BY <1>2, <1>3
  <2>2. <<"0">> # <<>> /\ <<"1">> # <<>> /\ <<"a">> # <<>>
    OBVIOUS
  <2>3. QED
    BY <2>1, <2>2, TextAssumption, Zenon
<1>4. settings = [n \in P!Explored |-> settings[n]]
  BY DEF P!Init
<1>5. QED
  BY <1>1, <1>3, <1>4 DEF PagesTyped

\* A handler and what it makes of the forms.
LEMMA HandledTyped ==
    ASSUME PagesTyped, NEW page, NEW line, settings' = P!Handled(page, line)
    PROVE  /\ settings' = [n \in P!Explored |-> settings'[n]]
           /\ \A n \in P!Explored : MCInputOf[n].kind # "flag" => settings'[n] \notin {None, <<>>}
<1>1. \A n \in P!Explored :
         settings'[n] \in {settings[n], P!Stored(MCInputOf[n], P!FindArg(line, n))}
  BY Zenon DEF P!Handled
<1>2. settings' = [n \in P!Explored |-> settings'[n]]
  BY DEF P!Handled
<1>3. \A n \in P!Explored : MCInputOf[n].kind # "flag" => settings'[n] \notin {None, <<>>}
  BY <1>1, StoredTexts, Zenon DEF PagesTyped
<1>4. QED
  BY <1>2, <1>3

LEMMA AgedTyped ==
    ASSUME NEW f, "page" \in DOMAIN f
    PROVE  P!Aged(f).page = f.page /\ "page" \in DOMAIN P!Aged(f)
  BY DEF P!Aged

LEMMA PagesNext == PagesTyped /\ [P!Next]_(P!vars) => PagesTyped'
<1> SUFFICES ASSUME PagesTyped, [P!Next]_(P!vars) PROVE PagesTyped'
  OBVIOUS
<1>1. ASSUME NEW q \in P!Pages, P!Open(q) PROVE PagesTyped'
  BY <1>1 DEF P!Open, PagesTyped
<1>2. CASE P!Edit
  BY <1>2 DEF P!Edit, PagesTyped
<1>3. CASE P!Submit
  BY <1>3 DEF P!Submit, PagesTyped
<1>4. CASE P!Handle
  <2>1. /\ settings' = [n \in P!Explored |-> settings'[n]]
        /\ \A n \in P!Explored : MCInputOf[n].kind # "flag" => settings'[n] \notin {None, <<>>}
    BY <1>4, HandledTyped, Zenon DEF P!Handle
  <2>2. posting' # None => /\ posting'.form.page \in P!Pages /\ "page" \in DOMAIN posting'.form
                           /\ "form" \in DOMAIN posting'
    BY <1>4, AgedTyped DEF P!Handle, PagesTyped
  <2>3. form' = form
    BY <1>4 DEF P!Handle
  <2>4. QED
    BY <2>1, <2>2, <2>3 DEF PagesTyped
<1>5. ASSUME NEW q \in P!Pages, P!Get(q) PROVE PagesTyped'
  <2>1. /\ settings' = [n \in P!Explored |-> settings'[n]]
        /\ \A n \in P!Explored : MCInputOf[n].kind # "flag" => settings'[n] \notin {None, <<>>}
    BY <1>5, HandledTyped, Zenon DEF P!Get
  <2>2. form' # None => form'.page \in P!Pages /\ "page" \in DOMAIN form'
    BY <1>5, AgedTyped DEF P!Get, PagesTyped, P!Aged
  <2>3. posting' # None => /\ posting'.form.page \in P!Pages /\ "page" \in DOMAIN posting'.form
                           /\ "form" \in DOMAIN posting'
    BY <1>5, AgedTyped DEF P!Get, PagesTyped
  <2>4. QED
    BY <2>1, <2>2, <2>3 DEF PagesTyped
<1>6. CASE UNCHANGED P!vars
  BY <1>6 DEF P!vars, PagesTyped
<1>7. QED
  BY <1>1, <1>2, <1>3, <1>4, <1>5, <1>6 DEF P!Next

LEMMA PagesTypes == PagesTyped => P!TypeOK
  BY DEF PagesTyped, P!TypeOK

\* A step of the flash, as a step of the whole.
LEMMA FlashNext == [MCNext]_<<part, flashVars, pageVars, wifiVars>> => [Next]_vars
  BY DEF MCNext, Flash, Posting, Radio, flashVars, vars

\* The settings always are ones that the board can be in: every text is there,
\* whatever was posted, cut off or left out, and the sectors, the radio and the
\* button have their types; for any configurations, networks and length of a
\* press.
THEOREM SettingsTypeCorrect == MCSpec => []PartsTypeOK
<1> DEFINE allVars == <<part, flashVars, pageVars, wifiVars>>
           Inv == /\ TypeOK
                  /\ part = "pages" => PagesTyped
                  /\ part = "wifi" => RadioInv /\ RadioRest /\ Polled
<1>1. MCInit => Inv
  BY FlashTypeInit, PagesInit, RadioInit, RadioRestInit, PolledInit DEF MCInit, NoFlash
<1>2. Inv /\ [MCNext]_allVars => Inv'
  <2> SUFFICES ASSUME Inv, [MCNext]_allVars PROVE Inv'
    OBVIOUS
  <2>1. TypeOK'
    BY FlashNext, FlashTypeNext
  <2>2. ASSUME part' = "pages" PROVE PagesTyped'
    <3>1. part = "pages" /\ [P!Next]_(P!vars)
      BY <2>2 DEF MCNext, Flash, Posting, Radio, pageVars, P!vars
    <3>2. QED
      BY <3>1, PagesNext
  <2>3. ASSUME part' = "wifi" PROVE RadioInv' /\ RadioRest' /\ Polled'
    <3>1. part = "wifi" /\ [W!Next]_(W!vars)
      BY <2>3 DEF MCNext, Flash, Posting, Radio, wifiVars, W!vars
    <3>2. QED
      BY <3>1, RadioNext, RadioRestNext, PolledNext
  <2>4. QED
    BY <2>1, <2>2, <2>3
<1>3. Inv => PartsTypeOK
  BY PagesTypes, RadioTypes DEF PartsTypeOK
<1>4. QED
  BY <1>1, <1>2, <1>3, PTL DEF MCSpec
=============================================================================
