---------------------------- MODULE ConfigStore -----------------------------
(***************************************************************************)
(* CFG_Save and CFG_Load (user/config.c): the configuration is kept in two *)
(* flash sectors and a third sector holds a flag that names the current    *)
(* one.  Every call of the flash driver is a step of its own, power may be *)
(* lost at any step, also in the middle of an erase or a write, and the    *)
(* UART receive interrupt (user/stdout.c), which saves the configuration   *)
(* itself when relay latching is on, may preempt the handlers between two  *)
(* flash calls.                                                            *)
(***************************************************************************)
EXTENDS Naturals

CONSTANTS Configs,     \* valid contents of SYSCFG
          Default,     \* what CFG_Load falls back to
          Blank,       \* contents without CFG_HOLDER in its first word
          Torn         \* CFG_HOLDER is there, the rest is damaged

ASSUME ConfigAssumption ==
    /\ Default \in Configs
    /\ Blank \notin Configs
    /\ Torn \notin Configs
    /\ Blank # Torn

VARIABLES slot,        \* sectors CFG_LOCATION + 0 and + 1
          flag,        \* first byte of sector CFG_LOCATION + 3
          saveFlag,    \* the global SAVE_FLAG saveFlag
          sysCfg,      \* the global SYSCFG sysCfg
          pc,          \* how far each context has come in CFG_Save
          target,      \* the branch of CFG_Save each context has taken
          nested,      \* history: saves by the interrupt during the handlers'
                       \* present save: none, one, or more (2)
          raced        \* history: the interrupt has saved while the
                       \* handlers were inside Window

flash == <<slot, flag>>
vars == <<slot, flag, saveFlag, sysCfg, pc, target, nested, raced>>
history == <<nested, raced>>

Contexts == {"main", "isr"}
Slots == {0, 1}
ErasedFlag == 255
Flags == {0, 1, ErasedFlag}
Contents == Configs \union {Blank, Torn}

SaveSteps == {"branch", "eraseSlot", "writeSlot", "mark", "eraseFlag", "writeFlag"}
PCs == {"off", "check", "idle"} \union SaveSteps

\* A faulty reading of the flag, against which NoTornLoad and NeverLost are
\* tried: an erased flag means sector 0.
ActiveSlot_Erased(f) == IF f = 1 THEN 1 ELSE 0

\* The sector CFG_Load reads: any flag but 0, an erased one too, means 1.
ActiveSlot(f) == IF f = 0 THEN 0 ELSE 1
Active == slot[ActiveSlot(flag)]

\* Flash bits can only be cleared by a write: writing over data that was
\* not erased leaves the new data only when nothing changes.
Programmed(old, new) == IF old \in {Blank, new} THEN new ELSE Torn
ProgrammedFlag(old, new) == IF old = ErasedFlag THEN new ELSE IF old = new THEN old ELSE 0

TypeOK ==
    /\ slot \in [Slots -> Contents]
    /\ flag \in Flags
    /\ saveFlag \in Flags
    /\ sysCfg \in Contents
    /\ pc \in [Contexts -> PCs]
    /\ pc["isr"] \in {"idle"} \union SaveSteps
    /\ target \in [Contexts -> Slots]
    /\ nested \in 0..2
    /\ raced \in BOOLEAN

PoweredOff == [c \in Contexts |-> IF c = "main" THEN "off" ELSE "idle"]

Init ==
    /\ slot \in [Slots -> Configs \union {Blank}]
    /\ flag \in Flags
    /\ saveFlag = 0
    /\ sysCfg = Blank
    /\ pc = PoweredOff
    /\ target = [c \in Contexts |-> 0]
    /\ nested = 0
    /\ raced = FALSE
-----------------------------------------------------------------------------
\* The handlers run only while no interrupt is being served.
Runs(c) == c = "main" => pc["isr"] = "idle"

\* CFG_Load, up to the test of cfg_holder.  Before it sysCfg is all zeros,
\* latching is off and the interrupt does not save.
Load ==
    /\ pc["main"] = "off"
    /\ saveFlag' = flag
    /\ sysCfg' = Active
    /\ pc' = [pc EXCEPT !["main"] = "check"]
    /\ UNCHANGED <<flash, target, history>>

\* The rest of CFG_Load: a bad cfg_holder brings the defaults and a save.
LoadCheck ==
    /\ pc["main"] = "check"
    /\ Runs("main")
    /\ \/ /\ sysCfg # Blank
          /\ pc' = [pc EXCEPT !["main"] = "idle"]
          /\ UNCHANGED <<sysCfg, saveFlag, nested>>
       \/ /\ sysCfg = Blank
          /\ sysCfg' = Default
          /\ saveFlag' = flag
          /\ pc' = [pc EXCEPT !["main"] = "branch"]
          /\ nested' = 0
    /\ UNCHANGED <<flash, target, raced>>

\* A handler changes fields of sysCfg and does not save: every switch of a
\* relay from the web page while latching is off does this.
Modify ==
    /\ pc["main"] = "idle"
    /\ Runs("main")
    /\ sysCfg' \in Configs
    /\ UNCHANGED <<flash, saveFlag, pc, target, history>>

\* A settings page changes sysCfg and calls CFG_Save, which reads the flag.
ModifyAndSave ==
    /\ pc["main"] = "idle"
    /\ Runs("main")
    /\ sysCfg' \in Configs
    /\ saveFlag' = flag
    /\ pc' = [pc EXCEPT !["main"] = "branch"]
    /\ nested' = 0
    /\ UNCHANGED <<flash, target, raced>>

\* The part of the handlers' save in which one by the interrupt is harmful:
\* until the sector is erased because it becomes the current one, and until
\* the flag is erased because that selects sector 1 again for a moment.
Window == {"eraseSlot", "writeSlot", "mark", "eraseFlag"}

\* A "relayN=" line on the serial port, latching on: the relay fields of
\* sysCfg change, whatever the rest of it is, and CFG_Save reads the flag.
Interrupt ==
    /\ pc["main"] # "off"
    /\ pc["isr"] = "idle"
    /\ sysCfg' \in IF sysCfg \in Configs THEN Configs ELSE {sysCfg}
    /\ saveFlag' = flag
    /\ pc' = [pc EXCEPT !["isr"] = "branch"]
    /\ nested' = IF pc["main"] \in SaveSteps /\ nested < 2 THEN nested + 1 ELSE nested
    /\ raced' = (raced \/ pc["main"] \in Window)
    /\ UNCHANGED <<flash, target>>

\* if (saveFlag.flag == 0) ... else ...
Branch(c) ==
    /\ pc[c] = "branch"
    /\ Runs(c)
    /\ target' = [target EXCEPT ![c] = IF saveFlag = 0 THEN 1 ELSE 0]
    /\ pc' = [pc EXCEPT ![c] = "eraseSlot"]
    /\ UNCHANGED <<flash, saveFlag, sysCfg, history>>

EraseSlot(c) ==
    /\ pc[c] = "eraseSlot"
    /\ Runs(c)
    /\ slot' = [slot EXCEPT ![target[c]] = Blank]
    /\ pc' = [pc EXCEPT ![c] = "writeSlot"]
    /\ UNCHANGED <<flag, saveFlag, sysCfg, target, history>>

WriteSlot(c) ==
    /\ pc[c] = "writeSlot"
    /\ Runs(c)
    /\ slot' = [slot EXCEPT ![target[c]] = Programmed(@, sysCfg)]
    /\ pc' = [pc EXCEPT ![c] = "mark"]
    /\ UNCHANGED <<flag, saveFlag, sysCfg, target, history>>

\* Two faulty versions of Mark: the flag is counted up, or not set at all.
Mark_Counts(c) ==
    /\ pc[c] = "mark"
    /\ Runs(c)
    /\ saveFlag' = saveFlag + 1
    /\ pc' = [pc EXCEPT ![c] = "eraseFlag"]
    /\ UNCHANGED <<flash, sysCfg, target, history>>
Mark_Forgotten(c) ==
    /\ pc[c] = "mark"
    /\ Runs(c)
    /\ pc' = [pc EXCEPT ![c] = "eraseFlag"]
    /\ UNCHANGED <<flash, saveFlag, sysCfg, target, history>>

\* saveFlag.flag = 1, or 0 in the other branch.
Mark(c) ==
    /\ pc[c] = "mark"
    /\ Runs(c)
    /\ saveFlag' = target[c]
    /\ pc' = [pc EXCEPT ![c] = "eraseFlag"]
    /\ UNCHANGED <<flash, sysCfg, target, history>>

EraseFlag(c) ==
    /\ pc[c] = "eraseFlag"
    /\ Runs(c)
    /\ flag' = ErasedFlag
    /\ pc' = [pc EXCEPT ![c] = "writeFlag"]
    /\ UNCHANGED <<slot, saveFlag, sysCfg, target, history>>

WriteFlag(c) ==
    /\ pc[c] = "writeFlag"
    /\ Runs(c)
    /\ flag' = ProgrammedFlag(flag, saveFlag)
    /\ pc' = [pc EXCEPT ![c] = "idle"]
    /\ UNCHANGED <<slot, saveFlag, sysCfg, target, history>>
-----------------------------------------------------------------------------
\* The context whose flash call is under way when power is lost.
Running == IF pc["isr"] = "idle" THEN "main" ELSE "isr"

\* What an interrupted flash call may leave.  An erase can leave anything
\* between the old contents and none, a write part of the new data; writing
\* what is already there changes no bit.
TornSlot(old) ==
    CASE pc[Running] = "eraseSlot" -> {old, Blank, Torn}
      [] pc[Running] = "writeSlot" -> IF old = sysCfg THEN {old}
                                      ELSE {old, Programmed(old, sysCfg), Torn}
      [] OTHER -> {old}
TornFlag ==
    CASE pc[Running] = "eraseFlag" -> Flags
      [] pc[Running] = "writeFlag" -> {flag, ProgrammedFlag(flag, saveFlag)}
      [] OTHER -> {flag}

\* A power failure, or system_restart: RAM is lost, flash stays.
Crash ==
    /\ pc["main"] # "off"
    /\ LET t == target[Running]
       IN  \E s \in TornSlot(slot[t]) : slot' = [slot EXCEPT ![t] = s]
    /\ flag' \in TornFlag
    /\ saveFlag' = 0
    /\ sysCfg' = Blank
    /\ pc' = PoweredOff
    /\ target' = [c \in Contexts |-> 0]
    /\ nested' = 0
    /\ UNCHANGED raced

SaveStep(c) ==
    \/ Branch(c)
    \/ EraseSlot(c)
    \/ WriteSlot(c)
    \/ Mark(c)
    \/ EraseFlag(c)
    \/ WriteFlag(c)

Next ==
    \/ Load
    \/ LoadCheck
    \/ Modify
    \/ ModifyAndSave
    \/ Interrupt
    \/ \E c \in Contexts : SaveStep(c)
    \/ Crash

Spec == Init /\ [][Next]_vars
-----------------------------------------------------------------------------
\* A configuration is never loaded from a damaged sector: what the handlers
\* see is what some handler wrote, or the defaults (CFG_Load trusts the
\* first word of the sector and checks nothing else).
NoTornLoad == ~raced => sysCfg # Torn

\* Once the flash holds a valid current configuration it always does, at
\* every step of a save and whatever a power failure leaves, as long as the
\* interrupt does not save inside Window.
NeverLost == [][~raced /\ Active \in Configs => Active' \in Configs]_vars

\* When CFG_Save returns, the configuration a restart would load is the one
\* in RAM, also when the interrupt has saved in the middle of it, because
\* both go by one saveFlag.  A second interrupt in one save would undo it.
SavedOnReturn ==
    [][\A c \in Contexts : nested < 2 /\ WriteFlag(c) => Active' = sysCfg]_vars

\* Why the protocol works.  The context that is saving works on the sector
\* that is not current until it erases the flag, and by then that sector
\* holds sysCfg; the flag and saveFlag agree again whenever a save ends, so
\* that an interrupted one carries on with what it finds.
SavingInv(c) ==
    /\ pc[c] = "branch" => saveFlag = flag
    /\ pc[c] \in Window => target[c] # ActiveSlot(flag)
    /\ pc[c] = "writeSlot" => slot[target[c]] = Blank
    /\ pc[c] \in {"mark", "eraseFlag"} => slot[target[c]] = sysCfg
    /\ pc[c] = "eraseFlag" => saveFlag = target[c]
    /\ pc[c] = "writeFlag" => /\ saveFlag \in Slots
                              /\ flag \in {ErasedFlag, saveFlag}
                              /\ slot[saveFlag] = sysCfg

LoadingInv ==
    /\ sysCfg # Torn
    /\ Active # Torn
    /\ sysCfg = Blank => pc["main"] \in {"off", "check"}
    /\ sysCfg = Blank /\ pc["main"] = "check" => Active = Blank

ProtocolInv ==
    /\ pc["main"] = "off" => pc["isr"] = "idle"
    /\ ~raced => /\ LoadingInv
                 /\ SavingInv(Running)
                 /\ pc["isr"] # "idle" =>
                        pc["main"] \in {"idle", "check", "branch", "writeFlag"}

\* The two sectors implement a single record that a save replaces at once,
\* whatever step power fails at and wherever the interrupt saves, until it
\* does so inside Window.
Abs == INSTANCE AtomicConfig WITH None <- Blank, stored <- Active, ram <- sysCfg,
                                  broken <- raced
Atomic == Abs!Spec
=============================================================================
