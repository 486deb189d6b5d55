------------------------- MODULE PowerManagerProofs -------------------------
(***************************************************************************)
(* The safety promises of PowerManager, proved for a mailbox of any size   *)
(* and any number of events.                                               *)
(*                                                                         *)
(* ScreenCanWake and WatchdogRuns are inductive together.                  *)
(* SettingApplied is not: it needs to know which blocking message of the   *)
(* vault the manager's mailbox holds (CallInv), and what the manager has   *)
(* while the vault is about to send one, or to go without (TopInv).        *)
(***************************************************************************)
EXTENDS PowerManager, SequenceTheorems, TLAPS

\* The messages the vault blocks on.
Blocking == {"EnableOn", "EnableOff", "Boot"}

\* The mailbox holds at most one of them, the one the vault waits for, and it
\* carries the setting the vault has now.
InOrder(s, pc, on) ==
    \A i \in 1 .. Len(s) : s[i] \in Blocking =>
        /\ pc \in {"boot", "enable", "toggle"}
        /\ s[i] = "Boot" <=> pc = "boot"
        /\ s[i] # "Boot" => s[i] = Config(on)
        /\ \A j \in 1 .. Len(s) : s[j] \in Blocking => i = j

CallInv == InOrder(q, vpc, always_on)

\* If the vault is not going to send the setting, the manager has it.
TopInv == vpc = "top" /\ previous_mode /\ ~always_on => pwr_mgr_enabled

\* With the types and CallInv, this is inductive.
Setting == SettingApplied /\ TopInv

-----------------------------------------------------------------------------
(* The mailbox.                                                            *)

\* What is in the mailbox after one message more.
LEMMA AppendFact ==
    ASSUME NEW s \in Seq(Messages), NEW m \in Messages
    PROVE  /\ Append(s, m) \in Seq(Messages)
           /\ Len(Append(s, m)) = Len(s) + 1
           /\ Len(s) \in Nat
           /\ \A i \in 1 .. Len(s) : Append(s, m)[i] = s[i]
           /\ Append(s, m)[Len(s) + 1] = m
BY AppendProperties, LenProperties

\* What is in the mailbox after one message less.
LEMMA TailFact ==
    ASSUME NEW s \in Seq(Messages), s # <<>>
    PROVE  /\ Head(s) \in Messages /\ Head(s) = s[1]
           /\ Tail(s) \in Seq(Messages)
           /\ Len(s) \in Nat \ {0} /\ Len(Tail(s)) = Len(s) - 1
           /\ \A i \in 1 .. Len(s) - 1 : Tail(s)[i] = s[i + 1]
<1>1. Len(s) \in Nat /\ Len(s) # 0
  BY EmptySeq, LenProperties
<1> QED
  BY <1>1, HeadTailProperties

\* The mailbox keeps its type.
LEMMA QueueType ==
    ASSUME q \in Seq(Messages)
    PROVE  /\ \A m \in Messages : q' = Append(q, m) => q' \in Seq(Messages)
           /\ q # <<>> /\ q' = Tail(q) => q' \in Seq(Messages)
           /\ q # <<>> /\ q' = Append(Tail(q), "Key") => q' \in Seq(Messages)
BY AppendFact, TailFact DEF Messages

-----------------------------------------------------------------------------
(* Types.                                                                  *)

LEMMA EventType ==
    ASSUME TypeOK, Event PROVE events' \in 0 .. MaxEvents
BY EventsAssumption DEF TypeOK, Event

LEMMA ArriveType ==
    ASSUME TypeOK, NEW m \in Messages, Arrive(m)
    PROVE  /\ q' \in Seq(Messages) /\ run' \in {"run", "wfi", "sleeping", "off"}
           /\ wdt' \in BOOLEAN /\ fresh' \in BOOLEAN /\ idle' \in 0 .. 2
<1>1. q' \in Seq(Messages)
  BY QueueType DEF TypeOK, Arrive
<1>2. Resume
  BY DEF Arrive
<1>3. CASE run = "wfi" /\ run' = "run" /\ wdt' = TRUE /\ idle' = AfterSuspend(idle) /\ fresh' = TRUE
  BY <1>1, <1>3 DEF AfterSuspend
<1>4. CASE run \in {"run", "sleeping"} /\ UNCHANGED <<run, wdt, clock>>
  BY <1>1, <1>4 DEF TypeOK, clock
<1> QED
  BY <1>2, <1>3, <1>4 DEF Resume

\* The steps of the world.
LEMMA WorldTypes ==
    ASSUME TypeOK, WorldNext PROVE TypeOK'
<1>1. ASSUME NEW m \in {"Key", "Motion", "Tilt"}, Sense(m) PROVE TypeOK'
  <2>1. m \in Messages /\ Arrive(m) /\ Event
    BY <1>1 DEF Sense, Messages
  <2> QED
    BY <1>1, <2>1, ArriveType, EventType DEF Sense, TypeOK, managerFlags, alarmVars, vaultVars
<1>2. CASE MoveCable
  <2>1. "VbusIrq" \in Messages /\ Arrive("VbusIrq") /\ Event
    BY <1>2 DEF MoveCable, Messages
  <2> QED
    BY <1>2, <2>1, ArriveType, EventType DEF MoveCable, TypeOK, managerFlags, alarmVars, vaultVars
<1>3. ASSUME NEW m \in {"ForceWfi", "ForceDeepSleep", "ScreenOff", "PowerOff"}, Request(m)
      PROVE  TypeOK'
  <2>1. q' \in Seq(Messages)
    BY <1>3, QueueType DEF Request, TypeOK, Messages
  <2> QED
    BY <1>3, <2>1, EventType
    DEF Request, TypeOK, managerFlags, clock, alarmVars, hardware, vaultVars
<1>4. CASE Elapse
  <2>1. idle' \in 0 .. 2
    BY <1>4 DEF Elapse, TypeOK
  <2>2. fresh' \in BOOLEAN
    BY <1>4 DEF Elapse
  <2> QED
    BY <1>4, <2>1, <2>2 DEF Elapse, TypeOK, managerFlags, alarmVars, hardware, vaultVars
<1>5. CASE DismissModal
  <2>1. "Key" \in Messages /\ Arrive("Key")
    BY <1>5 DEF DismissModal, Messages
  <2> QED
    BY <1>5, <2>1, ArriveType DEF DismissModal, TypeOK, managerFlags, alarmVars
<1>6. CASE VaultMessage
  <2>1. previous_mode' \in BOOLEAN
    BY <1>6 DEF VaultMessage, TypeOK
  <2> QED
    BY <1>6, <2>1, EventType
    DEF VaultMessage, TypeOK, managerFlags, clock, alarmVars, hardware
<1>7. CASE ToggleAlwaysOn
  <2>1. q' \in Seq(Messages) /\ vpc' \in {"toggle", "modal"}
    BY <1>7, QueueType DEF ToggleAlwaysOn, Config, TypeOK, Messages
  <2>2. always_on' \in BOOLEAN /\ previous_mode' \in BOOLEAN
    BY <1>7 DEF ToggleAlwaysOn, TypeOK
  <2> QED
    BY <1>7, <2>1, <2>2, EventType
    DEF ToggleAlwaysOn, TypeOK, managerFlags, clock, alarmVars, hardware
<1> QED
  BY <1>1, <1>2, <1>3, <1>4, <1>5, <1>6, <1>7 DEF WorldNext

\* The steps of the timers.
LEMMA TimerTypes ==
    ASSUME TypeOK, TimerNext PROVE TypeOK'
<1>1. CASE AlarmFires
  <2>1. "Alarm" \in Messages /\ Arrive("Alarm")
    BY <1>1 DEF AlarmFires, Messages
  <2> QED
    BY <1>1, <2>1, ArriveType DEF AlarmFires, TypeOK, managerFlags, vaultVars
<1>2. CASE PollTimer
  <2>1. q' \in Seq(Messages)
    BY <1>2, QueueType DEF PollTimer, TypeOK, Messages
  <2> QED
    BY <1>2, <2>1 DEF PollTimer, TypeOK, managerFlags, clock, alarmVars, hardware, vaultVars
<1>3. CASE OffThreadClears
  BY <1>3 DEF OffThreadClears, TypeOK, managerFlags, clock, hardware, vaultVars
<1>4. CASE OffThreadSends
  <2>1. q' \in Seq(Messages)
    BY <1>4, QueueType DEF OffThreadSends, TypeOK, Messages
  <2> QED
    BY <1>4, <2>1 DEF OffThreadSends, TypeOK, managerFlags, clock, alarmVars, hardware, vaultVars
<1>5. CASE PowerDown
  BY <1>5 DEF PowerDown, TypeOK, managerFlags, clock, alarmVars, hardware, vaultVars
<1> QED
  BY <1>1, <1>2, <1>3, <1>4, <1>5 DEF TimerNext

\* The steps of the vault.
LEMMA VaultTypes ==
    ASSUME TypeOK, VaultNext PROVE TypeOK'
<1>1. CASE UpdatePowerState
  <2>1. q' \in Seq(Messages) /\ vpc' \in {"enable", "receive"}
    BY <1>1, QueueType DEF UpdatePowerState, Config, TypeOK, Messages
  <2> QED
    BY <1>1, <2>1 DEF UpdatePowerState, TypeOK, managerFlags, clock, alarmVars, hardware
<1>2. CASE FirstRedraw
  <2>1. q' \in Seq(Messages)
    BY <1>2, QueueType DEF FirstRedraw, TypeOK, Messages
  <2> QED
    BY <1>2, <2>1 DEF FirstRedraw, TypeOK, managerFlags, clock, alarmVars, hardware
<1> QED
  BY <1>1, <1>2 DEF VaultNext

\* A handler takes its message out of the mailbox.
LEMMA ReceiveType ==
    ASSUME TypeOK, NEW m, Receive(m) \/ ReceiveThenInject(m)
    PROVE  q' \in Seq(Messages)
BY QueueType DEF Receive, ReceiveThenInject, TypeOK

\* Setting the alarm, or not.
LEMMA ArmType ==
    ASSUME TypeOK, NEW v, ArmOnBattery(v)
    PROVE  alarm' \in 0 .. 2 /\ alarm_set' \in BOOLEAN
<1>1. CASE v
  BY <1>1 DEF ArmOnBattery, TypeOK
<1>2. CASE ~v
  BY <1>2 DEF ArmOnBattery
<1> QED
  BY <1>1, <1>2

\* The handler of a poll, which may suspend the badge.
LEMMA PollTypes ==
    ASSUME TypeOK, HandlePoll PROVE TypeOK'
<1> DEFINE onPower == ~pwr_mgr_enabled \/ vbus_state
           since   == IF onPower THEN 0 ELSE idle
           clears  == onPower /\ alarm_set
           suspend == \/ ~wfi_awaiting_keypress /\ since > 1
                      \/ wfi_awaiting_keypress /\ since > 0
                      \/ force_wfi
<1>1. q' \in Seq(Messages) /\ since \in 0 .. 2
  BY ReceiveType DEF HandlePoll, TypeOK
<1>2. /\ alarm' = IF clears THEN 0 ELSE IF alarm = 0 THEN 0 ELSE 2
      /\ alarm_set' = (alarm_set /\ ~clears)
      /\ polled' = (polled \/ vbus_state)
  BY DEF HandlePoll
<1>3. alarm' \in 0 .. 2 /\ alarm_set' \in BOOLEAN /\ polled' \in BOOLEAN
  BY <1>2 DEF TypeOK
<1>4. UNCHANGED <<pwr_mgr_enabled, booted, force_deep_sleep, power_off, screen_off_requested,
                  vbus, vbus_state, motionless, offThread, vaultVars, events>>
  BY DEF HandlePoll
<1>5. \/ /\ idle' = since
         /\ UNCHANGED <<run, fresh, force_wfi, screen, wdt, wfi_awaiting_keypress>>
      \/ /\ force_wfi' = FALSE /\ screen' = FALSE /\ wfi_awaiting_keypress' = TRUE
         /\ run' = "wfi" /\ wdt' = FALSE /\ idle' = since /\ fresh' = FALSE
      \/ /\ force_wfi' = FALSE /\ screen' = FALSE /\ wfi_awaiting_keypress' = TRUE
         /\ UNCHANGED run /\ wdt' = TRUE /\ idle' = AfterSuspend(since) /\ fresh' = TRUE
  BY DEF HandlePoll
<1> HIDE DEF since, suspend, clears, onPower
<1>6. CASE /\ idle' = since
           /\ UNCHANGED <<run, fresh, force_wfi, screen, wdt, wfi_awaiting_keypress>>
  BY <1>1, <1>3, <1>4, <1>6 DEF TypeOK, vaultVars
<1>7. CASE /\ force_wfi' = FALSE /\ screen' = FALSE /\ wfi_awaiting_keypress' = TRUE
           /\ run' = "wfi" /\ wdt' = FALSE /\ idle' = since /\ fresh' = FALSE
  <2>1. /\ force_wfi' \in BOOLEAN /\ screen' \in BOOLEAN /\ wfi_awaiting_keypress' \in BOOLEAN
        /\ wdt' \in BOOLEAN /\ fresh' \in BOOLEAN
    BY <1>7
  <2> QED
    BY <1>1, <1>3, <1>4, <1>7, <2>1 DEF TypeOK, vaultVars
<1>8. CASE /\ force_wfi' = FALSE /\ screen' = FALSE /\ wfi_awaiting_keypress' = TRUE
           /\ UNCHANGED run /\ wdt' = TRUE /\ idle' = AfterSuspend(since) /\ fresh' = TRUE
  <2>1. /\ force_wfi' \in BOOLEAN /\ screen' \in BOOLEAN /\ wfi_awaiting_keypress' \in BOOLEAN
        /\ wdt' \in BOOLEAN /\ fresh' \in BOOLEAN
    BY <1>8
  <2>2. idle' \in 0 .. 2
    BY <1>8 DEF AfterSuspend
  <2> QED
    BY <1>1, <1>3, <1>4, <1>8, <2>1, <2>2 DEF TypeOK, vaultVars
<1> QED
  BY <1>5, <1>6, <1>7, <1>8

\* The handlers.
LEMMA ManagerTypes ==
    ASSUME TypeOK, ManagerNext PROVE TypeOK'
<1>1. ASSUME NEW m \in {"EnableOn", "EnableOff"}, HandleEnable(m) PROVE TypeOK'
  <2>1. q' \in Seq(Messages)
    BY <1>1, ReceiveType DEF HandleEnable
  <2>2. pwr_mgr_enabled' \in BOOLEAN
    BY <1>1 DEF HandleEnable
  <2>3. idle' \in 0 .. 2 /\ vpc' \in {"modal", "receive"}
    BY <1>1 DEF HandleEnable, TypeOK
  <2> QED
    BY <1>1, <2>1, <2>2, <2>3 DEF HandleEnable, TypeOK, alarmVars, hardware
<1>2. CASE HandlePoll
  BY <1>2, PollTypes
<1>3. CASE HandleMotion
  <2>1. q' \in Seq(Messages)
    BY <1>3, ReceiveType DEF HandleMotion
  <2>2. alarm' \in 0 .. 2 /\ alarm_set' \in BOOLEAN
    <3>1. CASE ArmOnBattery(vbus_state)
      BY <3>1, ArmType
    <3>2. CASE UNCHANGED <<alarm, alarm_set>>
      BY <3>2 DEF TypeOK
    <3> QED
      BY <1>3, <3>1, <3>2 DEF HandleMotion
  <2> QED
    BY <1>3, <2>1, <2>2 DEF HandleMotion, TypeOK, managerFlags, clock, hardware, vaultVars
<1>4. CASE HandleVbusIrq
  <2>1. q' \in Seq(Messages)
    BY <1>4, ReceiveType DEF HandleVbusIrq
  <2>2. alarm' \in 0 .. 2
    BY <1>4 DEF HandleVbusIrq, ArmWhenPulled, TypeOK
  <2>3. vbus_state' \in BOOLEAN /\ polled' \in BOOLEAN
    BY <1>4 DEF HandleVbusIrq, TypeOK
  <2> QED
    BY <1>4, <2>1, <2>2, <2>3 DEF HandleVbusIrq, TypeOK, managerFlags, clock, hardware, vaultVars
<1>5. CASE HandleKeyPress
  <2>1. q' \in Seq(Messages)
    BY <1>5, ReceiveType DEF HandleKeyPress
  <2>2. fresh' \in BOOLEAN
    BY <1>5 DEF HandleKeyPress
  <2>3. CASE DeepSleep
    <3>1. /\ force_deep_sleep' \in BOOLEAN /\ motionless' \in BOOLEAN
          /\ screen' \in BOOLEAN /\ wdt' \in BOOLEAN
      BY <2>3 DEF DeepSleep, TypeOK
    <3> QED
      BY <1>5, <2>1, <2>2, <2>3, <3>1 DEF HandleKeyPress, DeepSleep, TypeOK, alarmVars, vaultVars
  <2>4. CASE OrdinaryKey
    <3>1. alarm' \in 0 .. 2 /\ alarm_set' \in BOOLEAN
      BY <2>4, ArmType DEF OrdinaryKey
    <3>2. /\ screen' \in BOOLEAN /\ screen_off_requested' \in BOOLEAN
          /\ wfi_awaiting_keypress' \in BOOLEAN
      BY <2>4 DEF OrdinaryKey, WakeScreen, TypeOK
    <3>3. vbus_state' \in BOOLEAN /\ polled' \in BOOLEAN
      BY <2>4 DEF OrdinaryKey, TypeOK
    <3> QED
      BY <1>5, <2>1, <2>2, <2>4, <3>1, <3>2, <3>3
      DEF HandleKeyPress, OrdinaryKey, TypeOK, vaultVars
  <2> QED
    BY <1>5, <2>3, <2>4 DEF HandleKeyPress
<1>6. CASE HandleBoot
  <2>1. q' \in Seq(Messages)
    BY <1>6, ReceiveType DEF HandleBoot
  <2>2. /\ pwr_mgr_enabled' \in BOOLEAN /\ booted' \in BOOLEAN /\ alarm_set' \in BOOLEAN
        /\ vbus_state' \in BOOLEAN /\ polled' \in BOOLEAN /\ motionless' \in BOOLEAN
    BY <1>6 DEF HandleBoot, TypeOK
  <2> QED
    BY <1>6, <2>1, <2>2 DEF HandleBoot, TypeOK, clock
<1>7. CASE HandleRequest
  <2>1. q' \in Seq(Messages)
    BY <1>7, ReceiveType DEF HandleRequest
  <2>2. /\ force_wfi' \in BOOLEAN /\ force_deep_sleep' \in BOOLEAN
        /\ screen_off_requested' \in BOOLEAN /\ screen' \in BOOLEAN
        /\ power_off' \in BOOLEAN
    <3>1. CASE /\ force_wfi' = TRUE
               /\ UNCHANGED <<force_deep_sleep, screen_off_requested, screen, power_off, offThread>>
      BY <3>1 DEF TypeOK
    <3>2. CASE /\ force_deep_sleep' = TRUE
               /\ UNCHANGED <<force_wfi, screen_off_requested, screen, power_off, offThread>>
      BY <3>2 DEF TypeOK
    <3>3. CASE /\ screen_off_requested' = TRUE /\ screen' = FALSE
               /\ UNCHANGED <<force_wfi, force_deep_sleep, power_off, offThread>>
      BY <3>3 DEF TypeOK
    <3>4. CASE /\ power_off' = TRUE /\ offThread' = "asleep"
               /\ UNCHANGED <<force_wfi, force_deep_sleep, screen_off_requested, screen>>
      BY <3>4 DEF TypeOK
    <3> QED
      BY <1>7, <3>1, <3>2, <3>3, <3>4 DEF HandleRequest
  <2>3. offThread' \in {"none", "asleep", "cleared"}
    BY <1>7 DEF HandleRequest, TypeOK
  <2>4. UNCHANGED <<run, pwr_mgr_enabled, booted, wfi_awaiting_keypress, clock, vbus, vbus_state,
                    alarmVars, wdt, motionless, vaultVars, events>>
    BY <1>7 DEF HandleRequest
  <2> QED
    BY <2>1, <2>2, <2>3, <2>4 DEF TypeOK, clock, alarmVars, vaultVars
<1> QED
  BY <1>1, <1>2, <1>3, <1>4, <1>5, <1>6, <1>7 DEF ManagerNext

\* Every variable keeps its type, for a mailbox of any size.
THEOREM TypeCorrect == Spec => []TypeOK
<1>1. Init => TypeOK
  <2> SUFFICES ASSUME Init PROVE TypeOK
    OBVIOUS
  <2>1. q \in Seq(Messages) /\ events \in 0 .. MaxEvents
    BY EventsAssumption, EmptySeq DEF Init
  <2>2. /\ pwr_mgr_enabled \in BOOLEAN /\ booted \in BOOLEAN /\ wfi_awaiting_keypress \in BOOLEAN
        /\ force_wfi \in BOOLEAN /\ force_deep_sleep \in BOOLEAN /\ power_off \in BOOLEAN
        /\ screen_off_requested \in BOOLEAN /\ fresh \in BOOLEAN /\ vbus \in BOOLEAN
    BY DEF Init
  <2>3. /\ vbus_state \in BOOLEAN /\ alarm_set \in BOOLEAN /\ polled \in BOOLEAN
        /\ screen \in BOOLEAN /\ wdt \in BOOLEAN /\ motionless \in BOOLEAN
        /\ always_on \in BOOLEAN /\ boot_sent \in BOOLEAN /\ previous_mode \in BOOLEAN
    BY DEF Init
  <2>4. /\ run = "run" /\ idle = 0 /\ alarm = 0 /\ offThread = "none" /\ vpc = "top"
    BY DEF Init
  <2> QED
    BY <2>1, <2>2, <2>3, <2>4 DEF TypeOK
<1>2. TypeOK /\ [Next]_vars => TypeOK'
  <2> SUFFICES ASSUME TypeOK, [Next]_vars PROVE TypeOK'
    OBVIOUS
  <2>1. CASE UNCHANGED vars
    BY <2>1 DEF vars, TypeOK, managerFlags, clock, alarmVars, hardware, vaultVars
  <2> QED
    BY <2>1, WorldTypes, TimerTypes, ManagerTypes, VaultTypes DEF Next
<1> QED
  BY <1>1, <1>2, PTL DEF Spec

-----------------------------------------------------------------------------
(* The screen and the watchdog.                                            *)

\* An interrupt that resumes the badge, or finds it running.
LEMMA ArriveKeeps ==
    ASSUME ScreenCanWake, WatchdogRuns, NEW m, Arrive(m),
           UNCHANGED <<screen, wfi_awaiting_keypress, screen_off_requested>>
    PROVE  ScreenCanWake' /\ WatchdogRuns'
BY DEF ScreenCanWake, WatchdogRuns, Arrive, Resume

\* The steps that touch neither of them.
LEMMA ScreenFrame ==
    ASSUME ScreenCanWake, WatchdogRuns,
           UNCHANGED <<run, screen, wdt, wfi_awaiting_keypress, screen_off_requested>>
    PROVE  ScreenCanWake' /\ WatchdogRuns'
BY DEF ScreenCanWake, WatchdogRuns

\* A poll that suspends the badge leaves word that it is a key that wakes the screen.
LEMMA PollScreen ==
    ASSUME ScreenCanWake, WatchdogRuns, HandlePoll
    PROVE  ScreenCanWake' /\ WatchdogRuns'
<1>1. UNCHANGED screen_off_requested
  BY DEF HandlePoll
<1>2. \/ UNCHANGED <<run, screen, wdt, wfi_awaiting_keypress>>
      \/ wfi_awaiting_keypress' = TRUE /\ run' = "wfi"
      \/ wfi_awaiting_keypress' = TRUE /\ wdt' = TRUE
  BY DEF HandlePoll
<1> QED
  BY <1>1, <1>2 DEF ScreenCanWake, WatchdogRuns

\* A key turns the screen on again, or puts the badge to sleep.
LEMMA KeyScreen ==
    ASSUME ScreenCanWake, WatchdogRuns, HandleKeyPress
    PROVE  ScreenCanWake' /\ WatchdogRuns'
<1>1. CASE DeepSleep
  BY <1>1 DEF DeepSleep, ScreenCanWake, WatchdogRuns
<1>2. CASE OrdinaryKey
  BY <1>2 DEF OrdinaryKey, WakeScreen, ScreenCanWake, WatchdogRuns
<1> QED
  BY <1>1, <1>2 DEF HandleKeyPress

LEMMA ScreenStep ==
    ASSUME ScreenCanWake, WatchdogRuns, [Next]_vars
    PROVE  ScreenCanWake' /\ WatchdogRuns'
<1>1. CASE WorldNext
  <2>1. ASSUME NEW m \in {"Key", "Motion", "Tilt"}, Sense(m) PROVE ScreenCanWake' /\ WatchdogRuns'
    BY <2>1, ArriveKeeps DEF Sense, managerFlags
  <2>2. CASE MoveCable
    BY <2>2, ArriveKeeps DEF MoveCable, managerFlags
  <2>3. CASE DismissModal
    BY <2>3, ArriveKeeps DEF DismissModal, managerFlags
  <2>4. CASE \/ Elapse \/ VaultMessage \/ ToggleAlwaysOn
             \/ \E m \in {"ForceWfi", "ForceDeepSleep", "ScreenOff", "PowerOff"} : Request(m)
    BY <2>4, ScreenFrame
    DEF Elapse, VaultMessage, ToggleAlwaysOn, Request, managerFlags, hardware
  <2> QED
    BY <1>1, <2>1, <2>2, <2>3, <2>4 DEF WorldNext
<1>2. CASE TimerNext
  <2>1. CASE AlarmFires
    BY <2>1, ArriveKeeps DEF AlarmFires, managerFlags
  <2>2. CASE PowerDown
    BY <2>2 DEF PowerDown, ScreenCanWake, WatchdogRuns
  <2>3. CASE PollTimer \/ OffThreadClears \/ OffThreadSends
    BY <2>3, ScreenFrame DEF PollTimer, OffThreadClears, OffThreadSends, managerFlags, hardware
  <2> QED
    BY <1>2, <2>1, <2>2, <2>3 DEF TimerNext
<1>3. CASE ManagerNext
  <2>1. ASSUME NEW m \in {"EnableOn", "EnableOff"}, HandleEnable(m)
        PROVE  ScreenCanWake' /\ WatchdogRuns'
    BY <2>1, ScreenFrame DEF HandleEnable, hardware
  <2>2. CASE HandleMotion \/ HandleVbusIrq
    BY <2>2, ScreenFrame DEF HandleMotion, HandleVbusIrq, managerFlags, hardware
  <2>3. CASE HandleBoot
    BY <2>3, ScreenFrame DEF HandleBoot
  <2>4. CASE HandleRequest
    <3>1. UNCHANGED <<run, wdt, wfi_awaiting_keypress>>
      BY <2>4 DEF HandleRequest
    <3>2. CASE UNCHANGED <<screen_off_requested, screen>>
      BY <3>1, <3>2, ScreenFrame
    <3>3. CASE screen_off_requested' = TRUE
      BY <3>1, <3>3 DEF ScreenCanWake, WatchdogRuns
    <3> QED
      BY <2>4, <3>2, <3>3 DEF HandleRequest
  <2> QED
    BY <1>3, <2>1, <2>2, <2>3, <2>4, PollScreen, KeyScreen DEF ManagerNext
<1>4. CASE VaultNext
  BY <1>4, ScreenFrame DEF VaultNext, UpdatePowerState, FirstRedraw, managerFlags, hardware
<1>5. CASE UNCHANGED vars
  BY <1>5, ScreenFrame DEF vars, managerFlags, hardware
<1> QED
  BY <1>1, <1>2, <1>3, <1>4, <1>5 DEF Next

\* A dark screen always has a flag set that makes the next key turn it on, however
\* suspends, screen-off requests, keys and refused suspends follow each other.
THEOREM ScreenWakes == Spec => []ScreenCanWake
<1>1. Init => ScreenCanWake /\ WatchdogRuns
  BY DEF Init, ScreenCanWake, WatchdogRuns
<1>2. ScreenCanWake /\ WatchdogRuns /\ [Next]_vars => (ScreenCanWake /\ WatchdogRuns)'
  BY ScreenStep
<1> QED
  BY <1>1, <1>2, PTL DEF Spec

\* The watchdog is on in every running state: each way out of a suspend, a refused
\* one too, enables it again.
THEOREM WatchdogOn == Spec => []WatchdogRuns
<1>1. Init => ScreenCanWake /\ WatchdogRuns
  BY DEF Init, ScreenCanWake, WatchdogRuns
<1>2. ScreenCanWake /\ WatchdogRuns /\ [Next]_vars => (ScreenCanWake /\ WatchdogRuns)'
  BY ScreenStep
<1> QED
  BY <1>1, <1>2, PTL DEF Spec

-----------------------------------------------------------------------------
(* The vault's blocking calls.                                             *)

NoCall(s) == \A i \in 1 .. Len(s) : s[i] \notin Blocking

\* Without a blocking message the mailbox is in order, wherever the vault is.
LEMMA NoCallInOrder ==
    ASSUME NEW s, NEW pc, NEW on, NoCall(s) PROVE InOrder(s, pc, on)
BY DEF NoCall, InOrder

\* While the vault does not wait, there is none.
LEMMA CallerFree ==
    ASSUME CallInv, vpc \notin {"boot", "enable", "toggle"} PROVE NoCall(q)
BY DEF NoCall, CallInv, InOrder

\* A message that nobody blocks on.
LEMMA AppendInOrder ==
    ASSUME NEW s \in Seq(Messages), NEW m \in Messages \ Blocking
    PROVE  /\ NoCall(s) => NoCall(Append(s, m))
           /\ \A pc, on : InOrder(s, pc, on) => InOrder(Append(s, m), pc, on)
<1> DEFINE t == Append(s, m)
<1>1. /\ Len(t) = Len(s) + 1 /\ Len(s) \in Nat
      /\ \A i \in 1 .. Len(s) : t[i] = s[i]
      /\ t[Len(s) + 1] = m
  BY AppendFact
<1> HIDE DEF t
<1>2. \A i \in 1 .. Len(t) : t[i] \in Blocking => i \in 1 .. Len(s) /\ t[i] = s[i]
  BY <1>1
<1>3. NoCall(s) => NoCall(t)
  BY <1>2 DEF NoCall
<1>4. ASSUME NEW pc, NEW on, InOrder(s, pc, on) PROVE InOrder(t, pc, on)
  BY <1>2, <1>4 DEF InOrder
<1> QED
  BY <1>3, <1>4 DEF t

\* The message at the head is taken.
LEMMA TailInOrder ==
    ASSUME NEW s \in Seq(Messages), s # <<>>, NEW pc, NEW on, InOrder(s, pc, on)
    PROVE  /\ InOrder(Tail(s), pc, on)
           /\ Head(s) \in Blocking =>
                /\ NoCall(Tail(s))
                /\ pc \in {"boot", "enable", "toggle"}
                /\ Head(s) = "Boot" <=> pc = "boot"
                /\ Head(s) # "Boot" => Head(s) = Config(on)
<1> DEFINE t == Tail(s)
<1>1. /\ Len(t) = Len(s) - 1 /\ Len(s) \in Nat \ {0} /\ Head(s) = s[1]
      /\ \A i \in 1 .. Len(s) - 1 : t[i] = s[i + 1]
  BY TailFact
<1> HIDE DEF t
<1>2. /\ \A i \in 1 .. Len(t) : i + 1 \in 1 .. Len(s) /\ t[i] = s[i + 1] /\ i + 1 # 1
      /\ 1 \in 1 .. Len(s)
  BY <1>1
<1>3. \A i, j \in 1 .. Len(t) : i + 1 = j + 1 => i = j
  BY <1>1
<1>4. InOrder(t, pc, on)
  <2>1. ASSUME NEW i \in 1 .. Len(t), t[i] \in Blocking
        PROVE  /\ pc \in {"boot", "enable", "toggle"}
               /\ t[i] = "Boot" <=> pc = "boot"
               /\ t[i] # "Boot" => t[i] = Config(on)
               /\ \A j \in 1 .. Len(t) : t[j] \in Blocking => i = j
    <3>1. i + 1 \in 1 .. Len(s) /\ s[i + 1] = t[i]
      BY <1>2
    <3>2. \A j \in 1 .. Len(t) : t[j] \in Blocking => i + 1 = j + 1
      BY <1>2, <2>1, <3>1 DEF InOrder
    <3>3. \A j \in 1 .. Len(t) : t[j] \in Blocking => i = j
      BY <1>3, <3>2
    <3>4. /\ pc \in {"boot", "enable", "toggle"}
          /\ t[i] = "Boot" <=> pc = "boot"
          /\ t[i] # "Boot" => t[i] = Config(on)
      BY <2>1, <3>1 DEF InOrder
    <3> QED
      BY <3>3, <3>4
  <2> QED
    BY <2>1 DEF InOrder
<1>5. Head(s) \in Blocking => NoCall(t)
  BY <1>1, <1>2 DEF NoCall, InOrder
<1>6. Head(s) \in Blocking =>
                /\ pc \in {"boot", "enable", "toggle"}
                /\ Head(s) = "Boot" <=> pc = "boot"
                /\ Head(s) # "Boot" => Head(s) = Config(on)
  BY <1>1, <1>2 DEF InOrder
<1> QED
  BY <1>4, <1>5, <1>6 DEF t

\* The mailbox changes by messages nobody blocks on, and the vault stays where it is.
LEMMA CallFrame ==
    ASSUME q \in Seq(Messages), CallInv, UNCHANGED <<vpc, always_on>>,
           \/ q' = q
           \/ \E m \in Messages \ Blocking : q' = Append(q, m)
           \/ q # <<>> /\ q' = Tail(q)
           \/ q # <<>> /\ q' = Append(Tail(q), "Key")
    PROVE  CallInv'
<1> SUFFICES InOrder(q', vpc, always_on)
  BY DEF CallInv
<1>1. InOrder(q, vpc, always_on)
  BY DEF CallInv
<1>2. CASE q # <<>> /\ q' = Append(Tail(q), "Key")
  <2>1. "Key" \in Messages \ Blocking /\ Tail(q) \in Seq(Messages)
    BY <1>2, TailFact DEF Messages, Blocking
  <2>2. InOrder(Tail(q), vpc, always_on)
    BY <1>1, <1>2, TailInOrder
  <2> QED
    BY <1>2, <2>1, <2>2, AppendInOrder
<1> QED
  BY <1>1, <1>2, TailInOrder, AppendInOrder

\* The vault, which did not wait, sends the setting it has, or Boot, and waits.
LEMMA CallSent ==
    ASSUME q \in Seq(Messages), NoCall(q), NEW m \in Blocking, q' = Append(q, m),
           vpc' \in {"boot", "enable", "toggle"}, m = "Boot" <=> vpc' = "boot",
           m # "Boot" => m = Config(always_on')
    PROVE  CallInv'
<1>1. m \in Messages
  BY DEF Blocking, Messages
<1>2. /\ Len(q') = Len(q) + 1 /\ Len(q) \in Nat
      /\ \A i \in 1 .. Len(q) : q'[i] = q[i]
      /\ q'[Len(q) + 1] = m
  BY <1>1, AppendFact
<1>3. \A i \in 1 .. Len(q') : q'[i] \in Blocking => i = Len(q) + 1 /\ q'[i] = m
  BY <1>2 DEF NoCall
<1> QED
  BY <1>3 DEF CallInv, InOrder

\* The manager takes the blocking message: it was the only one.
LEMMA CallTaken ==
    ASSUME q \in Seq(Messages), CallInv, q # <<>>, Head(q) \in Blocking,
           q' = Tail(q) \/ q' = Append(Tail(q), "Key")
    PROVE  /\ CallInv'
           /\ Head(q) # "Boot" => Head(q) = Config(always_on)
<1>1. NoCall(Tail(q)) /\ (Head(q) # "Boot" => Head(q) = Config(always_on))
  BY TailInOrder DEF CallInv
<1>2. "Key" \in Messages \ Blocking /\ Tail(q) \in Seq(Messages)
  BY TailFact DEF Messages, Blocking
<1>3. NoCall(q')
  BY <1>1, <1>2, AppendInOrder
<1>4. CallInv'
  BY <1>3, NoCallInOrder DEF CallInv
<1> QED
  BY <1>1, <1>4

-----------------------------------------------------------------------------
(* The setting.                                                            *)

\* The steps that touch neither the vault nor what the manager has.
LEMMA SettingFrame ==
    ASSUME Setting, UNCHANGED <<vpc, always_on, previous_mode, pwr_mgr_enabled>>
    PROVE  Setting'
BY DEF Setting, SettingApplied, TopInv

\* An interrupt's message is one that nobody blocks on.
LEMMA ArriveCalls ==
    ASSUME q \in Seq(Messages), CallInv, NEW m \in Messages \ Blocking, Arrive(m),
           UNCHANGED <<vpc, always_on>>
    PROVE  CallInv'
BY CallFrame DEF Arrive

\* A handler that leaves the vault alone.
LEMMA ReceiveCalls ==
    ASSUME q \in Seq(Messages), CallInv, NEW m, Receive(m) \/ ReceiveThenInject(m),
           UNCHANGED <<vpc, always_on>>
    PROVE  CallInv'
BY CallFrame DEF Receive, ReceiveThenInject

LEMMA WorldCalls ==
    ASSUME TypeOK, Setting, CallInv, WorldNext PROVE Setting' /\ CallInv'
<1>0. q \in Seq(Messages)
  BY DEF TypeOK
<1>1. ASSUME NEW m \in {"Key", "Motion", "Tilt"}, Sense(m) PROVE Setting' /\ CallInv'
  <2>1. m \in Messages \ Blocking
    BY <1>1 DEF Messages, Blocking
  <2> QED
    BY <1>0, <1>1, <2>1, ArriveCalls, SettingFrame DEF Sense, managerFlags, vaultVars
<1>2. CASE MoveCable
  <2>1. "VbusIrq" \in Messages \ Blocking
    BY DEF Messages, Blocking
  <2> QED
    BY <1>0, <1>2, <2>1, ArriveCalls, SettingFrame DEF MoveCable, managerFlags, vaultVars
<1>3. ASSUME NEW m \in {"ForceWfi", "ForceDeepSleep", "ScreenOff", "PowerOff"}, Request(m)
      PROVE  Setting' /\ CallInv'
  <2>1. m \in Messages \ Blocking
    BY <1>3 DEF Messages, Blocking
  <2> QED
    BY <1>0, <1>3, <2>1, CallFrame, SettingFrame DEF Request, managerFlags, vaultVars
<1>4. CASE Elapse
  BY <1>0, <1>4, CallFrame, SettingFrame DEF Elapse, managerFlags, vaultVars
<1>5. CASE DismissModal
  <2>1. NoCall(q)
    BY <1>5, CallerFree DEF DismissModal
  <2>2. NoCall(q')
    <3>1. "Key" \in Messages \ Blocking
      BY DEF Messages, Blocking
    <3>2. q' = Append(q, "Key")
      BY <1>5 DEF DismissModal, Arrive
    <3> QED
      BY <1>0, <2>1, <3>1, <3>2, AppendInOrder
  <2>3. CallInv'
    BY <2>2, NoCallInOrder DEF CallInv
  <2>4. pwr_mgr_enabled = ~always_on
    BY <1>5 DEF DismissModal, Setting, SettingApplied
  <2> QED
    BY <1>5, <2>3, <2>4 DEF DismissModal, managerFlags, Setting, SettingApplied, TopInv
<1>6. CASE VaultMessage
  <2>1. NoCall(q)
    BY <1>6, CallerFree DEF VaultMessage, VaultReceives
  <2>2. CallInv'
    BY <1>6, <2>1, NoCallInOrder DEF VaultMessage, CallInv
  <2>3. pwr_mgr_enabled = ~always_on
    BY <1>6 DEF VaultMessage, VaultReceives, Setting, SettingApplied
  <2> QED
    BY <1>6, <2>2, <2>3 DEF VaultMessage, managerFlags, Setting, SettingApplied, TopInv
<1>7. CASE ToggleAlwaysOn
  <2>1. NoCall(q)
    BY <1>7, CallerFree DEF ToggleAlwaysOn, VaultReceives
  <2>2. q' = Append(q, Config(always_on')) /\ vpc' = "toggle"
    BY <1>7 DEF ToggleAlwaysOn, Sends, ForgetMode
  <2>3. Config(always_on') \in Blocking /\ Config(always_on') # "Boot"
    BY DEF Config, Blocking
  <2>4. CallInv'
    BY <1>0, <2>1, <2>2, <2>3, CallSent
  <2> QED
    BY <2>2, <2>4 DEF Setting, SettingApplied, TopInv
<1> QED
  BY <1>1, <1>2, <1>3, <1>4, <1>5, <1>6, <1>7 DEF WorldNext

LEMMA TimerCalls ==
    ASSUME TypeOK, Setting, CallInv, TimerNext PROVE Setting' /\ CallInv'
<1>0. q \in Seq(Messages) /\ {"Alarm", "Poll"} \subseteq Messages \ Blocking
  BY DEF TypeOK, Messages, Blocking
<1>1. CASE AlarmFires
  BY <1>0, <1>1, ArriveCalls, SettingFrame DEF AlarmFires, managerFlags, vaultVars
<1>2. CASE PollTimer
  BY <1>0, <1>2, CallFrame, SettingFrame DEF PollTimer, managerFlags, vaultVars
<1>3. CASE OffThreadClears
  BY <1>0, <1>3, CallFrame, SettingFrame DEF OffThreadClears, managerFlags, vaultVars
<1>4. CASE OffThreadSends
  BY <1>0, <1>4, CallFrame, SettingFrame DEF OffThreadSends, managerFlags, vaultVars
<1>5. CASE PowerDown
  BY <1>0, <1>5, CallFrame, SettingFrame DEF PowerDown, managerFlags, vaultVars
<1> QED
  BY <1>1, <1>2, <1>3, <1>4, <1>5 DEF TimerNext

LEMMA ManagerCalls ==
    ASSUME TypeOK, Setting, CallInv, ManagerNext PROVE Setting' /\ CallInv'
<1>0. q \in Seq(Messages)
  BY DEF TypeOK
<1>1. ASSUME NEW m \in {"EnableOn", "EnableOff"}, HandleEnable(m) PROVE Setting' /\ CallInv'
  <2>1. q # <<>> /\ Head(q) = m /\ q' = Tail(q) /\ m \in Blocking /\ m # "Boot"
    BY <1>1 DEF HandleEnable, Receive, Blocking
  <2>2. CallInv' /\ m = Config(always_on)
    BY <1>0, <2>1, CallTaken
  <2>3. m = "EnableOn" <=> ~always_on
    BY <2>2 DEF Config
  <2>4. /\ pwr_mgr_enabled' = (m = "EnableOn") /\ vpc' \in {"modal", "receive"}
        /\ always_on' = always_on
    BY <1>1 DEF HandleEnable
  <2>5. pwr_mgr_enabled' = ~always_on'
    BY <2>3, <2>4 DEF TypeOK
  <2> QED
    BY <2>2, <2>4, <2>5 DEF Setting, SettingApplied, TopInv
<1>2. CASE HandlePoll
  BY <1>0, <1>2, ReceiveCalls, SettingFrame DEF HandlePoll, vaultVars
<1>3. CASE HandleMotion
  BY <1>0, <1>3, ReceiveCalls, SettingFrame DEF HandleMotion, managerFlags, vaultVars
<1>4. CASE HandleVbusIrq
  BY <1>0, <1>4, ReceiveCalls, SettingFrame DEF HandleVbusIrq, managerFlags, vaultVars
<1>5. CASE HandleKeyPress
  BY <1>0, <1>5, ReceiveCalls, SettingFrame DEF HandleKeyPress, vaultVars
<1>6. CASE HandleBoot
  <2>1. q # <<>> /\ Head(q) = "Boot" /\ q' = Append(Tail(q), "Key") /\ "Boot" \in Blocking
    BY <1>6 DEF HandleBoot, ReceiveThenInject, Blocking
  <2>2. CallInv'
    BY <1>0, <2>1, CallTaken
  <2> QED
    BY <1>6, <2>2 DEF HandleBoot, Setting, SettingApplied, TopInv
<1>7. CASE HandleRequest
  BY <1>0, <1>7, ReceiveCalls, SettingFrame DEF HandleRequest, vaultVars
<1> QED
  BY <1>1, <1>2, <1>3, <1>4, <1>5, <1>6, <1>7 DEF ManagerNext

LEMMA VaultCalls ==
    ASSUME TypeOK, Setting, CallInv, VaultNext PROVE Setting' /\ CallInv'
<1>0. q \in Seq(Messages)
  BY DEF TypeOK
<1>1. CASE UpdatePowerState
  <2>1. NoCall(q) /\ UNCHANGED <<always_on, pwr_mgr_enabled>> /\ vpc = "top"
    BY <1>1, CallerFree DEF UpdatePowerState, managerFlags
  <2>2. CASE q' = Append(q, Config(always_on)) /\ vpc' = "enable"
    <3>1. /\ Config(always_on) \in Blocking /\ Config(always_on) # "Boot"
          /\ Config(always_on') = Config(always_on)
      BY <2>1 DEF Config, Blocking
    <3>2. CallInv'
      BY <1>0, <2>1, <2>2, <3>1, CallSent
    <3> QED
      BY <2>2, <3>2 DEF Setting, SettingApplied, TopInv
  <2>3. CASE ~Sends(always_on, previous_mode) /\ vpc' = "receive" /\ UNCHANGED q
    <3>1. previous_mode /\ ~always_on
      BY <2>3 DEF Sends
    <3>2. pwr_mgr_enabled
      BY <2>1, <3>1 DEF Setting, TopInv
    <3>3. pwr_mgr_enabled' = ~always_on'
      BY <2>1, <3>1, <3>2 DEF TypeOK
    <3>4. CallInv'
      BY <2>1, <2>3, NoCallInOrder DEF CallInv
    <3> QED
      BY <2>3, <3>3, <3>4 DEF Setting, SettingApplied, TopInv
  <2> QED
    BY <1>1, <2>2, <2>3 DEF UpdatePowerState
<1>2. CASE FirstRedraw
  <2>1. NoCall(q) /\ q' = Append(q, "Boot") /\ vpc' = "boot" /\ "Boot" \in Blocking
    BY <1>2, CallerFree DEF FirstRedraw, VaultReceives, Blocking
  <2>2. CallInv'
    BY <1>0, <2>1, CallSent
  <2> QED
    BY <2>1, <2>2 DEF Setting, SettingApplied, TopInv
<1> QED
  BY <1>1, <1>2 DEF VaultNext

\* Whenever the vault waits for its next message, or shows the notification, the
\* manager has the always-on setting the user chose: no order of toggles, mode
\* changes, Boot and a mailbox full of keys leaves it with another one.
THEOREM SettingIsApplied == Spec => []SettingApplied
<1>1. Init => Setting /\ CallInv
  BY EmptySeq DEF Init, Setting, SettingApplied, TopInv, CallInv, InOrder
<1>2. TypeOK /\ Setting /\ CallInv /\ [Next]_vars => (Setting /\ CallInv)'
  <2> SUFFICES ASSUME TypeOK, Setting, CallInv, [Next]_vars PROVE Setting' /\ CallInv'
    OBVIOUS
  <2>1. CASE UNCHANGED vars
    BY <2>1, CallFrame, SettingFrame DEF vars, managerFlags, vaultVars, TypeOK
  <2> QED
    BY <2>1, WorldCalls, TimerCalls, ManagerCalls, VaultCalls DEF Next
<1>3. Setting => SettingApplied
  BY DEF Setting
<1> QED
  BY <1>1, <1>2, <1>3, TypeCorrect, PTL DEF Spec
=============================================================================
