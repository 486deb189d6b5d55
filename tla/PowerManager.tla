---------------------------- MODULE PowerManager ----------------------------
(***************************************************************************)
(* The badge's power manager (dc34-console/src/power.rs) and the part of   *)
(* the vault that tells it when to save power (config.rs).                 *)
(*                                                                         *)
(* The manager is one thread that serves a mailbox.  Keys, the             *)
(* accelerometer, the VBUS pin, the RTC alarm, a poll thread and the vault *)
(* all write to it.  A poll that finds the badge idle turns the screen off *)
(* and suspends the whole system (WFI) in the middle of the handler; the   *)
(* next interrupt resumes it.  The RTC alarm, pushed out by every key,     *)
(* reaches the manager as the key ALARM and powers the badge down.         *)
(*                                                                         *)
(* Time is abstracted to what the handlers tell apart: how long ago the    *)
(* last action was (Margin, then the idle time), and whether the alarm is  *)
(* armed.  The ticktimer is paused during WFI.                             *)
(***************************************************************************)
EXTENDS Naturals, Sequences

CONSTANTS
    QueueMax,     \* bound: messages in the manager's mailbox
    MaxEvents     \* bound: keys, motions, cable moves and requests

ASSUME QueueAssumption  == QueueMax \in Nat \ {0}
ASSUME EventsAssumption == MaxEvents \in Nat

VARIABLES
    q,                      \* the manager's mailbox
    run,                    \* run, wfi (suspended), sleeping (deep sleep asked for), off
    pwr_mgr_enabled, booted, wfi_awaiting_keypress,
    force_wfi, force_deep_sleep, power_off, screen_off_requested,
    idle,                   \* now - last_action_time_ms: 0, 1 (over the margin), 2 (over idle_sec)
    fresh,                  \* history: resumed; no time has passed, no key was served since
    vbus,                   \* the pin: is the cable plugged in?
    vbus_state,             \* the manager's copy of it
    alarm,                  \* the RTC: 0 no alarm, 1 armed, 2 armed since before the last poll
    alarm_set,
    screen, wdt,            \* is the display, the watchdog on?
    motionless,             \* all accelerometer interrupts are off
    offThread,              \* the thread PowerOff starts: none, asleep, cleared
    vpc,                    \* the vault's loop: top, receive, modal; boot, enable, toggle
                            \* while a blocking message is with the manager
    always_on, boot_sent,   \* GlobalConfig.display_always_on, main's boot_sent
    previous_mode,          \* FALSE: None or another mode than now
    polled,                 \* history: a poll has seen vbus_state High since it became so
    events

managerFlags == <<pwr_mgr_enabled, booted, wfi_awaiting_keypress, force_wfi,
                  force_deep_sleep, power_off, screen_off_requested>>
hardware == <<screen, wdt, motionless>>
alarmVars == <<alarm, alarm_set, polled>>
vaultVars == <<vpc, always_on, boot_sent, previous_mode>>
clock == <<idle, fresh>>
vars == <<q, run, managerFlags, clock, vbus, vbus_state, alarmVars, hardware,
          offThread, vaultVars, events>>

Messages == {"Poll", "Key", "Alarm", "Motion", "Tilt", "VbusIrq", "EnableOn", "EnableOff",
             "Boot", "ForceWfi", "ForceDeepSleep", "ScreenOff", "PowerOff"}

-----------------------------------------------------------------------------
(* What reaches the mailbox.                                               *)

\* Mutant: a resumed system goes on counting where it was suspended.
AfterSuspendOn(since) == since

\* Mutant: the clock runs on during the suspend.
AfterSuspendLater(since) == since + 1

\* last_action_time_ms = now_ms, the time the poll read before it suspended.
AfterSuspend(since) == 0

\* Mutant: the resumed system does not enable the watchdog again.
ResumeUnwatched ==
    \/ run = "wfi" /\ run' = "run" /\ UNCHANGED wdt /\ idle' = AfterSuspend(idle) /\ fresh' = TRUE
    \/ run \in {"run", "sleeping"} /\ UNCHANGED <<run, wdt, clock>>

\* An interrupt resumes a suspended system inside the poll handler, which enables the
\* watchdog again and counts the idle time anew.
Resume ==
    \/ run = "wfi" /\ run' = "run" /\ wdt' = TRUE /\ idle' = AfterSuspend(idle) /\ fresh' = TRUE
    \/ run \in {"run", "sleeping"} /\ UNCHANGED <<run, wdt, clock>>

Arrive(msg) ==
    /\ Len(q) < QueueMax
    /\ q' = Append(q, msg)
    /\ Resume

Queued(msg) == msg \in {q[i] : i \in 1 .. Len(q)}

\* Something the world does, which it does only so often.
Event == events < MaxEvents /\ events' = events + 1

\* A key, a movement, or a face-down turn, which the handler turns into a key.
Sense(msg) ==
    /\ Event
    /\ Arrive(msg)
    /\ UNCHANGED <<managerFlags, vbus, vbus_state, alarmVars, screen, motionless,
                   offThread, vaultVars>>

\* The cable moves; the interrupt is set for the level opposite to the last seen.
MoveCable ==
    /\ Event
    /\ vbus' = ~vbus
    /\ Arrive("VbusIrq")
    /\ UNCHANGED <<managerFlags, vbus_state, alarmVars, screen, motionless,
                   offThread, vaultVars>>

\* The alarm goes off, minutes after it was set: polls came in between, unless the
\* system was suspended all the while.  The keyboard server sends it as a key.
AlarmFires ==
    /\ alarm = 2 \/ (alarm = 1 /\ run = "wfi")
    /\ Arrive("Alarm")
    /\ alarm' = 0
    /\ UNCHANGED <<managerFlags, vbus, vbus_state, alarm_set, polled, screen, motionless,
                   offThread, vaultVars, events>>

\* The poll thread; it waits for the ticktimer, so it stops during WFI.
PollTimer ==
    /\ run \in {"run", "sleeping"}
    /\ Len(q) < QueueMax
    /\ ~Queued("Poll")
    /\ q' = Append(q, "Poll")
    /\ UNCHANGED <<run, managerFlags, clock, vbus, vbus_state, alarmVars, hardware,
                   offThread, vaultVars, events>>

\* Time passes.  The manager serves its mailbox well within MOTION_IRQ_MARGIN_MS.
Elapse ==
    /\ run = "run"
    /\ q = <<>>
    /\ idle < 2
    /\ idle' = idle + 1
    /\ fresh' = FALSE
    /\ UNCHANGED <<q, run, managerFlags, vbus, vbus_state, alarmVars, hardware,
                   offThread, vaultVars, events>>

\* `test wfi', `test deep', the screen-off key and the power-off menu entry,
\* which is chosen at most once.
Request(msg) ==
    /\ run = "run"
    /\ msg = "PowerOff" => ~power_off /\ ~Queued("PowerOff")
    /\ Event
    /\ Len(q) < QueueMax
    /\ q' = Append(q, msg)
    /\ UNCHANGED <<run, managerFlags, clock, vbus, vbus_state, alarmVars, hardware,
                   offThread, vaultVars>>

\* The thread PowerOff started clears the alarm, then sends the ALARM key itself.
OffThreadClears ==
    /\ run \in {"run", "sleeping"}
    /\ offThread = "asleep"
    /\ offThread' = "cleared"
    /\ alarm' = 0
    /\ UNCHANGED <<q, run, managerFlags, clock, vbus, vbus_state, alarm_set, polled, hardware,
                   vaultVars, events>>

OffThreadSends ==
    /\ run \in {"run", "sleeping"}
    /\ offThread = "cleared"
    /\ offThread' = "none"
    /\ Len(q) < QueueMax
    /\ q' = Append(q, "Alarm")
    /\ UNCHANGED <<run, managerFlags, clock, vbus, vbus_state, alarmVars, hardware,
                   vaultVars, events>>

-----------------------------------------------------------------------------
(* The manager's handlers.                                                 *)

\* reply_and_receive_next.
Receive(msg) ==
    /\ run \in {"run", "sleeping"}
    /\ q # <<>>
    /\ Head(q) = msg
    /\ q' = Tail(q)

\* A handler that injects a key, which comes back through the keyboard server.
ReceiveThenInject(msg) ==
    /\ run \in {"run", "sleeping"}
    /\ q # <<>>
    /\ Head(q) = msg
    /\ q' = Append(Tail(q), "Key")

\* set_wakeup_alarm, on battery power only.
ArmOnBattery(vbusNow) ==
    IF vbusNow THEN UNCHANGED <<alarm, alarm_set>>
    ELSE alarm' = 1 /\ alarm_set' = TRUE

\* Mutant: VbusIrq leaves the alarm to the next key.
ArmWhenPulledNot(vbusNow) == alarm

\* The alarm after VbusIrq, which sets it on battery power but not alarm_set.
ArmWhenPulled(vbusNow) == IF vbusNow THEN alarm ELSE 1

\* The blocking sender is released when the handler is done.
HandleEnable(msg) ==
    /\ Receive(msg)
    /\ pwr_mgr_enabled' = (msg = "EnableOn")
    /\ idle' \in {idle, IF idle = 2 THEN 1 ELSE idle}   \* idle_sec may change
    /\ vpc' = IF vpc = "toggle" THEN "modal" ELSE "receive"
    /\ UNCHANGED <<run, fresh, booted, wfi_awaiting_keypress, force_wfi, force_deep_sleep, power_off,
                   screen_off_requested, vbus, vbus_state, alarmVars, hardware, offThread,
                   always_on, boot_sent, previous_mode, events>>

HandlePoll ==
    /\ Receive("Poll")
    /\ LET onPower == ~pwr_mgr_enabled \/ vbus_state
           since   == IF onPower THEN 0 ELSE idle
           clears  == onPower /\ alarm_set
           suspend == \/ ~wfi_awaiting_keypress /\ since > 1
                      \/ wfi_awaiting_keypress /\ since > 0
                      \/ force_wfi
       IN  /\ alarm' = IF clears THEN 0 ELSE IF alarm = 0 THEN 0 ELSE 2
           /\ alarm_set' = (alarm_set /\ ~clears)
           /\ polled' = (polled \/ vbus_state)
           /\ \/ /\ ~suspend
                 /\ idle' = since
                 /\ UNCHANGED <<run, fresh, force_wfi, screen, wdt, wfi_awaiting_keypress>>
              \/ /\ suspend
                 /\ force_wfi' = FALSE
                 /\ screen' = FALSE
                 /\ wfi_awaiting_keypress' = TRUE
                 /\ \/ /\ run = "run" /\ run' = "wfi" /\ wdt' = FALSE
                       /\ idle' = since /\ fresh' = FALSE
                    \/ /\ UNCHANGED run /\ wdt' = TRUE                \* refused
                       /\ idle' = AfterSuspend(since) /\ fresh' = TRUE
    /\ UNCHANGED <<pwr_mgr_enabled, booted, force_deep_sleep, power_off, screen_off_requested,
                   vbus, vbus_state, motionless, offThread, vaultVars, events>>

\* Movement pushes the alarm out; a new orientation is sent back as a key.
HandleMotion ==
    /\ \/ Receive("Motion") /\ ArmOnBattery(vbus_state)
       \/ ReceiveThenInject("Tilt") /\ UNCHANGED <<alarm, alarm_set>>
       \/ ReceiveThenInject("Tilt") /\ ArmOnBattery(vbus_state)
    /\ UNCHANGED <<run, managerFlags, clock, vbus, vbus_state, polled, hardware, offThread,
                   vaultVars, events>>

\* The cached state follows the pin, which may have moved again since the interrupt.
HandleVbusIrq ==
    /\ Receive("VbusIrq")
    /\ vbus_state' = vbus
    /\ alarm' = ArmWhenPulled(vbus)
    /\ polled' = (polled /\ vbus)
    /\ UNCHANGED <<run, managerFlags, clock, vbus, alarm_set, hardware, offThread, vaultVars, events>>

\* Deep sleep.  The request to the susres server is not a blocking one.
DeepSleep ==
    /\ force_deep_sleep' = FALSE
    /\ motionless' = power_off
    /\ screen' = FALSE
    /\ wdt' = FALSE
    /\ run' = "sleeping"
    /\ UNCHANGED <<screen_off_requested, wfi_awaiting_keypress, vbus_state, alarmVars>>

\* Mutant: the screen comes back from a suspend only, the request is forgotten.
WakeScreenAfterWfi ==
    /\ screen' = (screen \/ wfi_awaiting_keypress)
    /\ screen_off_requested' = FALSE
    /\ wfi_awaiting_keypress' = FALSE

WakeScreen ==
    /\ screen' = (screen \/ wfi_awaiting_keypress \/ screen_off_requested)
    /\ screen_off_requested' = FALSE
    /\ wfi_awaiting_keypress' = FALSE

OrdinaryKey ==
    /\ WakeScreen
    /\ vbus_state' = vbus
    /\ ArmOnBattery(vbus)
    /\ polled' = (polled /\ vbus)
    /\ UNCHANGED <<run, force_deep_sleep, motionless, wdt>>

HandleKeyPress ==
    /\ \/ Receive("Alarm") /\ DeepSleep
       \/ Receive("Key") /\ force_deep_sleep /\ DeepSleep
       \/ Receive("Key") /\ ~force_deep_sleep /\ OrdinaryKey
    /\ idle' = 0
    /\ fresh' = FALSE
    /\ UNCHANGED <<pwr_mgr_enabled, booted, force_wfi, power_off, vbus, offThread, vaultVars, events>>

\* Boot injects the key for the initial orientation.
HandleBoot ==
    /\ ReceiveThenInject("Boot")
    /\ pwr_mgr_enabled' = TRUE
    /\ booted' = TRUE
    /\ alarm' = 1
    /\ alarm_set' = TRUE
    /\ vbus_state' = vbus
    /\ polled' = FALSE
    /\ motionless' = FALSE
    /\ vpc' = "top"
    /\ UNCHANGED <<run, wfi_awaiting_keypress, force_wfi, force_deep_sleep, power_off,
                   screen_off_requested, clock, vbus, screen, wdt, offThread,
                   always_on, boot_sent, previous_mode, events>>

HandleRequest ==
    /\ \/ /\ Receive("ForceWfi")
          /\ force_wfi' = TRUE
          /\ UNCHANGED <<force_deep_sleep, screen_off_requested, screen, power_off, offThread>>
       \/ /\ Receive("ForceDeepSleep")
          /\ force_deep_sleep' = TRUE
          /\ UNCHANGED <<force_wfi, screen_off_requested, screen, power_off, offThread>>
       \/ /\ Receive("ScreenOff")
          /\ screen_off_requested' = TRUE
          /\ screen' = FALSE
          /\ UNCHANGED <<force_wfi, force_deep_sleep, power_off, offThread>>
       \/ /\ Receive("PowerOff")
          /\ power_off' = TRUE
          /\ offThread' = "asleep"
          /\ UNCHANGED <<force_wfi, force_deep_sleep, screen_off_requested, screen>>
    /\ UNCHANGED <<run, pwr_mgr_enabled, booted, wfi_awaiting_keypress, clock, vbus, vbus_state,
                   alarmVars, wdt, motionless, vaultVars, events>>

\* The susres server cuts the power.
PowerDown ==
    /\ run = "sleeping"
    /\ run' = "off"
    /\ UNCHANGED <<q, managerFlags, clock, vbus, vbus_state, alarmVars, hardware,
                   offThread, vaultVars, events>>

-----------------------------------------------------------------------------
(* The vault's loop: update_power_state, then receive_message.             *)

\* Mutant: always-on is sent when the mode changes only, like the timeouts.
SendsOnModeChange(on, same) == ~same

\* update_power_state sends the configuration: always, or when the mode changed.
Sends(on, same) == on \/ ~same

Config(on) == IF on THEN "EnableOff" ELSE "EnableOn"

UpdatePowerState ==
    /\ run \in {"run", "sleeping"}
    /\ vpc = "top"
    /\ previous_mode' = TRUE
    /\ \/ /\ Sends(always_on, previous_mode)
          /\ Len(q) < QueueMax
          /\ q' = Append(q, Config(always_on))
          /\ vpc' = "enable"
       \/ /\ ~Sends(always_on, previous_mode)
          /\ vpc' = "receive"
          /\ UNCHANGED q
    /\ UNCHANGED <<run, managerFlags, clock, vbus, vbus_state, alarmVars, hardware,
                   offThread, always_on, boot_sent, events>>

VaultReceives == run \in {"run", "sleeping"} /\ vpc = "receive"

\* The first Redraw tells the manager that the badge has booted; it blocks.
FirstRedraw ==
    /\ VaultReceives
    /\ ~boot_sent
    /\ Len(q) < QueueMax
    /\ boot_sent' = TRUE
    /\ q' = Append(q, "Boot")
    /\ vpc' = "boot"
    /\ UNCHANGED <<run, managerFlags, clock, vbus, vbus_state, alarmVars, hardware,
                   offThread, always_on, previous_mode, events>>

\* Any other message, which may have changed the mode.
VaultMessage ==
    /\ VaultReceives
    /\ boot_sent
    /\ Event
    /\ vpc' = "top"
    /\ previous_mode' \in {previous_mode, FALSE}
    /\ UNCHANGED <<q, run, managerFlags, clock, vbus, vbus_state, alarmVars, hardware,
                   offThread, always_on, boot_sent>>

\* Mutant: the setting is flipped and left for the next mode change.
KeepMode(same) == same

\* toggle_always_on: previous_mode = None.
ForgetMode(same) == FALSE

\* ToggleAlwaysOn applies the setting at once, then shows a notification ...
ToggleAlwaysOn ==
    /\ VaultReceives
    /\ boot_sent
    /\ Event
    /\ Len(q) < QueueMax
    /\ always_on' = ~always_on
    /\ previous_mode' = TRUE
    /\ \/ /\ Sends(always_on', ForgetMode(previous_mode))
          /\ q' = Append(q, Config(always_on'))
          /\ vpc' = "toggle"
       \/ /\ ~Sends(always_on', ForgetMode(previous_mode))
          /\ vpc' = "modal"
          /\ UNCHANGED q
    /\ UNCHANGED <<run, managerFlags, clock, vbus, vbus_state, alarmVars, hardware,
                   offThread, boot_sent>>

\* ... that the user dismisses with a key, which the manager sees too.
DismissModal ==
    /\ vpc = "modal"
    /\ vpc' = "top"
    /\ Arrive("Key")
    /\ UNCHANGED <<managerFlags, vbus, vbus_state, alarmVars, screen, motionless,
                   offThread, always_on, boot_sent, previous_mode, events>>

-----------------------------------------------------------------------------
\* Power-on: the manager has read the pin and enabled the watchdog.
Init ==
    /\ q = <<>>
    /\ run = "run"
    /\ pwr_mgr_enabled = FALSE
    /\ booted = FALSE
    /\ wfi_awaiting_keypress = FALSE
    /\ force_wfi = FALSE
    /\ force_deep_sleep = FALSE
    /\ power_off = FALSE
    /\ screen_off_requested = FALSE
    /\ idle = 0
    /\ fresh = FALSE
    /\ vbus \in BOOLEAN
    /\ vbus_state = vbus
    /\ alarm = 0
    /\ alarm_set = FALSE
    /\ polled = FALSE
    /\ screen = TRUE
    /\ wdt = TRUE
    /\ motionless = FALSE
    /\ offThread = "none"
    /\ vpc = "top"
    /\ always_on \in BOOLEAN
    /\ boot_sent = FALSE
    /\ previous_mode = FALSE
    /\ events = 0

WorldNext ==
    \/ \E msg \in {"Key", "Motion", "Tilt"} : Sense(msg)
    \/ MoveCable
    \/ \E msg \in {"ForceWfi", "ForceDeepSleep", "ScreenOff", "PowerOff"} : Request(msg)
    \/ Elapse
    \/ DismissModal
    \/ VaultMessage
    \/ ToggleAlwaysOn

TimerNext == AlarmFires \/ PollTimer \/ OffThreadClears \/ OffThreadSends \/ PowerDown

ManagerNext ==
    \/ \E msg \in {"EnableOn", "EnableOff"} : HandleEnable(msg)
    \/ HandlePoll
    \/ HandleMotion
    \/ HandleVbusIrq
    \/ HandleKeyPress
    \/ HandleBoot
    \/ HandleRequest

VaultNext == UpdatePowerState \/ FirstRedraw

Next == WorldNext \/ TimerNext \/ ManagerNext \/ VaultNext

\* The manager and the vault serve their mailboxes and the timers run; nobody has
\* to press a key, move the badge or touch the cable.
Fairness ==
    /\ WF_vars(ManagerNext)
    /\ WF_vars(VaultNext)
    /\ WF_vars(AlarmFires)
    /\ WF_vars(PollTimer)
    /\ WF_vars(OffThreadClears)
    /\ WF_vars(OffThreadSends)
    /\ WF_vars(PowerDown)

Spec == Init /\ [][Next]_vars

FairSpec == Spec /\ Fairness

-----------------------------------------------------------------------------
(* Properties.                                                             *)

\* Every variable has its type.
TypeOK ==
    /\ q \in Seq(Messages)
    /\ run \in {"run", "wfi", "sleeping", "off"}
    /\ pwr_mgr_enabled \in BOOLEAN /\ booted \in BOOLEAN
    /\ wfi_awaiting_keypress \in BOOLEAN /\ force_wfi \in BOOLEAN
    /\ force_deep_sleep \in BOOLEAN /\ power_off \in BOOLEAN
    /\ screen_off_requested \in BOOLEAN /\ vbus \in BOOLEAN
    /\ vbus_state \in BOOLEAN /\ alarm_set \in BOOLEAN
    /\ polled \in BOOLEAN /\ fresh \in BOOLEAN
    /\ screen \in BOOLEAN /\ wdt \in BOOLEAN
    /\ motionless \in BOOLEAN /\ always_on \in BOOLEAN
    /\ boot_sent \in BOOLEAN /\ previous_mode \in BOOLEAN
    /\ idle \in 0 .. 2
    /\ alarm \in 0 .. 2
    /\ offThread \in {"none", "asleep", "cleared"}
    /\ vpc \in {"top", "receive", "modal", "boot", "enable", "toggle"}
    /\ events \in 0 .. MaxEvents

\* A dark screen on a running or suspended badge is one that the next key turns on:
\* the three handlers that turn the screen off and the one that turns it on agree.
ScreenCanWake ==
    run \in {"run", "wfi"} /\ ~screen => wfi_awaiting_keypress \/ screen_off_requested

\* The watchdog is off only while the badge is suspended or powering down.
WatchdogRuns == run = "run" => wdt

\* Whenever the vault waits for a message, the manager has the setting the user
\* chose, although Boot enables power saving whatever the setting was.
SettingApplied == vpc \in {"receive", "modal"} => pwr_mgr_enabled = ~always_on

\* "gives some margin for the keypress to catch up" (power.rs:16): a key that
\* resumes the badge turns the screen on; no queued poll suspends it first.
KeyResumes ==
    (/\ run = "run" /\ wfi_awaiting_keypress /\ fresh /\ Queued("Key")
     /\ ~force_wfi /\ ~Queued("ForceWfi"))
    ~> (screen \/ run \in {"sleeping", "off"})

\* "make sure the RTC alarm is set so we go into deep sleep" (power.rs:510): a booted
\* badge left alone on its battery, with power saving on, powers down, whatever
\* keys, polls and cable moves set and cleared the alarm before.  One way out is
\* left open: a poll that suspends the badge while a message waits behind it, or
\* between the two steps of PowerOff's thread.
StuckInWfi == run = "wfi" /\ (q # <<>> \/ offThread = "cleared")

UnattendedPowersDown ==
    <>[](booted /\ ~vbus /\ ~always_on /\ vpc # "modal" /\ ~StuckInWfi) => <>(run = "off")

\* "disable power management if VBUS is plugged in" (power.rs:296): once a poll has
\* seen the cable, no alarm is left that would power the badge down.
NoAlarmOnPower == booted /\ polled => alarm = 0
=============================================================================
