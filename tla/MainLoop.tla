------------------------------- MODULE MainLoop -------------------------------
(***************************************************************************)
(* The main loop of the firmware with its sleep: ev_main (the timers, then *)
(* app_task) and tl_zbTaskProcedure in turn, the arming of the wake-up     *)
(* pads, the deep sleep with retained RAM between two passes, and the deep *)
(* sleep for want of a network, which ends in a restart.                   *)
(*                                                                         *)
(* The pins are outside of the MCU and change between any two steps.       *)
(***************************************************************************)
EXTENDS Sensor

VARIABLES
  pc,     \* where the loop is
  power,  \* "awake", "retention" (RAM kept, timer and pads wake), "deep"
  armed,  \* pin_PmCfg: the level, active or not, at which an input wakes
  racy,   \* history: inputs whose level differs from the one last sampled
  noJoined  \* timerNoJoinedEvt: 0 if NULL, else 1 and the passes since it was
            \* scheduled, counted up to Debounce

loopVars == <<pc, power, armed, racy, noJoined>>
allVars == <<vars, loopVars>>

Place == {"timers", "button", "smoke", "check", "arm_smoke", "arm_tamper",
          "enter", "stack"}

(* pin_PmCfg at start: the alarm pad wakes at its active level, and so     *)
(* does the tamper pad of the board with a normally closed switch.         *)
InitialArmed == [i \in Input |-> TRUE]

LoopTypeOK ==
  /\ TypeOK
  /\ pc \in Place
  /\ power \in {"awake", "retention", "deep"}
  /\ armed \in [Input -> BOOLEAN]
  /\ racy \in SUBSET Input
  /\ noJoined \in 0 .. Debounce

LoopInit ==
  /\ Init
  /\ pc = "timers"
  /\ power = "awake"
  /\ armed = InitialArmed
  /\ racy = {}
  /\ noJoined = 0

-----------------------------------------------------------------------------
At(here) == power = "awake" /\ pc = here

Go(here, next) ==
  /\ At(here)
  /\ pc' = next
  /\ UNCHANGED power

(* ev_timer_process: callbacks of the application whose time has come.  *)
TimerCallback ==
  /\ At("timers")
  /\ MeasureBattery \/ ForcedReport
  /\ UNCHANGED loopVars

TimersDone == Go("timers", "button") /\ UNCHANGED <<vars, armed, racy, noJoined>>

(* app_task: button_handler, smoke_handler. *)
ScanButton == Go("button", "smoke") /\ HandleButton /\ UNCHANGED <<armed, racy, noJoined>>

(* One more pass of the thirty minutes. *)
OneMorePass == IF noJoined \in 1 .. Debounce - 1 THEN noJoined + 1 ELSE noJoined

ScanInputs ==
  /\ Go("smoke", "check")
  /\ SampleInputs
  /\ racy' = {}
  /\ noJoined' = OneMorePass
  /\ UNCHANGED armed

(* if(bdb_isIdle()) ... if(!button_idle() && !smoke_idle()) *)
MayNotSleep ==
  /\ Go("check", "stack")
  /\ UNCHANGED <<vars, armed, racy, noJoined>>

(* Mutant: the inputs are not asked. *)
MaySleepCounting ==
  /\ Go("check", "arm_smoke")
  /\ ~button_idle
  /\ UNCHANGED <<vars, armed, racy, noJoined>>

MaySleep ==
  /\ Go("check", "arm_smoke")
  /\ ~button_idle
  /\ ~smoke_idle
  /\ UNCHANGED <<vars, armed, racy, noJoined>>

(* Mutant: the pads keep the level of their table. *)
ArmPadAsConfigured(i, here, next) ==
  Go(here, next) /\ UNCHANGED <<vars, armed, racy, noJoined>>

(* drv_pm_wakeupPinLevelChange: a pad is armed for the level its pin does  *)
(* not have now.  The two reads of one pin decide like a single one.       *)
ArmPad(i, here, next) ==
  /\ Go(here, next)
  /\ armed' = [armed EXCEPT ![i] = ~pin[i]]
  /\ UNCHANGED <<vars, racy, noJoined>>

Arm == ArmPad("smoke", "arm_smoke", "arm_tamper")
       \/ ArmPad("tamper", "arm_tamper", "enter")

(* drv_pm_lowPowerEnter: back to the loop when the stack has work ... *)
StackBusy == Go("enter", "stack") /\ UNCHANGED <<vars, armed, racy, noJoined>>

(* ... or else asleep, with the RAM kept: the hourly battery timer always  *)
(* exists, so there is always a nearest timer.                             *)
Sleep ==
  /\ At("enter")
  /\ power' = "retention"
  /\ UNCHANGED <<vars, pc, armed, racy, noJoined>>

(* main() again, with isRetention: the loop starts over, RAM is as it was. *)
WakeUp ==
  /\ power' = "awake"
  /\ pc' = "timers"
  /\ UNCHANGED <<vars, armed, racy, noJoined>>

PadCalls == \E i \in Input : pin[i] = armed[i]

WakeByPad == power = "retention" /\ PadCalls /\ WakeUp
WakeByTimer == power = "retention" /\ WakeUp

(* zb_bdbCommissioningCb: a failure starts the timer of thirty minutes,    *)
(* unless it runs, and a success, some time after the join, cancels it.    *)
CommissioningFails ==
  /\ At("stack")
  /\ ~joined /\ noJoined = 0
  /\ noJoined' = 1
  /\ UNCHANGED <<vars, pc, power, armed, racy>>

CommissioningSucceeds ==
  /\ At("stack")
  /\ joined /\ noJoined # 0
  /\ noJoined' = 0
  /\ UNCHANGED <<vars, pc, power, armed, racy>>

(* no_joinedCb, from the timers and whatever the inputs are doing: only    *)
(* the pads wake the MCU again.  Thirty minutes without a network hold     *)
(* many more than Debounce passes, as a steering is retried every four     *)
(* seconds and a rejoin every minute.  (While the stack is busy the        *)
(* callback comes back a minute later, which is TimersDone here.)          *)
no_joinedCb ==
  /\ At("timers")
  /\ noJoined = Debounce
  /\ noJoined' = 0
  /\ IF joined
     THEN UNCHANGED <<power, armed>>
     ELSE power' = "deep" /\ armed' = [i \in Input |-> ~pin[i]]
  /\ UNCHANGED <<vars, pc, racy>>

(* From there, and from an exception or a power cycle, the MCU restarts.   *)
StartOver ==
  /\ Restart
  /\ power' = "awake"
  /\ pc' = "timers"
  /\ armed' = InitialArmed
  /\ racy' = {}
  /\ noJoined' = 0

RestartByPad == power = "deep" /\ PadCalls /\ StartOver
RestartByKeyOrPower == StartOver

(* tl_zbTaskProcedure: the stack talks to the network and to the           *)
(* application.                                                            *)
StackTask ==
  /\ At("stack")
  /\ Controller \/ ConfigureSwitch \/ Radio \/ JoinNetwork \/ LeaveNetwork
  /\ UNCHANGED loopVars

StackDone == Go("stack", "timers") /\ UNCHANGED <<vars, armed, racy, noJoined>>

(* The clock runs in every state of the MCU but a deep sleep. *)
ClockRuns == power # "deep" /\ ButtonTime /\ UNCHANGED loopVars

(* Has the input been sampled in this pass, and its pad not been armed?    *)
Unarmed(i) ==
  power = "awake" /\ pc \in (IF i = "smoke" THEN {"check", "arm_smoke"}
                             ELSE {"check", "arm_smoke", "arm_tamper"})

Flip(set, i) == IF i \in set THEN set \ {i} ELSE set \union {i}

PinChanges ==
  \E i \in Input :
    /\ PinChange(i)
    /\ racy' = IF Unarmed(i) THEN Flip(racy, i) ELSE racy
    /\ UNCHANGED <<zoneVars, batteryVars, buttonVars, pc, power, armed, noJoined>>

LoopStep ==
  \/ TimersDone \/ ScanButton \/ ScanInputs
  \/ MayNotSleep \/ MaySleep \/ Arm \/ StackBusy \/ Sleep
  \/ StackDone

LoopNext ==
  \/ LoopStep
  \/ TimerCallback \/ CommissioningFails \/ CommissioningSucceeds \/ no_joinedCb
  \/ WakeByPad \/ WakeByTimer
  \/ RestartByPad \/ RestartByKeyOrPower
  \/ StackTask \/ ClockRuns \/ PinChanges

LoopSpec == LoopInit /\ [][LoopNext]_allVars

-----------------------------------------------------------------------------
(* While the RAM-retaining sleep lasts, nothing is half done: no counter   *)
(* is on its way, no key is down or waits to be counted.  Each of them     *)
(* would be frozen until the next timer, up to five minutes later          *)
(* (app_main.c:175-177).                                                   *)
NothingPendingAsleep ==
  power = "retention" => ~smoke_idle /\ ~button_idle

(* In that sleep every input that did not change between its sample and    *)
(* the arming of its pad is armed for the level it has not settled at, so  *)
(* that any change wakes the MCU (app_pm.c:40-43, drv_pm.c:332-346).       *)
SettledInputIsArmed ==
  power = "retention" => \A i \in Input \ racy : armed[i] # level[i]

(* README.md:135: in the deep sleep for want of a network the module wakes *)
(* when the detector detects smoke or is taken off its plate.  An input    *)
(* that is active and that passes have begun to count, but that has not    *)
(* settled yet (app_smoke.c:91-95, 147-151), would have to be armed for    *)
(* its active level; no_joinedCb arms every pad for a change of the level  *)
(* it has now (app_pm.c:47-67, drv_pm.c:332-346).                          *)
DeepSleepWakes ==
  power = "deep" =>
    \A i \in Input :
      pin[i] /\ ~level[i] /\ debounce[i] \notin {1, Debounce} => armed[i]

(* Whatever the race, an input that stays active on a joined device is     *)
(* noticed for good: at the latest the next timer wakes the loop, and the  *)
(* loop does not sleep before the counter has arrived.                     *)
SteadyInputIsNoticed ==
  \A i \in Input : <>[](pin[i] /\ joined) => <>[](level[i])

(* A press that the handler saw does not keep the MCU awake for ever: once *)
(* the key is up, the passes of the loop bring the counter back to zero,   *)
(* unless the loop ends before (app_button.c:123-128, app_main.c:166-177). *)
ButtonSettles ==
  (~keyPressed /\ button.ctn # 0)
    ~> (keyPressed \/ button.ctn = 0 \/ power = "deep")
=============================================================================
