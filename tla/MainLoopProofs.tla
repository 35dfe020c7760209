---------------------------- MODULE MainLoopProofs ----------------------------
(***************************************************************************)
(* The main loop for every debounce limit, battery and network: it keeps   *)
(* to Sensor, whose invariant it therefore has, and what it looked at is   *)
(* still true when the MCU sleeps.                                         *)
(***************************************************************************)
EXTENDS MainLoop, SensorProofs

(* From the sleep condition on, until the end of the sleep. *)
GoingToSleep ==
  \/ power = "awake" /\ pc \in {"arm_smoke", "arm_tamper", "enter"}
  \/ power = "retention"

AtRest == GoingToSleep => ~smoke_idle /\ ~button_idle

(* Before its pad is armed, racy tells exactly the inputs whose level is   *)
(* no longer the one they have settled at.                                 *)
RacyIsExact ==
  \A i \in Input :
    Unarmed(i) /\ debounce[i] \in {1, Debounce} => (i \in racy <=> pin[i] # level[i])

(* Has the pad of the input been armed in this pass, or for this sleep?    *)
Armed(i) ==
  \/ power = "awake" /\ pc \in (IF i = "smoke" THEN {"arm_tamper", "enter"}
                                ELSE {"enter"})
  \/ power = "retention"

ArmedAgainstLevel ==
  \A i \in Input : Armed(i) /\ i \notin racy => armed[i] # level[i]

LoopTypes ==
  /\ pc \in Place
  /\ power \in {"awake", "retention", "deep"}
  /\ armed \in [Input -> BOOLEAN]
  /\ racy \in SUBSET Input
  /\ noJoined \in 0 .. Debounce

LoopInv == IInv /\ LoopTypes /\ AtRest /\ RacyIsExact /\ ArmedAgainstLevel

-----------------------------------------------------------------------------
LEMMA Places ==
  ASSUME NEW here, NEW next, Go(here, next)
  PROVE  power = "awake" /\ power' = "awake" /\ pc = here /\ pc' = next
  BY DEF Go, At

(* Every step of the loop is a step of Sensor, or leaves it alone. *)
LEMMA KeepsToSensor == LoopNext => [Next]_vars
<1> SUFFICES ASSUME LoopNext PROVE [Next]_vars
  OBVIOUS
<1>1. CASE TimersDone \/ MayNotSleep \/ MaySleep \/ StackBusy \/ Sleep \/ StackDone
  BY <1>1 DEF TimersDone, MayNotSleep, MaySleep, StackBusy, Sleep, StackDone
<1>2. CASE Arm
  BY <1>2 DEF Arm, ArmPad
<1>3. CASE ScanButton \/ ScanInputs
  BY <1>3 DEF ScanButton, ScanInputs, Next
<1>4. CASE TimerCallback \/ StackTask \/ ClockRuns
  BY <1>4 DEF TimerCallback, StackTask, ClockRuns, Next
<1>5. CASE no_joinedCb \/ WakeByPad \/ WakeByTimer
  BY <1>5 DEF no_joinedCb, WakeByPad, WakeByTimer, WakeUp
<1>6. CASE RestartByPad \/ RestartByKeyOrPower
  BY <1>6 DEF RestartByPad, RestartByKeyOrPower, StartOver, Next
<1>7. CASE PinChanges
  BY <1>7 DEF PinChanges, InputChanges, Next
<1>8. CASE CommissioningFails \/ CommissioningSucceeds
  BY <1>8 DEF CommissioningFails, CommissioningSucceeds
<1> QED
  BY <1>1, <1>2, <1>3, <1>4, <1>5, <1>6, <1>7, <1>8 DEF LoopNext, LoopStep

LEMMA LoopInitially == LoopInit => LoopInv
<1> SUFFICES ASSUME LoopInit PROVE LoopInv
  OBVIOUS
<1>1. IInv
  BY Initially DEF LoopInit
<1>2. LoopTypes
  BY SmokeAssumption DEF LoopInit, LoopTypes, Place, InitialArmed
<1>3. AtRest /\ RacyIsExact /\ ArmedAgainstLevel
  BY DEF LoopInit, AtRest, GoingToSleep, RacyIsExact, Unarmed, ArmedAgainstLevel, Armed
<1> QED
  BY <1>1, <1>2, <1>3 DEF LoopInv

LEMMA LoopTypesKept == LoopTypes /\ [LoopNext]_allVars => LoopTypes'
<1> SUFFICES ASSUME LoopTypes, [LoopNext]_allVars PROVE LoopTypes'
  OBVIOUS
<1> USE DEF LoopTypes, Place
<1>1. CASE TimersDone \/ ScanButton \/ MayNotSleep \/ MaySleep \/ StackBusy \/ StackDone
  BY <1>1 DEF TimersDone, ScanButton, MayNotSleep, MaySleep, StackBusy, StackDone, Go, At
<1>2. CASE ScanInputs
  BY <1>2, SmokeAssumption DEF ScanInputs, OneMorePass, Go, At
<1>3. CASE Arm
  BY <1>3 DEF Arm, ArmPad, Go, At, Input
<1>4. CASE TimerCallback \/ StackTask \/ ClockRuns \/ Sleep
  BY <1>4 DEF TimerCallback, StackTask, ClockRuns, Sleep, loopVars
<1>5. CASE no_joinedCb \/ WakeByPad \/ WakeByTimer
  <2>1. CASE WakeByPad \/ WakeByTimer
    BY <2>1 DEF WakeByPad, WakeByTimer, WakeUp
  <2>2. CASE no_joinedCb
    <3>1. pc' \in Place /\ racy' \in SUBSET Input /\ noJoined' \in 0 .. Debounce
      BY <2>2, SmokeAssumption DEF no_joinedCb
    <3>2. power' \in {"awake", "retention", "deep"} /\ armed' \in [Input -> BOOLEAN]
      BY <2>2 DEF no_joinedCb
    <3> QED
      BY <3>1, <3>2
  <2> QED
    BY <1>5, <2>1, <2>2
<1>6. CASE RestartByPad \/ RestartByKeyOrPower
  <2>1. noJoined' = 0 /\ 0 \in 0 .. Debounce
    BY <1>6, SmokeAssumption DEF RestartByPad, RestartByKeyOrPower, StartOver
  <2> QED
    BY <1>6, <2>1 DEF RestartByPad, RestartByKeyOrPower, StartOver, InitialArmed
<1>7. CASE PinChanges
  BY <1>7 DEF PinChanges, Flip
<1>8. CASE CommissioningFails \/ CommissioningSucceeds
  BY <1>8, SmokeAssumption DEF CommissioningFails, CommissioningSucceeds
<1>9. CASE UNCHANGED allVars
  BY <1>9 DEF allVars, loopVars
<1> QED
  BY <1>1, <1>2, <1>3, <1>4, <1>5, <1>6, <1>7, <1>8, <1>9 DEF LoopNext, LoopStep

-----------------------------------------------------------------------------
(* A sample brings an input that it settles to the level of its pin: the   *)
(* counter cannot be at both ends (app_smoke.c:93-95, 116-118).            *)
LEMMA SampledIsSettled ==
  ASSUME IInv, SampleInputs, NEW i \in Input, debounce'[i] \in {1, Debounce}
  PROVE  pin'[i] = level'[i]
<1>1. IInv'
  BY NextStep DEF Next
<1>2. TypeOK /\ TypeOK' /\ SettledAtTheEnds'
  BY <1>1, IInvImplies, PTL
<1>3. /\ debounce'[i] = Count(debounce[i], pin[i])
      /\ pin' = pin
  BY DEF SampleInputs, smoke_handler, Input
<1>4. debounce[i] \in 1 .. Debounce /\ pin[i] \in BOOLEAN /\ level'[i] \in BOOLEAN
  BY <1>2 DEF TypeOK, SmokeTypeOK, ZoneTypeOK, Input, Source
<1>5. CASE pin[i]
  <2>1. debounce'[i] = Debounce
    BY <1>3, <1>4, <1>5, SmokeAssumption DEF Count
  <2> QED
    BY <1>2, <1>3, <1>4, <1>5, <2>1 DEF SettledAtTheEnds
<1>6. CASE ~pin[i]
  <2>1. debounce'[i] = 1
    BY <1>3, <1>4, <1>6, SmokeAssumption DEF Count
  <2> QED
    BY <1>2, <1>3, <1>4, <1>6, <2>1 DEF SettledAtTheEnds
<1> QED
  BY <1>4, <1>5, <1>6

(* Nothing the loop does between the sleep condition and the end of the    *)
(* sleep touches a counter or the key; the condition is read last.         *)
LEMMA RestKept == LoopInv /\ [LoopNext]_allVars => AtRest'
<1> SUFFICES ASSUME LoopInv, [LoopNext]_allVars, GoingToSleep'
             PROVE  (~smoke_idle /\ ~button_idle)'
  BY DEF AtRest
<1> DEFINE counters == <<debounce, button, keyPressed>>
<1>1. (~smoke_idle /\ ~button_idle /\ UNCHANGED counters)
        => (~smoke_idle /\ ~button_idle)'
  BY DEF smoke_idle, button_idle
<1>2. CASE MaySleep
  BY <1>1, <1>2 DEF MaySleep, vars, smokeVars, buttonVars
<1>3. CASE Arm \/ Sleep
  <2>1. GoingToSleep
    BY <1>3 DEF Arm, ArmPad, Sleep, Go, At, GoingToSleep
  <2>2. UNCHANGED counters
    BY <1>3 DEF Arm, ArmPad, Sleep, vars, smokeVars, buttonVars
  <2> QED
    BY <1>1, <2>1, <2>2 DEF LoopInv, AtRest
<1>4. CASE ClockRuns \/ PinChanges \/ UNCHANGED allVars
  <2>1. GoingToSleep
    BY <1>4 DEF ClockRuns, PinChanges, GoingToSleep, allVars, loopVars
  <2>2. UNCHANGED counters
    BY <1>4 DEF ClockRuns, ButtonTime, Elapse, PinChanges, PinChange, allVars, vars,
                smokeVars, buttonVars
  <2> QED
    BY <1>1, <2>1, <2>2 DEF LoopInv, AtRest
<1>5. CASE TimersDone \/ ScanButton \/ ScanInputs \/ MayNotSleep \/ StackBusy \/ StackDone
  BY <1>5, Places
     DEF TimersDone, ScanButton, ScanInputs, MayNotSleep, StackBusy, StackDone, GoingToSleep
<1>6. CASE TimerCallback \/ StackTask
  BY <1>6 DEF TimerCallback, StackTask, At, loopVars, GoingToSleep
<1>7. CASE no_joinedCb \/ WakeByPad \/ WakeByTimer
  BY <1>7 DEF no_joinedCb, At, WakeByPad, WakeByTimer, WakeUp, GoingToSleep
<1>8. CASE RestartByPad \/ RestartByKeyOrPower
  BY <1>8 DEF RestartByPad, RestartByKeyOrPower, StartOver, GoingToSleep
<1>9. CASE CommissioningFails \/ CommissioningSucceeds
  BY <1>9 DEF CommissioningFails, CommissioningSucceeds, At, GoingToSleep
<1> QED
  BY <1>2, <1>3, <1>4, <1>5, <1>6, <1>7, <1>8, <1>9 DEF LoopNext, LoopStep

(* Until its pad is armed, an input that changes its level is racy, and    *)
(* one that changes back is not.                                           *)
LEMMA RacyKept == LoopInv /\ [LoopNext]_allVars => RacyIsExact'
<1> SUFFICES ASSUME LoopInv, [LoopNext]_allVars,
                    NEW i \in Input, Unarmed(i)', debounce'[i] \in {1, Debounce}
             PROVE  i \in racy' <=> pin'[i] # level'[i]
  BY DEF RacyIsExact
<1>1. IInv /\ TypeOK /\ RacyIsExact
  BY IInvImplies DEF LoopInv
<1>2. pin \in [Input -> BOOLEAN] /\ level[i] \in BOOLEAN
  BY <1>1 DEF TypeOK, SmokeTypeOK, ZoneTypeOK, Input, Source
<1>3. CASE ScanInputs
  <2>1. pin'[i] = level'[i]
    BY <1>1, <1>3, SampledIsSettled DEF ScanInputs
  <2>2. racy' = {}
    BY <1>3 DEF ScanInputs
  <2> QED
    BY <2>1, <2>2
<1>4. CASE MaySleep \/ ArmPad("smoke", "arm_smoke", "arm_tamper") \/ ClockRuns
           \/ UNCHANGED allVars
  <2>1. Unarmed(i)
    BY <1>4 DEF MaySleep, ArmPad, Go, At, ClockRuns, allVars, loopVars, Unarmed
  <2>2. UNCHANGED <<debounce, pin, level, racy>>
    BY <1>4 DEF MaySleep, ArmPad, ClockRuns, ButtonTime, zoneVars, smokeVars, allVars,
                loopVars, vars
  <2> QED
    BY <1>1, <2>1, <2>2 DEF RacyIsExact
<1>5. CASE PinChanges
  <2>1. Unarmed(i) /\ UNCHANGED <<debounce, level>>
    BY <1>5 DEF PinChanges, PinChange, zoneVars, Unarmed
  <2>2. i \in racy <=> pin[i] # level[i]
    BY <1>1, <2>1 DEF RacyIsExact
  <2>3. PICK j \in Input : /\ pin' = [pin EXCEPT ![j] = ~@]
                          /\ racy' = IF Unarmed(j) THEN Flip(racy, j) ELSE racy
    BY <1>5 DEF PinChanges, PinChange
  <2>4. CASE j = i
    <3>1. pin'[i] = ~pin[i]
      BY <1>2, <2>3, <2>4
    <3>2. i \in racy' <=> i \notin racy
      BY <2>1, <2>3, <2>4 DEF Flip
    <3> QED
      BY <1>2, <2>1, <2>2, <3>1, <3>2
  <2>5. CASE j # i
    <3>1. pin'[i] = pin[i]
      BY <1>2, <2>3, <2>5
    <3>2. i \in racy' <=> i \in racy
      BY <2>3, <2>5 DEF Flip
    <3> QED
      BY <2>1, <2>2, <3>1, <3>2
  <2> QED
    BY <2>4, <2>5
<1>6. CASE TimersDone \/ ScanButton \/ MayNotSleep \/ StackBusy \/ StackDone
           \/ ArmPad("tamper", "arm_tamper", "enter")
  BY <1>6, Places
     DEF TimersDone, ScanButton, MayNotSleep, StackBusy, StackDone, ArmPad, Unarmed
<1>7. CASE TimerCallback \/ StackTask \/ Sleep
  BY <1>7 DEF TimerCallback, StackTask, Sleep, At, loopVars, Unarmed
<1>8. CASE no_joinedCb \/ WakeByPad \/ WakeByTimer
  BY <1>8 DEF no_joinedCb, At, WakeByPad, WakeByTimer, WakeUp, Unarmed
<1>9. CASE RestartByPad \/ RestartByKeyOrPower
  BY <1>9 DEF RestartByPad, RestartByKeyOrPower, StartOver, Unarmed
<1>10. CASE CommissioningFails \/ CommissioningSucceeds
  BY <1>10 DEF CommissioningFails, CommissioningSucceeds, At, Unarmed
<1> QED
  BY <1>3, <1>4, <1>5, <1>6, <1>7, <1>8, <1>9, <1>10 DEF LoopNext, LoopStep, Arm

(* A pad is armed against the level its pin has at that moment, which is   *)
(* the settled one unless the input is racy; from then on neither changes. *)
LEMMA ArmedKept == LoopInv /\ [LoopNext]_allVars => ArmedAgainstLevel'
<1> SUFFICES ASSUME LoopInv, [LoopNext]_allVars,
                    NEW i \in Input, Armed(i)', i \notin racy'
             PROVE  armed'[i] # level'[i]
  BY DEF ArmedAgainstLevel
<1>1. TypeOK /\ LoopTypes /\ RacyIsExact /\ ArmedAgainstLevel /\ AtRest
  BY IInvImplies DEF LoopInv
<1>2. pin[i] \in BOOLEAN /\ level[i] \in BOOLEAN /\ armed \in [Input -> BOOLEAN]
  BY <1>1 DEF TypeOK, SmokeTypeOK, ZoneTypeOK, LoopTypes, Input, Source
<1>3. ASSUME Armed(i), UNCHANGED <<armed, level, racy>>
      PROVE  armed'[i] # level'[i]
  BY <1>1, <1>3 DEF ArmedAgainstLevel
<1>4. ASSUME NEW here, NEW next, ArmPad(i, here, next),
             Unarmed(i), power = "awake", pc \in {"arm_smoke", "arm_tamper"}
      PROVE  armed'[i] # level'[i]
  <2>1. debounce[i] \in {1, Debounce}
    BY <1>1, <1>4 DEF AtRest, GoingToSleep, smoke_idle
  <2>2. pin[i] = level[i]
    BY <1>1, <1>4, <2>1 DEF RacyIsExact, ArmPad
  <2>3. armed'[i] = ~pin[i] /\ level'[i] = level[i]
    BY <1>2, <1>4 DEF ArmPad, vars, zoneVars
  <2> QED
    BY <1>2, <2>2, <2>3
<1>5. CASE ArmPad("smoke", "arm_smoke", "arm_tamper")
  <2>1. i = "smoke"
    BY <1>5 DEF ArmPad, Go, At, Armed, Input
  <2>2. Unarmed(i) /\ power = "awake" /\ pc = "arm_smoke"
    BY <1>5, <2>1 DEF ArmPad, Go, At, Unarmed
  <2> QED
    BY <1>4, <1>5, <2>1, <2>2
<1>6. CASE ArmPad("tamper", "arm_tamper", "enter")
  <2>1. CASE i = "tamper"
    <3>1. Unarmed(i) /\ power = "awake" /\ pc = "arm_tamper"
      BY <1>6, <2>1 DEF ArmPad, Go, At, Unarmed
    <3> QED
      BY <1>4, <1>6, <2>1, <3>1
  <2>2. CASE i = "smoke"
    <3>1. Armed(i)
      BY <1>6, <2>2 DEF ArmPad, Go, At, Armed
    <3>2. armed'[i] = armed[i] /\ UNCHANGED <<level, racy>>
      BY <1>2, <1>6, <2>2 DEF ArmPad, vars, zoneVars
    <3> QED
      BY <1>1, <3>1, <3>2 DEF ArmedAgainstLevel
  <2> QED
    BY <2>1, <2>2 DEF Input
<1>7. CASE Sleep \/ ClockRuns \/ UNCHANGED allVars
  <2>1. Armed(i)
    BY <1>7 DEF Sleep, At, ClockRuns, allVars, loopVars, Armed
  <2>2. UNCHANGED <<armed, level, racy>>
    BY <1>7 DEF Sleep, ClockRuns, ButtonTime, zoneVars, allVars, loopVars, vars
  <2> QED
    BY <1>3, <2>1, <2>2
<1>8. CASE PinChanges
  <2>1. Armed(i) /\ UNCHANGED <<armed, level>>
    BY <1>8 DEF PinChanges, zoneVars, Armed
  <2>2. ~Unarmed(i)
    BY <2>1 DEF Armed, Unarmed
  <2>3. i \notin racy
    BY <1>8, <2>2 DEF PinChanges, Flip
  <2> QED
    BY <1>1, <2>1, <2>3 DEF ArmedAgainstLevel
<1>9. CASE TimersDone \/ ScanButton \/ ScanInputs \/ MayNotSleep \/ MaySleep
           \/ StackBusy \/ StackDone
  BY <1>9, Places
     DEF TimersDone, ScanButton, ScanInputs, MayNotSleep, MaySleep, StackBusy,
         StackDone, Armed
<1>10. CASE TimerCallback \/ StackTask
  BY <1>10 DEF TimerCallback, StackTask, At, loopVars, Armed
<1>11. CASE no_joinedCb \/ WakeByPad \/ WakeByTimer
  BY <1>11 DEF no_joinedCb, At, WakeByPad, WakeByTimer, WakeUp, Armed
<1>12. CASE RestartByPad \/ RestartByKeyOrPower
  BY <1>12 DEF RestartByPad, RestartByKeyOrPower, StartOver, Armed
<1>13. CASE CommissioningFails \/ CommissioningSucceeds
  BY <1>13 DEF CommissioningFails, CommissioningSucceeds, At, Armed
<1> QED
  BY <1>5, <1>6, <1>7, <1>8, <1>9, <1>10, <1>11, <1>12, <1>13
     DEF LoopNext, LoopStep, Arm

-----------------------------------------------------------------------------
LEMMA LoopInvariance == LoopSpec => []LoopInv
<1>1. LoopInv /\ [LoopNext]_allVars => LoopInv'
  <2> SUFFICES ASSUME LoopInv, [LoopNext]_allVars PROVE LoopInv'
    OBVIOUS
  <2>1. [Next]_vars
    BY KeepsToSensor DEF allVars
  <2>2. IInv'
    BY <2>1, NextStep DEF LoopInv
  <2> QED
    BY <2>2, LoopTypesKept, RestKept, RacyKept, ArmedKept DEF LoopInv
<1> QED
  BY LoopInitially, <1>1, PTL DEF LoopSpec

(* The main loop with its sleeps and restarts does nothing to the sensor   *)
(* that some order of its handlers does not do (main.c, app_main.c), so it *)
(* has every property proved of Sensor.                                    *)
THEOREM LoopImplementsSensor == LoopSpec => Spec
<1>1. LoopInit => Init
  BY DEF LoopInit
<1>2. [LoopNext]_allVars => [Next]_vars
  BY KeepsToSensor DEF allVars
<1> QED
  BY <1>1, <1>2, PTL DEF LoopSpec, Spec

(* Every place of the loop, kind of sleep and armed level, and all the     *)
(* state of the sensor under them, keep to their types.                    *)
THEOREM LoopIsTyped == LoopSpec => []LoopTypeOK
<1>1. LoopInv => LoopTypeOK
  BY IInvImplies DEF LoopInv, LoopTypes, LoopTypeOK
<1> QED
  BY LoopInvariance, <1>1, PTL

(* Whatever the pins, the timers and the network do, the sleep that keeps  *)
(* the RAM is never entered or spent with a counter on its way or a key    *)
(* that is down or not counted yet (app_main.c:172-177).                   *)
THEOREM NothingHalfDone == LoopSpec => []NothingPendingAsleep
<1>1. LoopInv => NothingPendingAsleep
  BY DEF LoopInv, AtRest, GoingToSleep, NothingPendingAsleep
<1> QED
  BY LoopInvariance, <1>1, PTL

(* For every debounce limit and every interleaving of pin changes with the *)
(* pass: an input that did not change between its sample and the arming of *)
(* its pad wakes the MCU by its next change (app_pm.c:40-43,               *)
(* drv_pm.c:332-346).                                                      *)
THEOREM ChangeWakes == LoopSpec => []SettledInputIsArmed
<1>1. LoopInv => SettledInputIsArmed
  BY DEF LoopInv, ArmedAgainstLevel, Armed, SettledInputIsArmed
<1> QED
  BY LoopInvariance, <1>1, PTL
=============================================================================
