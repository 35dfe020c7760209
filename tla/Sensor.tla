-------------------------------- MODULE Sensor --------------------------------
(***************************************************************************)
(* The application of the smoke sensor: the three writers of the zone      *)
(* status (smoke and tamper inputs, button, battery) over the IAS Zone     *)
(* server, the network and the restarts of the MCU.  Every handler is run  *)
(* by the one main loop (app_task, the timers, the stack task) and is a    *)
(* step; the order of the steps is left free here, which covers every      *)
(* order the loop and the timers produce.  MainLoop fixes the order and    *)
(* adds the sleep.                                                         *)
(***************************************************************************)
EXTENDS Smoke, Button

vars == <<zoneVars, smokeVars, batteryVars, buttonVars>>

TypeOK == ZoneTypeOK /\ SmokeTypeOK /\ BatteryTypeOK /\ ButtonTypeOK

(* main, user_init, user_app_init: the battery is measured before the      *)
(* first pass of the loop; the device is not on a network yet.             *)
Init ==
  /\ \E raw \in Readings :
       /\ BatteryInit(raw)
       /\ ZoneIs(Measured(ResetIO(FALSE), raw, voltage_factor))
  /\ told = InitialZone.status
  /\ SmokeInit
  /\ ButtonInit

-----------------------------------------------------------------------------
SampleInputs == smoke_handler /\ UNCHANGED <<batteryVars, buttonVars>>

MeasureBattery ==
  \E raw \in Readings : batteryCb(raw) /\ UNCHANGED <<smokeVars, buttonVars>>

HandleButton ==
  \E raw \in Readings, event \in ScanEvent :
    button_handler(raw, event) /\ UNCHANGED smokeVars

ButtonTime == Elapse /\ UNCHANGED <<zoneVars, smokeVars, batteryVars>>

ForcedReport == forcedReportCb /\ UNCHANGED <<zoneVars, smokeVars, batteryVars>>

Controller ==
  /\ \/ \E a \in Controllers : WriteCieAddr(a)
     \/ \E id \in ZoneIds \union {InvalidZoneId} : EnrollRsp(id)
  /\ UNCHANGED <<smokeVars, batteryVars, buttonVars>>

ConfigureSwitch ==
  /\ \E a \in Action, command \in WriteCommand : WriteSwitchAction(a, command)
  /\ UNCHANGED <<zoneVars, batteryVars, buttonVars>>

Radio == (Deliver \/ Lose) /\ UNCHANGED <<smokeVars, batteryVars, buttonVars>>

JoinNetwork == Join /\ UNCHANGED <<smokeVars, batteryVars, buttonVars>>

LeaveNetwork == Leave /\ ResetLeaves /\ UNCHANGED <<smokeVars, batteryVars>>

InputChanges ==
  /\ \E i \in Input : PinChange(i)
  /\ UNCHANGED <<zoneVars, batteryVars, buttonVars>>

(* A power cycle, an exception (appSysException), the end of an OTA or the *)
(* deep sleep without a network: RAM is initialised, the pins, the siren,  *)
(* the controller's knowledge and the NV items stay.                       *)
Restart ==
  /\ \E raw \in Readings :
       /\ SetZoneIO(Measured(ResetIO(TRUE), raw, voltage_factor))
       /\ StoreMeasurement(raw)
  /\ RestoreAction
  /\ debounce' = DebounceStart
  /\ sirenSynced' = FALSE
  /\ button' = ButtonStart
  /\ keyPressed' = FALSE
  /\ waited' = FALSE
  /\ resetAsked' = FALSE
  /\ forcedReport' = FALSE
  /\ UNCHANGED <<told, pin, siren>>

Next ==
  \/ SampleInputs
  \/ MeasureBattery
  \/ HandleButton
  \/ ButtonTime
  \/ ForcedReport
  \/ Controller
  \/ ConfigureSwitch
  \/ Radio
  \/ JoinNetwork
  \/ LeaveNetwork
  \/ InputChanges
  \/ Restart

Spec == Init /\ [][Next]_vars

-----------------------------------------------------------------------------
(* A settled smoke alarm on a joined device is visible in the zone status, *)
(* as README.md:19 promises.  The code only looks at the network at the    *)
(* moment the counter arrives (app_smoke.c:99).                            *)
SmokeShownWhenJoined ==
  (joined /\ debounce["smoke"] = Debounce) => "ALARM1" \in zone.status
=============================================================================
