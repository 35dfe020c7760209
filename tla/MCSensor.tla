------------------------------- MODULE MCSensor -------------------------------
(***************************************************************************)
(* Instances of Sensor for TLC.  The product of all parts is too large, so *)
(* each behaviour takes some of the actions of Sensor as they are.         *)
(* SensorProofs covers the whole product.                                  *)
(***************************************************************************)
EXTENDS Sensor

VARIABLE part  \* the part of the sensor that is at work

Network == Radio \/ JoinNetwork \/ LeaveNetwork \/ Restart

(* The inputs over the network, with the siren and the enrollment, and a   *)
(* battery that stays as it is.                                            *)
InputsNext ==
  /\ SampleInputs \/ InputChanges \/ ConfigureSwitch \/ Controller \/ Network
  /\ UNCHANGED batteryVars

(* The button and the battery over the network. *)
ButtonNext ==
  HandleButton \/ ButtonTime \/ ForcedReport \/ MeasureBattery \/ Network

PartInit ==
  /\ Init
  /\ \/ part = "inputs" /\ batteryPercentage > 0
     \/ part = "button"

PartNext ==
  /\ \/ part = "inputs" /\ InputsNext
     \/ part = "button" /\ ButtonNext
  /\ UNCHANGED part

PartSpec == PartInit /\ [][PartNext]_<<vars, part>>
=============================================================================
