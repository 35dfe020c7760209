------------------------------- MODULE Battery -------------------------------
(***************************************************************************)
(* batteryCb (app_battery.c): an ADC reading in millivolts is scaled to    *)
(* the voltage of the 9 V block, rounded to tenths of a volt, stored as    *)
(* the two attributes of the power configuration cluster, and compared     *)
(* with the low limit, which publishes the battery bit of the zone.        *)
(***************************************************************************)
EXTENDS IasZone, Integers

CONSTANTS
  Readings,  \* what drv_get_adc_data() returns, in mV: the pin is below 3.6 V
  Factors    \* voltage_factor: VOLTAGE_FACTOR or the calibration in flash

MIN_VBAT_MV == 7000
MAX_VBAT_MV == 9000
U16 == 65536
U8  == 256

ASSUME BatteryAssumption ==
  /\ Readings \subseteq 0 .. 8000
  /\ Factors \subseteq 0 .. U8 - 1

VARIABLES
  voltage_factor,      \* constant of the board after battery_init
  batteryVoltage,      \* ZCL_ATTRID_BATTERY_VOLTAGE, units of 100 mV, a u8
  batteryPercentage    \* ZCL_ATTRID_BATTERY_PERCENTAGE_REMAINING, 0.5 %, a u8

batteryVars == <<voltage_factor, batteryVoltage, batteryPercentage>>

-----------------------------------------------------------------------------
(* battery_init: a calibrated factor of 0 becomes 1. *)
FactorFromFlash(f) == IF f = 0 THEN 1 ELSE f

(* raw * 3 is an int; the difference is stored in a u16. *)
Scaled(raw, factor) == IF raw * 3 < factor THEN 0 ELSE (raw * 3 - factor) % U16

(* Round half up to tenths of a volt. *)
Tenths(mv) == IF mv % 100 >= 50 THEN mv \div 100 + 1 ELSE mv \div 100

(* voltage_9v *= 100, again in a u16. *)
RoundedMv(mv) == (Tenths(mv) * 100) % U16

(* get_battery_level: 0xC8 steps over the span between the two limits; the *)
(* result is clamped before it is narrowed to a u8.                        *)
StepMv == (MAX_VBAT_MV - MIN_VBAT_MV) \div 200

get_battery_level(mv) ==
  IF mv <= MIN_VBAT_MV THEN 0
  ELSE LET steps == (mv - MIN_VBAT_MV) \div StepMv
       IN IF steps > 200 THEN 200 ELSE steps

(* Mutant: at the limit the battery is not low yet. *)
LowBelow(raw, factor) == RoundedMv(Scaled(raw, factor)) < MIN_VBAT_MV

Low(raw, factor) == RoundedMv(Scaled(raw, factor)) <= MIN_VBAT_MV

-----------------------------------------------------------------------------
BatteryTypeOK ==
  /\ voltage_factor \in 0 .. U8 - 1
  /\ batteryVoltage \in 0 .. U8 - 1
  /\ batteryPercentage \in 0 .. 200

(* What a measurement of the reading stores. *)
VoltageOf(raw, factor) == Tenths(Scaled(raw, factor)) % U8
PercentageOf(raw, factor) == get_battery_level(RoundedMv(Scaled(raw, factor)))

(* user_app_init measures once before anything else runs. *)
BatteryInit(raw) ==
  /\ voltage_factor \in {FactorFromFlash(f) : f \in Factors}
  /\ batteryVoltage = VoltageOf(raw, voltage_factor)
  /\ batteryPercentage = PercentageOf(raw, voltage_factor)

(* The zone is only touched when the battery bit changes. *)
Measured(io, raw, factor) ==
  LET low == Low(raw, factor)
  IN IF low # ("BATTERY" \in io.zone.status) THEN Settle(io, "battery", low) ELSE io

StoreMeasurement(raw) ==
  /\ batteryVoltage' = VoltageOf(raw, voltage_factor)
  /\ batteryPercentage' = PercentageOf(raw, voltage_factor)
  /\ UNCHANGED voltage_factor

(* The hourly timer callback; the button calls it, too. *)
batteryCb(raw) ==
  /\ SetZoneIO(Measured(ZoneIO, raw, voltage_factor))
  /\ StoreMeasurement(raw)
  /\ UNCHANGED told

-----------------------------------------------------------------------------
(* The zone bit and the two attributes of the power cluster are written by *)
(* the same measurement and never contradict each other: the battery bit   *)
(* is set exactly when the reported voltage is at the lower limit, and     *)
(* then the reported percentage is 0 (app_battery.c:63-72, 108-148).       *)
BatteryAgrees ==
  /\ ("BATTERY" \in zone.status) <=> batteryVoltage * 100 <= MIN_VBAT_MV
  /\ ("BATTERY" \in zone.status) <=> batteryPercentage = 0
=============================================================================
