-------------------------------- MODULE Button --------------------------------
(***************************************************************************)
(* app_button.c: the single button of the board.  A press sets the test    *)
(* bit of the zone, a release clears it; two seconds of holding ask the    *)
(* stack for a factory reset; a quarter of a second after a release the    *)
(* presses are counted, and a single one measures the battery and starts   *)
(* the timer of the forced report.  The counter also keeps the MCU awake.  *)
(*                                                                         *)
(* The LED and the poll rate, which the handlers also touch, are in the    *)
(* modules Led and PollRate.                                               *)
(***************************************************************************)
EXTENDS Battery

CONSTANT CtnSize  \* values of the press counter, a u8 in the code

ASSUME ButtonAssumption == CtnSize \in Nat /\ CtnSize > 2

VARIABLES
  button,       \* g_appCtx.button[0]: its state and the number of presses
  keyPressed,   \* g_appCtx.keyPressed
  waited,       \* has the time the state waits for passed since the event?
  resetAsked,   \* zb_resetDevice2FN was called and the network not left yet
  forcedReport  \* timerForcedReportEvt is running

buttonVars == <<button, keyPressed, waited, resetAsked, forcedReport>>

ButtonState == {"NORMAL", "RELEASE", "SET_CHECK", "DOING"}

ButtonTypeOK ==
  /\ button \in [state : ButtonState, ctn : 0 .. CtnSize - 1]
  /\ keyPressed \in BOOLEAN
  /\ waited \in BOOLEAN
  /\ resetAsked \in BOOLEAN
  /\ forcedReport \in BOOLEAN

ButtonStart == [state |-> "NORMAL", ctn |-> 0]

ButtonInit ==
  /\ button = ButtonStart
  /\ keyPressed = FALSE
  /\ waited = FALSE
  /\ resetAsked = FALSE
  /\ forcedReport = FALSE

-----------------------------------------------------------------------------
(* Mutants: the key need not be held; only single presses are finished.  *)
KeepsReleased == button.state \in {"SET_CHECK", "RELEASE"} /\ waited
ChecksSingle == button.state = "RELEASE" /\ waited /\ button.ctn = 1

(* What the first loop of button_handler does with the elapsed times. *)
KeepsPressed == button.state = "SET_CHECK" /\ waited     \* 2 s
ChecksCommand == button.state = "RELEASE" /\ waited      \* 250 ms
SinglePress == ChecksCommand /\ button.ctn = 1

(* Mutant: buttonKeepPressed does not clear the number of presses. *)
AfterTimesCounting ==
  CASE KeepsPressed  -> [button EXCEPT !.state = "DOING"]
    [] ChecksCommand -> [state |-> "NORMAL", ctn |-> 0]
    [] OTHER         -> button

AfterTimes ==
  CASE KeepsPressed  -> [state |-> "DOING", ctn |-> 0]   \* buttonKeepPressed
    [] ChecksCommand -> [state |-> "NORMAL", ctn |-> 0]  \* buttonCheckCommand
    [] OTHER         -> button

(* What the key scan reports: the scanner alternates press and release. *)
ScanEvent == {"none"} \union (IF keyPressed THEN {"release"} ELSE {"press"})

AfterScan(b, event) ==
  CASE event = "press"   -> [state |-> "SET_CHECK", ctn |-> (b.ctn + 1) % CtnSize]
    [] event = "release" -> [b EXCEPT !.state = "RELEASE"]
    [] event = "none"    -> b

(* The zone: the measurement of a single press, then the test bit. *)
ButtonZone(io, raw, event) ==
  LET measured == IF SinglePress THEN Measured(io, raw, voltage_factor) ELSE io
  IN CASE event = "press"   -> Settle(measured, "button", TRUE)
       [] event = "release" -> Settle(measured, "button", FALSE)
       [] event = "none"    -> measured

button_handler(raw, event) ==
  /\ event \in ScanEvent
  /\ button' = AfterScan(AfterTimes, event)
  /\ keyPressed' = CASE event = "press"   -> TRUE
                     [] event = "release" -> FALSE
                     [] event = "none"    -> keyPressed
  /\ waited' = (waited /\ event = "none" /\ button' = button)
  /\ resetAsked' = (resetAsked \/ KeepsPressed)
  /\ forcedReport' = (forcedReport \/ SinglePress)
  /\ SetZoneIO(ButtonZone(ZoneIO, raw, event))
  /\ IF SinglePress THEN StoreMeasurement(raw) ELSE UNCHANGED batteryVars
  /\ UNCHANGED told

(* The clock passes the limit the current state is waiting for. *)
Elapse ==
  /\ button.state \in {"SET_CHECK", "RELEASE"}
  /\ ~waited
  /\ waited' = TRUE
  /\ UNCHANGED <<button, keyPressed, resetAsked, forcedReport>>

(* forcedReportCb: one second after a single press. *)
forcedReportCb ==
  /\ forcedReport
  /\ forcedReport' = FALSE
  /\ UNCHANGED <<button, keyPressed, waited, resetAsked>>

(* The stack leaves the network because of the reset. *)
ResetLeaves ==
  /\ resetAsked' = FALSE
  /\ UNCHANGED <<button, keyPressed, waited, forcedReport>>

(* button_idle() answers TRUE while the MCU has to stay awake for the key. *)
button_idle == keyPressed \/ button.ctn # 0

-----------------------------------------------------------------------------
(* The MCU is kept awake for the button only while some event or timeout   *)
(* is still to come that ends it: a counter without a state whose timeout  *)
(* clears it would drain the battery (app_button.c:116-129, 146-157).      *)
BusyHasAnEnd ==
  /\ keyPressed <=> button.state \in {"SET_CHECK", "DOING"}
  /\ button.ctn # 0 => button.state \in {"SET_CHECK", "RELEASE"}

(* The device is reset to factory new only while the scans have seen the   *)
(* key down and not yet up again, whatever the order of hold, release and  *)
(* timeout in a pass (app_button.c:116-121).  A key that was let go after  *)
(* the last scan counts as held.                                           *)
ResetNeedsHeldKey ==
  [][(resetAsked' /\ ~resetAsked) => keyPressed]_<<resetAsked, keyPressed>>
=============================================================================
