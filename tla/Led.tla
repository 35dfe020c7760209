----------------------------------- MODULE Led -----------------------------------
(***************************************************************************)
(* The LED and its users (app_led.c, zcl_appCb.c): one timer of the        *)
(* application lets it flash a number of times.  The heartbeat, the key,   *)
(* the callback of the commissioning and the identify cluster all start    *)
(* and stop it, whatever it is doing for another of them.  A start while   *)
(* it runs replaces the number of flashes and nothing else.                *)
(*                                                                         *)
(* The state the LED returns to (oriSta) is off and is never changed.      *)
(***************************************************************************)
EXTENDS Naturals

CONSTANTS
  Byte,        \* values of a uint8_t
  MaxTime,     \* bound: the longest identify time, 65535 s
  Effects      \* flashes of the effects of the identify cluster: 1, 2, 15

ASSUME LedAssumption ==
  /\ Byte \in Nat /\ Byte > 3 /\ MaxTime \in Nat
  /\ Effects \subseteq 1 .. Byte - 1

VARIABLES
  lit,       \* the LED is on
  blink,     \* timerLedEvt exists; sta; times
  identify,  \* identifyTimerEvt exists; the attribute IdentifyTime
  written,   \* history: the attribute was written since the last command
  request    \* history: flashes asked for by the last start, whether that
             \* came in the pause after a flash, and flashes since

ledVars == <<lit, blink, identify, written, request>>

LedTypeOK ==
  /\ lit \in BOOLEAN
  /\ blink \in [timer : BOOLEAN, sta : BOOLEAN, times : 0 .. Byte - 1]
  /\ identify \in [timer : BOOLEAN, time : 0 .. MaxTime]
  /\ written \in BOOLEAN
  /\ request \in [wanted : 0 .. MaxTime + Byte, inPause : BOOLEAN, flashes : 0 .. Byte]

Dark == [timer |-> FALSE, sta |-> FALSE, times |-> 0]
NotIdentifying == [timer |-> FALSE, time |-> 0]
NothingAsked == [wanted |-> 0, inPause |-> FALSE, flashes |-> 0]

LedInit ==
  /\ lit = FALSE /\ blink = Dark
  /\ identify = NotIdentifying /\ written = FALSE
  /\ request = NothingAsked

-----------------------------------------------------------------------------
(* light_blink_start(n), of a LED and a timer as they are, or just stopped. *)
Start(n, running) ==
  /\ blink' = IF running THEN [blink EXCEPT !.times = n % Byte]
              ELSE [timer |-> TRUE, sta |-> TRUE, times |-> n % Byte]
  /\ lit' = (lit \/ ~running)
  /\ request' = [wanted |-> n, inPause |-> running /\ ~blink.sta, flashes |-> 0]

light_blink_start(n) == Start(n, blink.timer)

(* light_blink_stop, and a start that follows it at once. *)
StopAndStart(n) == Start(n, FALSE)

(* Mutant: the LED stays as it is. *)
StopInDark ==
  /\ blink' = IF blink.timer THEN [blink EXCEPT !.timer = FALSE, !.times = 0] ELSE blink
  /\ UNCHANGED <<lit, request>>

light_blink_stop ==
  /\ blink' = IF blink.timer THEN [blink EXCEPT !.timer = FALSE, !.times = 0] ELSE blink
  /\ lit' = (lit /\ ~blink.timer)
  /\ UNCHANGED request

(* Mutants: times is signed; every change of the LED counts.  *)
LessSigned(times) == IF times = 0 THEN Byte ELSE times - 1
PausesCount == TRUE

(* times-- of a byte. *)
Less(times) == (times + Byte - 1) % Byte

(* zclLightTimerCb counts a flash when the pause after it is over.         *)
Counts == ~blink.sta

zclLightTimerCb ==
  LET left == IF Counts THEN Less(blink.times) ELSE blink.times
  IN /\ blink.timer
     /\ IF Counts /\ left = 0
        THEN /\ blink' = [blink EXCEPT !.timer = FALSE, !.times = left]
             /\ UNCHANGED <<lit, request>>
        ELSE /\ blink' = [blink EXCEPT !.sta = ~@, !.times = left]
             /\ lit' = ~blink.sta
             /\ request' = [request EXCEPT !.flashes = IF blink.sta THEN @ + 1 ELSE @]
     /\ UNCHANGED <<identify, written>>

-----------------------------------------------------------------------------
(* The users.                                                              *)

Others == UNCHANGED <<identify, written>>

(* app_task, of a device on a network; two flashes during an update. *)
Heartbeat == (\E n \in {1, 2} : StopAndStart(n)) /\ Others

(* keyScan_keyPressedCB, buttonKeepPressed. *)
KeyDown == light_blink_start(1) /\ Others
KeyHeld == StopAndStart(1) /\ Others

(* zb_bdbCommissioningCb: success; no network, or no rejoin. *)
Joined == light_blink_start(2) /\ Others
NotJoined == StopAndStart(3) /\ Others

(* app_zcltriggerCmdHandler. *)
Effect == ((\E n \in Effects : light_blink_start(n)) \/ light_blink_stop) /\ Others

(* app_zclIdentifyCmdHandler.  A second command prolongs the time alone. *)
IdentifyStops ==
  /\ identify' = NotIdentifying
  /\ light_blink_stop
  /\ written' = FALSE

IdentifyFor(n) ==
  /\ identify' = [timer |-> TRUE, time |-> n]
  /\ IF identify.timer THEN UNCHANGED <<lit, blink, request>> ELSE light_blink_start(n)
  /\ written' = FALSE

Identify == IdentifyStops \/ \E n \in 1 .. MaxTime : IdentifyFor(n)

(* Write Attributes of IdentifyTime: the application is not told. *)
WriteIdentifyTime ==
  /\ \E n \in 0 .. MaxTime : identify' = [identify EXCEPT !.time = n]
  /\ written' = TRUE
  /\ UNCHANGED <<lit, blink, request>>

(* Mutant: the timer that ends leaves its handle. *)
IdentifyKeepsHandle ==
  /\ identify.timer /\ identify.time > 0
  /\ identify' = [identify EXCEPT !.time = @ - 1]
  /\ UNCHANGED <<lit, blink, written, request>>

app_zclIdentifyTimerCb ==
  /\ identify.timer
  /\ identify' = IF identify.time = 0 THEN [identify EXCEPT !.timer = FALSE]
                 ELSE [identify EXCEPT !.time = @ - 1]
  /\ UNCHANGED <<lit, blink, written, request>>

(* A restart, and the end of a deep sleep: light_init. *)
LedRestart ==
  /\ lit' = FALSE /\ blink' = Dark
  /\ identify' = NotIdentifying /\ written' = FALSE
  /\ request' = NothingAsked

Users == Heartbeat \/ KeyDown \/ KeyHeld \/ Joined \/ NotJoined \/ Effect

LedNext ==
  \/ Users \/ Identify \/ WriteIdentifyTime
  \/ zclLightTimerCb \/ app_zclIdentifyTimerCb \/ LedRestart

LedSpec ==
  LedInit /\ [][LedNext]_ledVars /\ WF_ledVars(app_zclIdentifyTimerCb)

-----------------------------------------------------------------------------
(* Whoever stops, starts or outlives whom, the LED is never left on        *)
(* without the timer that puts it out, and while that runs it is as the    *)
(* timer thinks it is (app_led.c:32-90).                                   *)
NeverLeftOn ==
  /\ lit => blink.timer
  /\ blink.timer => lit = blink.sta

(* A blink that comes to its own end has flashed as often as the last      *)
(* start asked for, whatever it took over; one time less, for a single     *)
(* flash not at all, when the start came in the pause after a flash        *)
(* (app_led.c:36-42, 59-61).  That is as long as the number fits a byte,   *)
(* which an identify time may not (zcl_appCb.c:337).                       *)
Answered == IF request.inPause THEN request.wanted - 1 ELSE request.wanted
EndsAsAsked ==
  [][(zclLightTimerCb /\ ~blink'.timer /\ request.wanted < Byte)
       => request.flashes = Answered]_ledVars

(* The device does not identify itself for ever after a command, if no     *)
(* other one follows and nobody writes the attribute, whose value no timer *)
(* counts down (zcl_appCb.c:300-341).                                      *)
IdentifyEnds ==
  <>[][~Identify /\ ~WriteIdentifyTime]_ledVars
    => <>[](~identify.timer /\ (written \/ identify.time = 0))
=============================================================================
