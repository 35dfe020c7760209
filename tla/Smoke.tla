-------------------------------- MODULE Smoke --------------------------------
(***************************************************************************)
(* smoke_handler (app_smoke.c): in every pass of the main loop the smoke   *)
(* and the tamper pins are sampled into saturating counters; a counter     *)
(* that arrives at either end settles its input, which publishes the zone  *)
(* status and, for smoke, commands the bound on/off device.                *)
(***************************************************************************)
EXTENDS IasZone, SwitchCfg

CONSTANT Debounce  \* DEBOUNCE_SMOKE: the value at which an input is active

ASSUME SmokeAssumption == Debounce \in Nat /\ Debounce >= 2

VARIABLES
  pin,         \* is the input at its active level?
  debounce,    \* smoke_debounce, tamper_debounce
  siren,       \* external: is the bound on/off device on?
  sirenSynced  \* history: the siren is in step with the smoke level

smokeVars == <<switchVars, pin, debounce, siren, sirenSynced>>

Input == {"smoke", "tamper"}

SmokeTypeOK ==
  /\ pin \in [Input -> BOOLEAN]
  /\ debounce \in [Input -> 1 .. Debounce]
  /\ SwitchTypeOK
  /\ siren \in BOOLEAN
  /\ sirenSynced \in BOOLEAN

DebounceStart == [i \in Input |-> 1]

SmokeInit ==
  /\ pin \in [Input -> BOOLEAN]
  /\ debounce = DebounceStart
  /\ SwitchInit
  /\ siren = FALSE
  /\ sirenSynced = (switchAction = "ON_OFF")

-----------------------------------------------------------------------------
(* Mutants: the counter does not stop; it stops one short of the limit. *)
CountOn(c, active) == IF active THEN c + 1 ELSE (IF c # 1 THEN c - 1 ELSE c)
CountShort(c, active) ==
  IF active THEN (IF c < Debounce - 1 THEN c + 1 ELSE c)
            ELSE (IF c # 1 THEN c - 1 ELSE c)

(* One sample of a counter that stops at 1 and at Debounce. *)
Count(c, active) ==
  IF active THEN (IF c # Debounce THEN c + 1 ELSE c)
            ELSE (IF c # 1 THEN c - 1 ELSE c)

(* Mutant: only the upper end settles the input. *)
SettlesActive(i) ==
  debounce[i] # Debounce /\ Count(debounce[i], pin[i]) = Debounce

(* The sample brings the counter to an end it was not at.  One inactive    *)
(* sample after a single active one does so, too: 1, 2, 1.                 *)
Settles(i) ==
  /\ Count(debounce[i], pin[i]) # debounce[i]
  /\ Count(debounce[i], pin[i]) \in {1, Debounce}

Sampled(io, i) == IF Settles(i) THEN Settle(io, i, pin[i]) ELSE io

(* Mutant: the break after the second case is missing. *)
cmdOnOffFallsThrough(on) ==
  CASE switchAction = "ON_OFF" -> on
    [] switchAction = "OFF_ON" -> on
    [] switchAction = "TOGGLE" -> ~siren
    [] OTHER                   -> siren

(* cmdOnOff: the state the bound device is in after the command; an action *)
(* that is none of the three sends nothing.                                *)
cmdOnOff(on) ==
  CASE switchAction = "ON_OFF" -> on
    [] switchAction = "OFF_ON" -> ~on
    [] switchAction = "TOGGLE" -> ~siren
    [] OTHER                   -> siren

(* The actions that name the state, and the state they ask for. *)
Explicit == {"ON_OFF", "OFF_ON"}
SirenFor(action, on) == IF action = "OFF_ON" THEN ~on ELSE on

(* The command is sent when smoke settles and the device is joined, before *)
(* the zone is published; "received" is the choice of the network.  An     *)
(* explicit on or off brings a device that missed a command back in step.  *)
Command(received) ==
  IF ~Settles("smoke")
  THEN UNCHANGED <<siren, sirenSynced>>
  ELSE IF joined /\ received
       THEN /\ siren' = cmdOnOff(pin["smoke"])
            /\ sirenSynced' = (switchAction \in Explicit)
       ELSE UNCHANGED siren /\ sirenSynced' = FALSE

(* smoke_handler: the smoke pin first, then the tamper pin. *)
smoke_handler ==
  /\ debounce' = [i \in Input |-> Count(debounce[i], pin[i])]
  /\ SetZoneIO(Sampled(Sampled(ZoneIO, "smoke"), "tamper"))
  /\ \E received \in BOOLEAN : Command(received)
  /\ UNCHANGED <<told, pin, switchVars>>

(* smoke_idle() answers TRUE while an input is between its two ends: the   *)
(* device must not sleep then.                                             *)
smoke_idle == \E i \in Input : debounce[i] \notin {1, Debounce}

(* The detector and the mounting plate. *)
PinChange(i) ==
  /\ pin' = [pin EXCEPT ![i] = ~@]
  /\ UNCHANGED <<switchVars, debounce, siren, sirenSynced>>

(* The write handlers of the stack and the hook after them.  A new action  *)
(* sends nothing by itself.                                                *)
WriteSwitchAction(a, command) ==
  /\ joined
  /\ StoreAction(a, command)
  /\ sirenSynced' = (a \in Explicit /\ siren = SirenFor(a, level["smoke"]))
  /\ UNCHANGED <<pin, debounce, siren>>

-----------------------------------------------------------------------------
(* From the pin to the controller: when the radio is quiet and the newest  *)
(* status was not lost, the controller knows of an input whose counter has *)
(* arrived at its upper end, and that it is over once the counter is back  *)
(* at its lower end.  Excepted are inputs that settled without a network   *)
(* (missed, app_smoke.c:99, 122, 155, 177), which are not published at     *)
(* all: see SmokeShownWhenJoined.                                          *)
ControllerSeesInputs ==
  (air = <<>> /\ ~uninformed) =>
    \A i \in Input \ missed :
      /\ debounce[i] = Debounce => BitOf[i] \in told
      /\ debounce[i] = 1 => BitOf[i] \notin told

(* With one of the two explicit actions, a bound device that was in step   *)
(* with the smoke level and has missed no command since is on exactly when *)
(* the action says so, whatever glitches of the input repeat a command     *)
(* (app_smoke.c:35-50, 99-100, 122-123).                                   *)
SirenFollowsSmoke ==
  sirenSynced => siren = SirenFor(switchAction, level["smoke"])

(* README.md:21: the command, Toggle included, is sent when smoke is       *)
(* detected, so a toggle comes with a change of the debounced smoke level. *)
(* A single active sample makes the counter go 1, 2, 1, which is taken for *)
(* a clearing of the smoke (app_smoke.c:116-123) and toggles as well.      *)
ToggleFollowsSmoke ==
  [][(siren' # siren /\ switchAction = "TOGGLE")
       => level'["smoke"] # level["smoke"]]_<<siren, switchAction, level>>
=============================================================================
