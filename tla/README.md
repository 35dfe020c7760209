# Smoke sensor firmware: TLA+ models and proofs

The repository is the firmware of a Zigbee board for a smoke detector (Telink
TLSR8258, battery powered, a sleepy end device). The application is `src/src/`
(about 4300 lines of C) on top of the vendored SDK `src/tl_zigbee_sdk/`. This
directory holds TLA+ models of the application and of those parts of the SDK it
depends on and that come as source, TLC configurations, and TLAPS proofs. Paths
below are relative to the directory that holds `src/` and `tla/`; `README.md:n`
is a line of the firmware's own README.

## 1. The system

One thread: `main()` (`common/main.c`) runs, for ever, the software timers, then
`app_task` (button, inputs, reporting, LED, sleep), then the task queue of the
Zigbee stack, which calls the application back. Nothing preempts a handler; what
interleaves is the order of handlers, the pins, the network, the clock, sleep,
restarts and power failures.

| Part | State | Operations | Hard to test | What makes it correct |
|---|---|---|---|---|
| IAS Zone server (`app_endpoint_cfg.c`, `zcl_appCb.c`, `fillIASAddress`) | zone status, zone state, zone id, CIE address, all in RAM | publish a bit and notify; enroll response; write of the address | lost notifications, nobody told; order of enrollment commands; restart | each bit shows its source; the controller ends up with the current status; address and zone id of a notification agree |
| Smoke and tamper inputs (`app_smoke.c`) | two debounce counters | `smoke_handler`, `smoke_idle`, `cmdOnOff` | glitches, no network at the moment an input settles, lost commands | the controller sees an input that settled with a network; the bound device follows the smoke |
| Switch configuration (`app_endpoint_cfg.c`, `zcl_appCb.c`) | switch action in RAM and in NV | three write commands, save, restore | restart after a write | a restart keeps the setting |
| Battery (`app_battery.c`) | voltage, percentage, factor | `batteryCb` hourly and on a press, `battery_init` | rounding and narrowing at the limit | bit, voltage and percentage agree |
| Button (`app_button.c`) | state, press counter, `keyPressed` | press, release, 2 s, 250 ms | counter limit, hold against release, MCU kept awake | reset only while the scans see the key down; the counter returns to zero |
| Main loop and sleep (`common/main.c`, `app_main.c`, `app_pm.c`, `drv_pm.c`) | place in the loop, armed pads, retained RAM, 30 min timer | pass, arm, sleep, wake, deep sleep, restart | pins change between sampling and arming; the 30 minutes end in any pass | nothing half done in sleep; a change wakes the MCU |
| Software timers (`proj/os/ev_timer.c`) | pool of slots, list | schedule, cancel, update, execute | stale handles, re-entrance, pool limit, tick wrap | a handle names its own timer; nearest is the earliest |
| Commissioning (`zb_appCb.c`, `zigbee/bdb/bdb.c`, `app_pm.c`) | BDB state, tasks, backoff, steering, key exchange and 30 min timers | events, callbacks, leave, reset | events of an earlier state, late answers, forgotten handles, lost parent | never without a network and without a retry; steering ends |
| OTA client (`zigbee/ota/ota.c`, `zb_appCb.c`) | status, offset, timer, saved progress, two flash slots | query, block, end, resume, retries, change of slots | late and repeated answers, power failures, stale progress | always a whole image to boot; the client keeps asking |
| Poll rate (`app_utility.c`, `zb_appCb.c`) | poll rate, poll timer | OTA events, key, poll timer | button or rejoin during a download | slow again in the end |
| Reporting (`app_reporting.c`, `zcl_reporting.c`, `zcl_appCb.c`) | an entry with two timers, time of the last report | `report_handler`, min and max timers, Configure Reporting | reconfiguration, 32-bit clock | not below the minimum; a report at least every maximum; a change is reported |
| LED, identify (`app_led.c`, `zcl_appCb.c`) | blink timer and counters, identify timer | start, stop, tick | several users of one timer, bytes | never left on; identification ends |
| NV driver (`proj/drivers/drv_nv.c`) | two sectors of flash per module: flag, index, items | write, read, change of sector, reset | a power cut between any two writes to the flash | an item holds its last write, and no other item is touched |

Interaction: the inputs, the button and the battery all publish through the
zone attributes; button and timers call the battery measurement; the sleep
looks at the button and at the inputs; joining and leaving decide whether
anything is published and start reporting and the OTA query; commissioning, the
button and OTA share the poll timer; everyone shares the LED; switch settings,
reporting table and OTA progress are saved through the NV driver.

## 2. Modules

| Module | Models |
|---|---|
| `IasZone` | zone attributes, publication, enrollment, radio, join and leave |
| `SwitchCfg` | switch action in RAM and NV, write, save, restore |
| `Smoke` | pins, debounce counters, command to the bound device |
| `Battery` | scaling, rounding, level, battery bit |
| `Button` | button states, counter, test bit, reset request, forced report timer |
| `Sensor` | all of the above in any order, start and restarts |
| `MainLoop` | order of a pass, arming, retention and deep sleep, the thirty minutes that lead to it, over `Sensor` |
| `EvTimer` | software timers: pool, list, handles, passes with callbacks, sleep, ticks |
| `Commissioning` | the event machine of the BDB as an end device uses it, the two callbacks of the application, leave, reset, the thirty minutes |
| `PollRate` | who asks for which poll rate, and the timer that ends it |
| `FlashSlots` | abstract: two slots, start flags, boot ROM |
| `Ota` | the OTA client over `PollRate`; implements `FlashSlots` |
| `Reports` | an entry of the reporting table with its timers and handler |
| `Led` | the LED with its users, identify |
| `NvItems` | abstract: what a save promises |
| `NvStore` | the NV driver; implements `NvItems` |
| `MCSensor`, `MCMainLoop`, `MCCommissioning`, `MCOta`, `MCReports` | slices, limits and symmetry for TLC |
| `SensorProofs`, `MainLoopProofs`, `EvTimerProofs`, `CommissioningProofs`, `OtaProofs`, `ReportsProofs`, `LedProofs`, `NvStoreProofs` | inductive invariants and theorems |

How the code's state is shown:

* A handler is one step, since nothing interrupts it. A step that publishes more
  than once (a pass of both inputs, a press after a finished one) composes
  publications over the record `ZoneIO`; `Notify` is one read, change, write and
  command of the code.
* `zone.status` is the set of bits that are set. `air` is what the stack has not
  sent yet, at most `MaxAir`; the code ignores a refused command, and so does the
  model. `told` is the status the controller knows.
* History variables (`uninformed`, `level`, `missed`, `sirenSynced`, `racy`, `astray`,
  `since`, `early`, `written`, `request`, `age`) record what happened for the
  properties; no guard reads them.
* Time of `Sensor` is a Boolean: `waited` says the 2 s or 250 ms of the current
  button state have passed. The other timers of `MainLoop` may fire in any pass.
* In `MainLoop` the pins may change between any two steps of a pass, also between
  the sample, the sleep condition, the arming of each pad and the sleep. A deep
  sleep with retention keeps all variables; any other start is `Restart`.
* `noJoined` of `MainLoop` is the timer of thirty minutes: a failed commissioning starts
  it, a success some time after the join cancels it (`zb_appCb.c:221-223, 261-263,
  289-290`). It comes due no sooner than after as many passes as settle an input: a
  steering is retried every four seconds and a rejoin every minute, so thirty minutes
  without a network hold many times the 32 passes of `DEBOUNCE_SMOKE`.

`EvTimer` stands on its own; the other modules use timers only as "may fire".

* The used slots of the pool are the domain of `timers.evt`; `list` is the linked
  list from its head; `handle` are the variables in which the application keeps
  its timers. The whole is one record, since a callback composes several
  operations on it in one step.
* A user does what the callbacks and the stack's callers do: start a timer when it
  has no handle, cancel it, cancel and start. A `Detached` user keeps no handle (the
  network steering). What a timer callback does to timers of others is one such use.
* One element of the list is examined per step, so callbacks change the list under
  the loop; `cursor` and `prev_head` are its two local variables.
* Time is counted in ticks that wrap at `TickSpace`. The remainders of a millisecond,
  the sleep and the time charged after it are those of the code. A pass through the
  list itself takes no ticks.

`Commissioning`:

* `tasks` is the queue of the stack, of events and two functions; an event means
  what the state says when it is run. Two events of `bdb.h` (221-246) share a number,
  and so one name here. The timers have no length; a timer whose handle is lost goes
  on, as it does in the code.
* ZDO and below are a closed library, modelled from its interface and from what the
  code relies on: it is busy while it joins, confirms, tells of a lost parent, leaves.

`Ota`:

* One timer and a list of posted tasks serve the whole client; any answer of the
  server may come in any state, also twice, late, or about another version. A slot
  has a cell per block and a start flag; a saved progress is what NV held at the save.
* The flash of the slots, the write of the start flag and the search for a buffer may
  fail; the power may fail between any two steps, the two writes of the start flags
  included. Sizes of files are equal and headers well formed; erasing a slot is one
  step.

`Reports` has one entry, since entries meet only in a command that names both, whose
effect on the second (its timers stay) is an action. Values are abstracted to
"differs from the last report by more than the reportable change". `posted` is the
32-bit time of the last report, counted up to the wrap of the clock.

`Led` leaves out how long a flash is. `request` remembers what the last start asked for.

`NvStore`: an entry stands for an index and the item it points to. Items differ in
length, so a sector may be full before `Room` entries. A write takes a step for every
write to the flash that a power cut can be told apart by; an index or a header that
was cut off is `torn`. `flag` and `entries` survive; `call`, `pc` and the rest are lost.
The saves in `SwitchCfg`, `Ota` and `Reports` are single steps: that is what `NvItems`
promises them.

## 3. Runs

`Sensor` as a whole has too many states for TLC with a radio and an enrollment, so
`Sensor_parts` takes in each behaviour one part of its actions, unchanged;
`SensorProofs` proves the same safety properties for the whole.

| Run | Question | Bounds and why |
|---|---|---|
| `Sensor_parts` | does the controller see what inputs settle at with a network, is the siren in step, does the coordinator get exactly the notifications without a zone id, does the controller learn the newest status, do the battery values agree, is a press handled to its end, does a reset need a held key? | behaviours of the inputs (with enrollment and settings) or of button and battery, each with the network and restarts. `Debounce = 3`: a counter has a place between its ends (32 in the code); `MaxAir = 1`, so that a pass that publishes twice is lost in part; one controller and one zone id, written at any time; one action, on-off reversed; readings at 6.8 V and 8.3 V, on both sides of the limit; the press counter wraps at 3 |
| `Loop_passes` | is anything half done, or armed wrongly, in sleep; does each bit show its source; is a steady input noticed and a press finished? | all places of the loop; the product of key, pins, network and thirty minutes is too large, so in a behaviour the key stays and the timer is not started, or the pins stay, or key and network stay; no notifications, which are not the question |
| `Timer_passes` | do pool, list, handles and the loop agree; is a timer called early, late through the sleep, or forgotten? | two slots and three users, so that the pool is exhausted; users `max` and `min` with handles and `steer` without; periods of 1 and 3 ms, a millisecond of 2 ticks: remainders occur, two timers can be due in either order, and the longer one sleeps and passes several times before it is due; at most one tick between passes (`MaxGap`); a tick counter of 11 values, longer than any sleep here (all timers are `Short`), and wrapping. The invariants and `TimeInv`, on which the proofs rest, were also checked with periods of 1 and 4 ms and a counter of 13 |
| `Network_tries` | does a device without a network keep trying, does steering end, does it come back, does it go to sleep? | one attempt of the key exchange, one timer waiting to steer, one of the key exchange beside the one a reset forgot, one unanswered descriptor, and a timer or the ZDO comes only while fewer than two tasks wait. `CommInv`, on which the proofs rest, was also checked with two each |
| `Ota_client` | is there always a whole image to boot, is `FlashSlots` implemented, when does the client fall silent? | three versions, one shipped and two offered (alike, hence the symmetry; all properties of the run are safety properties); images of two cells, saved every two blocks, block and end requests are counted to two, so that a retry and the giving up both happen; an address request is given up at its first timeout (the run also holds with `AddrRetries = 2`, in nearly twice the states, and the safety theorems cover every value); a message comes only while fewer than two tasks wait |
| `Reports_entry` | is the minimum kept, does a report come again and again, is a change reported? | the clock wraps after four units; eight pairs of limits: no minimum, a maximum below and above the wrap, equal limits, a minimum as long as the wrap, one above its maximum, and "not reported" |
| `Led_users` | is the LED left on, does a blink have its flashes, does identification end? | a byte of five values, identify times up to six, so that one does not fit; effects of one, two and four flashes |
| `Nv_cuts` | does an item hold its last write, whatever the power cuts off? | two items with two values, and room for three entries: sectors change all the time, and a sector with a cut off write and both items is full |

Deadlock is checked in all runs: some action is always enabled.

What `Network_tries` names: a device without a network stops trying after a leave (the
restart is commented out, `zb_appCb.c:388-396`), after a start that another event of the
state INIT has swallowed, after a steering that succeeded although the parent was lost
meanwhile, and when the backoff ends with the network forgotten. What `Ota_client`
names: the client falls silent by a timer that was started for something that is over,
in the callback that gives up the address of the server (the comment at `ota.c:634-640`
warns of exactly this), at an end that does not restart the device, as the image
is refused or its start flag does not read back, and without a buffer.

Four runs state what the documentation says and are violated by the code:

| Run | Documentation | Code |
|---|---|---|
| `Sensor_unreported` | README.md:19, ALARM1 changes on smoke | smoke that settles without a network is never shown, also not after joining |
| `Sensor_toggle` | README.md:21, command on detection of smoke | one noisy sample makes the counter go 1, 2, 1, which sends the "clear" command: a Toggle switches the siren on |
| `Loop_deep` | README.md:135, a detection of smoke ends the deep sleep | thirty minutes without a network end in the deep sleep whatever the counters are at, and arm the pads for a change of the present level: smoke that a pass has begun to count is waited for to end |
| `Network_held_key` | README.md:27, hold the key for two seconds to join | the reset's own event may come second to one that was in the queue; the device then waits for another key |

Behaviours met while modelling, without a run of their own:

* Of the three commands that write the switch settings one saves them
  (`zcl_appCb.c:97-120`, against README.md:22). `ota_processing` is set at the start
  of a download and never cleared (`zb_appCb.c:342`, against README.md:138). The five
  presses of README.md:29, which restart the device, have no code at all.
* Zone attributes are not in NV and the enroll response code is not looked at: an
  enroll response after a restart, without a new address write, enrolls the zone at
  the zero address. An enrollment survives leaving the network.
* An edge of an input between its sample and the arming of its pad is waited for in the
  wrong direction (`racy` in `SettledInputIsArmed`), so that the smoke of README.md:116-122
  does not end the retention sleep; the next timer does (`SteadyInputIsNoticed`).
* A timer scheduled in the pass that ends in a sleep of more than 268 s is charged
  that much too little (`ev_timer.c:238-239`); the tick counter of `Timer_passes` is
  longer than any sleep there, and `SleepEndsInTime` is about timers that fit (`Short`).
* A sleep charges the timers that run its own milliseconds only, and not the time the
  MCU was awake since the last pass; that comes with the next pass, together with the
  part of a millisecond by which `prevSysTick` is set back (`drv_pm.c:427`). For a timer
  the sleep was the first to charge both were counted already, up to the tick: it may
  be called more than one millisecond early, but never two (`NeverEarly`). A new timer
  lags behind the others while no millisecond is full, so after a sleep one that is
  longer may pass for the nearest, by no more than `MaxGap` (`SleepEndsInTime`).
* OTA: a download that starts over erases the slot but not the saved progress of an
  older version; if that is offered again after a power cut, the download is complete
  at once, with erased cells, and the restart is refused. The end of a download does
  not always lead to a restart. The short address of the server is not recovered.
* Reporting: a command for two attributes stops the timers of the first only;
  a minimum above the maximum is accepted, and then nothing is reported; a maximum of
  0, the default, reports changes without regard to the minimum; a minimum near the
  wrap of the clock makes the Max timer skip a report or send one too early; a Min
  timer that ends without a network takes the value as reported.
* LED: the heartbeat cuts the identification of a joined device short every 5 s; a
  start in the last pause of another blink has one flash less; a time of 256 s or
  more is cut to a byte, and one whose byte is 0 blinks 256 times.
* Commissioning: the key timer that a reset forgot may take a device that has joined
  anew off the network; a node descriptor that comes after the exchange makes the BDB
  forget that it is on a network, which is then not saved.
* NV: a write that was cut off when the other sector was ready already, or the
  contents that sector held before, come back when a reset of the module is itself cut
  off between its two erases. This is `late` in `NvItems`; nothing else comes back.

## 4. Fairness

* `SliceSpec` (`Loop_passes`): weak fairness of the steps of the processor, of the
  timer that ends a sleep, and of the clock of the button. The processor does not
  stop in a pass, and the hourly battery timer always exists. Nothing is assumed of
  pins, key, radio or network. `SteadyInputIsNoticed` is about devices that are joined
  and inputs that are active from some time on; `ButtonSettles` about a key nobody
  presses any more.
* `FairSpec` (`EvTimer`): weak fairness of the steps of a pass and of its end, and
  strong fairness of the clock, because the model stops the clock while a pass is
  through the list. `TimersComeDue` then needs the remainders to be counted: an awake
  main loop is faster than a millisecond. It does not assume that the device sleeps
  or that users leave the timers alone.
* `InTimeSpec` (`Commissioning`): weak fairness of the task queue and of each timer, of
  an answer of the ZDO (it joins or fails) and of the leave; strong fairness of a join
  when there is a network to be found, of the answers to requests and of the thirty
  minutes, whose condition comes and goes. Since the model gives timers no length,
  `InTime` keeps those of five seconds and more out of what takes milliseconds, and
  the minute of the backoff out of a steering; otherwise a minute could pass again and
  again before a task that is already in the queue. The properties assume that nobody
  resets or restarts the device for ever; a backoff of 60 s and a retry of 60 s can
  keep the stack from rest for ever, so `GoesToSleep` assumes rest again and again.
* `ReportsSpec`: weak fairness of the two timers, strong fairness of `report_handler`
  and of the clock: between two hourly measurements there are many passes, and time
  goes on in all of them. `LedSpec`: weak fairness of the identify timer.
* `PartSpec`, `OtaSpec` and `NvSpec` have none: their properties are safety properties.
  `AskingGoesOn` is an action property that says when the client falls silent; whether
  a server ever answers is not up to the device.

## 5. Proofs

All proofs are for every value of the constants that the named assumptions of the
modules allow. Each has an inductive invariant with a lemma per action.

`SensorProofs` proves type correctness, `ZoneTracksSources`, `ToldWhenQuiet`,
`NotesAddressedAsEnrolled`, `ControllerSeesInputs`, `SirenFollowsSmoke`, `BatteryAgrees`,
`BusyHasAnEnd` and the action property `ResetNeedsHeldKey`. The invariant `IInv` is
stated about the record `ZoneIO`, so that one lemma (`Settled`) covers every
publication and handlers that publish twice apply it twice. It strengthens the
properties where they are not inductive:

* `ToldWhenQuiet` speaks of an empty `air`; `Informs` adds that otherwise the
  newest notification carries the current status.
* `NotesAddressedAsEnrolled` needs `EnrolledHasId`: zone state and zone id are only
  ever set together.
* `BatteryAgrees` needs `Tracks` for the battery, which is never `missed`, and
  `MeasurementStored`: the attributes show the level last published. That in turn
  needs the arithmetic of a measurement (`Arithmetic`): no reading below 8 V and no
  calibration byte overflows, and the level is 0 exactly up to the limit.
* `ControllerSeesInputs` joins three of its parts: a counter at an end agrees with the
  level the input last settled at, published or not (`SettledAtTheEnds`), a source that
  settled with a network is shown by its bit (`ZoneTracksSources`), and a quiet radio
  means that the status is known (`ToldWhenQuiet`).
* `SirenFollowsSmoke` needs `SettledAtTheEnds` only in the step of the inputs, which
  settle at the level of the pin (`Counting`).

`MainLoopProofs` proves `LoopImplementsSensor`: every step of the loop is a step of
`Sensor` or leaves its variables alone, so `IInv` and all theorems above hold of the
loop. On top of it, `LoopTypeOK`, `NothingPendingAsleep` and `SettledInputIsArmed`, from
`LoopInv`: from the sleep condition to the end of the sleep inputs and button are at
rest (`AtRest`), `racy` is exactly the inputs that changed behind the sample
(`RacyIsExact`), and the pads of the others are armed against their level.

`EvTimerProofs` proves type correctness, `PoolAgrees`, `HandlesNameTimers`,
`CursorIsScheduled`, `SleepEndsInTime` and `NeverEarly`, for any pool size, users,
periods, length of a millisecond, gap between passes and tick counter. `IInv` says
that the record is `Sound`, and that the cursor is on the list and NULL outside of the
loop. `Sound` adds that users without a handle have NULL in it, which is why cancelling
them does nothing. There is one lemma per operation on the record; a callback is
`BodyKeeps` followed by `Returned`, and the step of the loop follows from `AfterFacts`.

The two properties about time need `TimeInv`, which is inductive together with `IInv`.

* `Counted` is `NeverEarly` with what is still to be charged: for a timer that runs, what
  was charged, plus the remainder, plus the ticks since the last pass, is at most its age
  and two milliseconds less two ticks. Passes only move ticks from the second and third
  to the first. The first charge of a timer covers its whole age, so that what it still
  has to come was counted already: the remainder, less than a millisecond, and after a
  sleep the part of a millisecond that `prevSysTick` was set back by. For a timer that
  does not run yet it says that its tick is no older than the timer.
* Before a sleep the nearest timer is the one due first (`Exact`), or a sleep has charged
  something since a pass last looked for it, and then all timers run (`Close`): those are
  charged alike and keep their distance. In the sleep itself a new timer is charged at
  most `MaxGap` more than the others, or else the next pass has a millisecond to charge
  and looks again. This takes a bound on how far the tick of a new timer lies back, the
  other half of `Counted`: `rem * (MaxGap + 1)`, as each sleep that charges nothing adds
  a tick or more to the remainder, after at most `MaxGap` ticks awake. The elapsed time
  must not wrap, hence `Short`.

Products of ticks and periods are not linear; `DivMod`, `DivBelow` and a few others state
what the steps need of them, and are proved from the definitions of division.

`CommissioningProofs` proves `CommTypeOK` and `TriesOnUnlessAstray` for any number of
attempts and any queue. What counts as a try depends on the state of the BDB, since an
event that ends a try in one state is ignored in another: `CommInv` has one condition
per state of what must be under way in it (`GoesOn`).

`OtaProofs` proves that `FlashSlots` never runs out of a flagged whole image
(`SlotsSound`), that the client implements it (`OtaImplementsSlots`), and so
`AlwaysBootable` and that the slot the ROM would boot is never written
(`OtaRunningUntouched`), for any number of versions, blocks and retries. Nothing of the
client's own state is needed for this (`Sound`): a handler may do with the idle slot
what it likes, as long as the start flag goes on after a whole check.

`OtaTypeOK` and `AskingGoesOn` need the client's state. Types alone are not inductive: an
offset stays in its range because a download in progress is never ahead of what it has
stored and knows its version, and because what comes after it has the whole image
(`Consistent`); only a download pauses, which is what makes a pause that outlives it the
one exception of its kind. `Asks` is `AskingGoesOn` for one step; each handler has a lemma
that it leaves a timer, a task or one of the listed cases, and keeps the client `Good`.

`ReportsProofs` proves `ReportsTypeOK`, `TimersFit` and `MinimumKept` for any finite or
infinite set of limits with a longest minimum, and any wrap. The invariant relates both
timers to the limits and to the time of the last report.

`LedProofs` proves `LedTypeOK`, `NeverLeftOn` and `EndsAsAsked` for bytes and times of
any size. `Owed` is what they lack: the flashes a blink still owes and those it has done
make up what was asked for.

`NvStoreProofs` proves `NvTypeOK` and `StoreImplementsItems`, that the driver implements
`NvItems`, for any items, values and room. `NvInv` says for each step of the driver what
the sector it works at holds already (`CopiedTo` for the copy, `OthersFit`, `ItemFits`)
and which of the two a start would choose (`FlagsFit`). A lookup takes the newest valid
entry; that it never misses one that is there is carried along as an invariant
(`Findable`), as it would take an induction over the index to derive. A step then either
leaves what lookups find (`SameView`) or is one of the abstract ones: closing the index
takes effect where reads look already, setting the new sector ready or the old one
invalid where the sector changes.

Every safety invariant and action property of a passing run is stated by a theorem. Only
model-checked: liveness (`SteadyInputIsNoticed`, `ButtonSettles`, `TimersComeDue`,
`SteeringEnds`, `ComesBack`, `GoesToSleep`, `StaysInTouch`, `ChangeIsReported`,
`IdentifyEnds`), which is out of the prover's reach together with ENABLED, and the four
disagreements with the documentation, which are counterexamples.

## 6. Not modelled

* Of the NV driver: the frame counter (`nv_nwkFrameCount*`), which only the closed
  network layer calls; its repair skips the second word of a sector (`drv_nv.c:1003`).
  `nv_flashSingleItemRemove`, which nothing in this firmware calls. Flash that fails or
  decays, and an item whose length changes. A flag of two bytes of which one is
  written: it would be neither ready nor valid, and the contents lost. The flag that
  lets `nv_resetToFactoryNew` be repeated after a restart.
* The registration of callbacks in `user_init`; of `drv_pm.c` what this build does not
  call. Errors of the NV writes of the settings (`app_endpoint_cfg.c:286` ignores them).
* OTA files with several elements or encryption, and the server half of `ota.c`.
* The closed libraries (ZDO, NWK, APS, MAC) but for their interface; the rest of the
  ZCL foundation (parsing, discovery); green power and WWAH; other drivers, seven
  other chips, boot loader and sample applications of the SDK.
* `factory_reset.c` and `firmwareEncryptChk.c`, which are not part of the built
  firmware; poll control, scenes, find-and-bind, touchlink and formation, which are
  compiled out.

The models map a small share of the lines of the repository, because almost all of it
is SDK source for chips, clusters and device roles that this firmware does not have.

Next, in this order: a length for the timers of `Commissioning`, so that `InTime` is not
needed; the composition of `Commissioning` with `Sensor`, in place of its free joins and
leaves; the frame counter of the NV driver; the saves of `SwitchCfg`, `Ota` and `Reports`
as instances of `NvItems`.
