--------------------------------- MODULE Reports ---------------------------------
(***************************************************************************)
(* Attribute reporting: an entry of the table of the ZCL (zcl_reporting.c, *)
(* zcl.c) with what the application puts in the place of its reporter: two *)
(* timers per entry and a handler that each pass of the main loop calls    *)
(* (app_reporting.c).                                                      *)
(*                                                                         *)
(* The battery voltage and percentage are the reportable attributes; each  *)
(* has an entry from the start, which is never removed.  The entries have  *)
(* nothing to do with one another but for the commands that name both, so  *)
(* this is any one of them.  Its value is abstracted to whether it differs *)
(* from the one last reported by more than the reportable change.          *)
(*                                                                         *)
(* Time is counted in a unit that the intervals are multiples of.  The     *)
(* clock has 32 bits and wraps after 268.4 s, far less than an interval    *)
(* may be; the product that an interval is compared by wraps with it.      *)
(***************************************************************************)
EXTENDS Naturals

CONSTANTS
  Wrap,     \* after how long the clock wraps
  Default,  \* the limits an entry is made with: minIntDft, maxIntDft
  Limits,   \* those it may have
  Off       \* 0xFFFF: not to be reported

ASSUME ReportsAssumption ==
  /\ Wrap \in Nat \ {0} /\ Off \in Nat \ {0}
  /\ Default \in Limits
  /\ Limits \subseteq [min : Nat, max : Nat]
  /\ \E n \in {l.min : l \in Limits} : \A l \in Limits : l.min <= n

VARIABLES
  limits,   \* minInterval and maxInterval
  changed,  \* the value differs from prevData
  timer,    \* timerReportMinEvt and timerReportMaxEvt
  posted,   \* the clock less time_posted
  bound,    \* the cluster is in the binding table
  open,     \* joined, BDB idle, timerStopReportEvt over: report_handler runs
  since,    \* history: the time since the last report
  early,    \* history: the last report came before its minimum was over
  followed  \* history: the limits came after those of another attribute

reportVars ==
  <<limits, changed, timer, posted, bound, open, since, early, followed>>

(* Bound: since counts no further than the longest minimum. *)
Longest ==
  CHOOSE n \in {l.min : l \in Limits} : \A l \in Limits : l.min <= n

NoTimer == [left |-> 0, period |-> 0]
Starting(period) == [left |-> period, period |-> period]
Running(t) == t.period > 0
Due(t) == Running(t) /\ t.left = 0

ReportsTypeOK ==
  /\ limits \in Limits
  /\ timer \in [min : [left : Nat, period : Nat], max : [left : Nat, period : Nat]]
  /\ timer.min.left <= timer.min.period /\ timer.max.left <= timer.max.period
  /\ posted \in 0 .. Wrap - 1
  /\ since \in Nat
  /\ {changed, bound, open, early, followed} \subseteq BOOLEAN

ReportsInit ==
  /\ limits = Default
  /\ changed \in BOOLEAN
  /\ timer = [min |-> NoTimer, max |-> NoTimer]
  /\ posted = 0
  /\ bound = FALSE /\ open = FALSE
  /\ since = Longest
  /\ early = FALSE /\ followed = FALSE

-----------------------------------------------------------------------------
(* reportAttr, of a bound attribute; it may be asked for without one. *)
reportAttr ==
  /\ changed' = (changed /\ ~bound)
  /\ since' = IF bound THEN 0 ELSE since
  /\ early' = IF bound THEN since < limits.min ELSE early

NoReport == UNCHANGED <<changed, since, early>>

Again(name) == [timer EXCEPT ![name].left = timer[name].period]

(* app_reportMinAttrTimerCb *)
MinTimer ==
  /\ Due(timer.min)
  /\ timer' = Again("min")
  /\ IF changed \/ limits.min = limits.max
     THEN reportAttr /\ posted' = 0
     ELSE NoReport /\ UNCHANGED posted
  /\ UNCHANGED <<limits, bound, open, followed>>

(* Mutant: the report of the maximum leaves the other timer alone. *)
MaxLeavesMin ==
  /\ Due(timer.max)
  /\ IF posted > limits.min % Wrap THEN reportAttr ELSE NoReport
  /\ timer' = Again("max")
  /\ UNCHANGED <<limits, posted, bound, open, followed>>

(* app_reportMaxAttrTimerCb: clock_time_exceed of time_posted and          *)
(* minInterval*1000*1000; time_posted stays.                               *)
MaxTimer ==
  /\ Due(timer.max)
  /\ IF posted > limits.min % Wrap
     THEN reportAttr /\ timer' = [Again("max") EXCEPT !.min = NoTimer]
     ELSE NoReport /\ timer' = Again("max")
  /\ UNCHANGED <<limits, posted, bound, open, followed>>

-----------------------------------------------------------------------------
(* report_handler: app_reportNoMinLimit, then app_reportAttrTimerStart.    *)

NoMinLimit ==
  limits.max = 0 \/ (limits.max # Off /\ limits.min = 0)

ReportsNow == open /\ bound /\ NoMinLimit /\ changed

(* Mutant: only an attribute with a minimum has a Max timer. *)
StartedIfLimited(t) ==
  IF open /\ bound /\ limits.max \notin {0, Off} /\ 0 < limits.min
  THEN [min |-> IF ~Running(t.min) /\ limits.min <= limits.max
                THEN Starting(limits.min) ELSE t.min,
        max |-> IF ~Running(t.max) /\ limits.min < limits.max
                THEN Starting(limits.max) ELSE t.max]
  ELSE t

(* Mutant: none for a minimum that is the maximum. *)
StartedIfLess(t) ==
  IF open /\ bound /\ limits.max \notin {0, Off} /\ limits.min < limits.max
  THEN [min |-> IF ~Running(t.min) /\ 0 < limits.min
                THEN Starting(limits.min) ELSE t.min,
        max |-> IF ~Running(t.max) THEN Starting(limits.max) ELSE t.max]
  ELSE t

(* With a maximum of 0 app_reportAttrTimerStart calls the callback of the  *)
(* Min timer, which then finds nothing left to report.                     *)
Started(t) ==
  IF open /\ bound /\ limits.max \notin {0, Off}
  THEN [min |-> IF ~Running(t.min) /\ 0 < limits.min /\ limits.min <= limits.max
                THEN Starting(limits.min) ELSE t.min,
        max |-> IF ~Running(t.max) /\ limits.min < limits.max
                THEN Starting(limits.max) ELSE t.max]
  ELSE t

ReportAtOnce ==
  /\ ReportsNow
  /\ reportAttr /\ posted' = 0
  /\ timer' = Started(IF limits.max > 0
                      THEN [timer EXCEPT !.max = Starting(limits.max)] ELSE timer)
  /\ UNCHANGED <<limits, bound, open, followed>>

StartTimers ==
  /\ ~ReportsNow
  /\ timer' = Started(timer)
  /\ NoReport /\ UNCHANGED <<limits, posted, bound, open, followed>>

report_handler == ReportAtOnce \/ StartTimers

(* The loop has passed since the last change before it sleeps to the next  *)
(* timer.                                                                  *)
Less(t) == IF Running(t) THEN [t EXCEPT !.left = @ - 1] ELSE t

(* Mutant: the difference of the clock does not wrap. *)
TickWide ==
  /\ ~ReportsNow /\ Started(timer) = timer
  /\ ~Due(timer.min) /\ ~Due(timer.max)
  /\ timer' = [min |-> Less(timer.min), max |-> Less(timer.max)]
  /\ posted' = posted + 1
  /\ since' = IF since < Longest THEN since + 1 ELSE since
  /\ UNCHANGED <<limits, changed, bound, open, early, followed>>

Tick ==
  /\ ~ReportsNow /\ Started(timer) = timer
  /\ ~Due(timer.min) /\ ~Due(timer.max)
  /\ timer' = [min |-> Less(timer.min), max |-> Less(timer.max)]
  /\ posted' = (posted + 1) % Wrap
  /\ since' = IF since < Longest THEN since + 1 ELSE since
  /\ UNCHANGED <<limits, changed, bound, open, early, followed>>

-----------------------------------------------------------------------------
(* ZCL Configure Reporting: zcl_configureReporting for each attribute of   *)
(* the command that is accepted, then app_zclCfgReportCmd, by which the    *)
(* first one that has an entry loses its timers, accepted or not.  The     *)
(* reportable change that comes along may make a value differ, as          *)
(* ValueChanges does.                                                      *)

(* Mutant: a command takes no timers away. *)
ConfigureOnly ==
  /\ limits' \in Limits
  /\ early' = FALSE /\ followed' = FALSE
  /\ UNCHANGED <<changed, timer, posted, bound, open, since>>

ConfigureFirst ==
  /\ limits' \in Limits
  /\ timer' = [min |-> NoTimer, max |-> NoTimer]
  /\ early' = FALSE /\ followed' = FALSE
  /\ UNCHANGED <<changed, posted, bound, open, since>>

ConfigureAfterAnother ==
  /\ limits' \in Limits
  /\ early' = FALSE /\ followed' = TRUE
  /\ UNCHANGED <<changed, timer, posted, bound, open, since>>

Configure == ConfigureFirst \/ ConfigureAfterAnother

(* batteryCb stores another value, or the reported one again. *)
ValueChanges ==
  /\ changed' = ~changed
  /\ UNCHANGED <<limits, timer, posted, bound, open, since, early, followed>>

Bind ==
  /\ bound' = ~bound
  /\ UNCHANGED <<limits, changed, timer, posted, open, since, early, followed>>

NetworkChanges ==
  /\ open' = ~open
  /\ UNCHANGED <<limits, changed, timer, posted, bound, since, early, followed>>

(* The table and the bindings are in the non-volatile memory; the value is *)
(* measured anew, and prevData is that of the last configuration.          *)
ReportsRestart ==
  /\ changed' \in BOOLEAN
  /\ timer' = [min |-> NoTimer, max |-> NoTimer]
  /\ posted' = 0
  /\ open' = FALSE
  /\ since' = Longest
  /\ early' = FALSE /\ followed' = FALSE
  /\ UNCHANGED <<limits, bound>>

ReportsNext ==
  \/ report_handler \/ MinTimer \/ MaxTimer \/ Tick
  \/ Configure \/ ValueChanges \/ Bind \/ NetworkChanges \/ ReportsRestart

(* The value is measured once an hour: between two measurements the loop   *)
(* passes, and time goes by.                                               *)
ReportsFairness ==
  /\ SF_reportVars(report_handler) /\ SF_reportVars(Tick)
  /\ WF_reportVars(MinTimer) /\ WF_reportVars(MaxTimer)

ReportsSpec == ReportsInit /\ [][ReportsNext]_reportVars /\ ReportsFairness

-----------------------------------------------------------------------------
HasMaximum == limits.max \notin {0, Off}

(* The timers are those of the limits, unless these came with a command    *)
(* that named another attribute before (zcl_appCb.c:228-242).              *)
TimersFit ==
  ~followed =>
    /\ Running(timer.min) => HasMaximum /\ timer.min.period = limits.min
    /\ Running(timer.max) => HasMaximum /\ timer.max.period = limits.max

(* Two reports of an attribute that has a maximum are not closer to one    *)
(* another than its minimum, whichever timers they come from, while the    *)
(* minimum is less than what the clock can measure (app_reporting.c:85).   *)
MinimumKept ==
  (~followed /\ HasMaximum /\ limits.min < Wrap) => ~early

(* While it is bound, with a network, and not configured again, ...        *)
Undisturbed == <>[](open /\ bound /\ ~followed) /\ <>[][~Configure]_reportVars

(* ... an attribute that has a maximum is reported again and again, ...    *)
StaysInTouch ==
  (Undisturbed /\ <>[](HasMaximum /\ limits.min <= limits.max))
    => []<>(since = 0)

(* ... and a value that differs is, with a maximum or without one.         *)
ChangeIsReported ==
  (Undisturbed /\ <>[](limits.max # Off
                       /\ (limits.max = 0 \/ limits.min <= limits.max)))
    => []<>~changed
=============================================================================
