------------------------------ MODULE ReportsProofs ------------------------------
(***************************************************************************)
(* Proofs about Reports: whatever the limits are and wherever the clock    *)
(* wraps, the timers of an entry are those of its limits, and two reports  *)
(* are not closer than the minimum.                                        *)
(***************************************************************************)
EXTENDS Reports, TLAPS

(* The timers belong to the limits; a Max timer runs only beside a longer  *)
(* maximum.                                                                *)
MinFits ==
  Running(timer.min) => HasMaximum /\ timer.min.period = limits.min
MaxFits ==
  Running(timer.max) =>
    HasMaximum /\ timer.max.period = limits.max /\ limits.min < limits.max

(* When the Min timer is due, the last report is its period ago.           *)
MinTimerIsLate == Running(timer.min) => limits.min <= since + timer.min.left

(* When the Max timer is due, the last report is the minimum ago, unless   *)
(* it is what time_posted tells of, or its own one, a maximum ago.         *)
MaxTimerIsLate ==
  Running(timer.max) =>
    \/ posted <= since
    \/ limits.min <= since
    \/ limits.max <= since + timer.max.left

Kept == (HasMaximum /\ limits.min < Wrap) => ~early

Fitting == MinFits /\ MaxFits /\ MinTimerIsLate /\ MaxTimerIsLate /\ Kept

ReportsInv == ReportsTypeOK /\ (~followed => Fitting)

-----------------------------------------------------------------------------
(* The bound of the history is a number that no minimum exceeds.           *)
LEMMA LongestIsLongest ==
  Longest \in Nat /\ \A l \in Limits : l.min <= Longest
<1> DEFINE Minima == {l.min : l \in Limits}
<1>1. PICK n \in Minima : \A l \in Limits : l.min <= n
  BY ReportsAssumption
<1>2. Longest \in Minima /\ \A l \in Limits : l.min <= Longest
  BY <1>1 DEF Longest
<1>3. Minima \subseteq Nat
  BY ReportsAssumption
<1> QED BY <1>2, <1>3

LEMMA LimitsAreNumbers ==
  ASSUME ReportsTypeOK
  PROVE  limits.min \in Nat /\ limits.max \in Nat
BY ReportsAssumption DEF ReportsTypeOK

(* The parts of the type that the proofs below need. *)
LEMMA Numbers ==
  ASSUME ReportsTypeOK
  PROVE  /\ timer = [min |-> timer.min, max |-> timer.max]
         /\ timer.min = [left |-> timer.min.left, period |-> timer.min.period]
         /\ timer.max = [left |-> timer.max.left, period |-> timer.max.period]
         /\ {timer.min.left, timer.min.period} \subseteq Nat
         /\ {timer.max.left, timer.max.period} \subseteq Nat
         /\ posted \in Nat /\ posted < Wrap
BY ReportsAssumption DEF ReportsTypeOK

(* A report leaves the history what it is. *)
LEMMA ReportTypes ==
  ASSUME ReportsTypeOK, reportAttr \/ NoReport
  PROVE  since' \in Nat /\ changed' \in BOOLEAN /\ early' \in BOOLEAN
<1>1. since \in Nat /\ changed \in BOOLEAN /\ early \in BOOLEAN
  BY DEF ReportsTypeOK
<1>2. (since < limits.min) \in BOOLEAN
  BY <1>1, LimitsAreNumbers
<1>3. CASE reportAttr
  <2>1. since' \in Nat
    BY <1>1, <1>3 DEF reportAttr
  <2>2. changed' \in BOOLEAN
    BY <1>3, ZenonT(20) DEF reportAttr
  <2>3. early' \in BOOLEAN
    BY <1>1, <1>2, <1>3, ZenonT(20) DEF reportAttr
  <2> QED BY <2>1, <2>2, <2>3
<1>4. CASE NoReport
  BY <1>1, <1>4 DEF NoReport
<1> QED BY <1>3, <1>4

(* A report that is not closer than the minimum is none that came early. *)
LEMMA LateReport ==
  ASSUME ReportsTypeOK, limits.min <= since, reportAttr \/ NoReport
  PROVE  early' = FALSE \/ early' = early
<1>1. (since < limits.min) = FALSE
  BY LimitsAreNumbers DEF ReportsTypeOK
<1>2. CASE reportAttr /\ bound
  <2>1. early' = (since < limits.min)
    BY <1>2, ZenonT(20) DEF reportAttr
  <2> QED BY <1>1, <2>1, ZenonT(20)
<1>3. CASE (reportAttr /\ ~bound) \/ NoReport
  BY <1>3, ZenonT(20) DEF reportAttr, NoReport
<1> QED BY <1>2, <1>3

-----------------------------------------------------------------------------
(* Each action keeps the invariant.                                        *)

LEMMA InitHolds == ReportsInit => ReportsInv
<1> SUFFICES ASSUME ReportsInit PROVE ReportsInv
  OBVIOUS
<1> USE ReportsAssumption DEF ReportsInit
<1>1. ReportsTypeOK
  <2>1. /\ timer = [min |-> [left |-> 0, period |-> 0],
                    max |-> [left |-> 0, period |-> 0]]
        /\ posted \in 0 .. Wrap - 1 /\ since \in Nat /\ limits \in Limits
    BY LongestIsLongest DEF NoTimer
  <2>2. {changed, bound, open, early, followed} \subseteq BOOLEAN
    BY ZenonT(20)
  <2> QED BY <2>1, <2>2 DEF ReportsTypeOK
<1>2. Fitting
  BY DEF Fitting, MinFits, MaxFits, MinTimerIsLate, MaxTimerIsLate, Kept,
         Running, NoTimer
<1> QED BY <1>1, <1>2 DEF ReportsInv

LEMMA MinTimerHolds ==
  ASSUME ReportsInv, MinTimer
  PROVE  ReportsInv'
<1> USE Numbers, LimitsAreNumbers DEF ReportsInv
<1>1. /\ timer'.min = [left |-> timer.min.period, period |-> timer.min.period]
      /\ timer'.max = timer.max
      /\ timer' = [min |-> timer'.min, max |-> timer'.max]
  BY DEF MinTimer, Again
<1>2. Running(timer.min) /\ timer.min.left = 0
  BY DEF MinTimer, Due
<1>3. UNCHANGED <<limits, bound, open, followed>>
  BY DEF MinTimer
<1>4. \/ reportAttr /\ posted' = 0
      \/ NoReport /\ UNCHANGED posted
  BY DEF MinTimer
<1>5. since' \in Nat /\ changed' \in BOOLEAN /\ early' \in BOOLEAN
  BY <1>4, ReportTypes
<1>6. ReportsTypeOK'
  BY <1>1, <1>3, <1>4, <1>5, ReportsAssumption DEF ReportsTypeOK
<1>7. ASSUME ~followed PROVE Fitting'
  <2> USE <1>7 DEF Fitting, Running
  <2>1. MinFits' /\ MaxFits'
    BY <1>1, <1>3 DEF MinFits, MaxFits, HasMaximum
  <2>2. limits.min <= since /\ timer.min.period = limits.min
    BY <1>2 DEF MinFits, MinTimerIsLate, ReportsTypeOK
  <2>3. MinTimerIsLate'
    BY <1>1, <1>3, <1>5, <2>2 DEF MinTimerIsLate
  <2>4. MaxTimerIsLate'
    BY <1>1, <1>3, <1>4, <1>5 DEF MaxTimerIsLate, reportAttr, NoReport, ReportsTypeOK
  <2>5. early' = FALSE \/ early' = early
    BY <1>4, <2>2, LateReport
  <2>6. Kept'
    BY <1>3, <2>5 DEF Kept, HasMaximum
  <2> QED BY <2>1, <2>3, <2>4, <2>6
<1> QED BY <1>3, <1>6, <1>7

LEMMA MaxTimerHolds ==
  ASSUME ReportsInv, MaxTimer
  PROVE  ReportsInv'
<1> USE Numbers, LimitsAreNumbers DEF ReportsInv
<1>1. /\ timer'.max = [left |-> timer.max.period, period |-> timer.max.period]
      /\ timer'.min = timer.min \/ timer'.min = [left |-> 0, period |-> 0]
      /\ timer' = [min |-> timer'.min, max |-> timer'.max]
  BY DEF MaxTimer, Again, NoTimer
<1>2. Running(timer.max) /\ timer.max.left = 0
  BY DEF MaxTimer, Due
<1>3. UNCHANGED <<limits, posted, bound, open, followed>>
  BY DEF MaxTimer
<1>4. \/ /\ reportAttr /\ posted > limits.min % Wrap
         /\ timer'.min = [left |-> 0, period |-> 0]
      \/ NoReport /\ timer'.min = timer.min
  <2>1. CASE posted > limits.min % Wrap
    <3>1. timer' = [Again("max") EXCEPT !.min = NoTimer] /\ reportAttr
      BY <2>1 DEF MaxTimer
    <3> QED BY <2>1, <3>1 DEF Again, NoTimer
  <2>2. CASE ~(posted > limits.min % Wrap)
    BY <2>2 DEF MaxTimer, Again
  <2> QED BY <2>1, <2>2
<1>5. since' \in Nat /\ changed' \in BOOLEAN /\ early' \in BOOLEAN
  BY <1>4, ReportTypes
<1>6. ReportsTypeOK'
  BY <1>1, <1>3, <1>5, ReportsAssumption DEF ReportsTypeOK
<1>7. ASSUME ~followed PROVE Fitting'
  <2> USE <1>7 DEF Fitting, Running
  <2>1. MinFits' /\ MaxFits'
    BY <1>1, <1>3 DEF MinFits, MaxFits, HasMaximum
  <2>2. MinTimerIsLate'
    BY <1>1, <1>3, <1>4 DEF MinTimerIsLate, NoReport
  <2>3. MaxTimerIsLate'
    BY <1>1, <1>3, <1>5, <1>2 DEF MaxTimerIsLate, MaxFits
  <2>4. ASSUME limits.min < Wrap, reportAttr, posted > limits.min % Wrap
        PROVE  limits.min <= since
    <3>1. limits.min % Wrap = limits.min
      BY <2>4, ReportsAssumption
    <3> QED BY <1>2, <2>4, <3>1 DEF MaxFits, MaxTimerIsLate, ReportsTypeOK
  <2>5. ASSUME limits.min < Wrap PROVE early' = FALSE \/ early' = early
    <3>1. CASE reportAttr /\ posted > limits.min % Wrap
      BY <2>4, <2>5, <3>1, LateReport
    <3>2. CASE NoReport
      BY <3>2 DEF NoReport
    <3> QED BY <1>4, <3>1, <3>2
  <2>6. Kept'
    BY <1>3, <2>5 DEF Kept, HasMaximum
  <2> QED BY <2>1, <2>2, <2>3, <2>6
<1> QED BY <1>3, <1>6, <1>7
(* The timers that the handler starts fit; those that run stay. *)
LEMMA StartedFits ==
  ASSUME ReportsTypeOK
  PROVE  \A t :
           LET new == Started(t) IN
           (/\ t = [min |-> t.min, max |-> t.max]
            /\ t.min = [left |-> t.min.left, period |-> t.min.period]
            /\ t.max = [left |-> t.max.left, period |-> t.max.period])
           => /\ new = [min |-> new.min, max |-> new.max]
              /\ \/ new.min = t.min
                 \/ /\ new.min = [left |-> limits.min, period |-> limits.min]
                    /\ open /\ bound /\ HasMaximum /\ ~Running(t.min)
              /\ \/ new.max = t.max
                 \/ /\ new.max = [left |-> limits.max, period |-> limits.max]
                    /\ HasMaximum /\ limits.min < limits.max
                    /\ ~Running(t.max)
BY DEF Started, Starting, HasMaximum

(* What is started at a time when the last report is not due yet: a Min    *)
(* timer is not due before the minimum, a Max timer not before the         *)
(* maximum.                                                                *)
LEMMA StartTimersHolds ==
  ASSUME ReportsInv, StartTimers
  PROVE  ReportsInv'
<1> USE Numbers, LimitsAreNumbers DEF ReportsInv
<1>1. /\ timer' = [min |-> timer'.min, max |-> timer'.max]
      /\ \/ timer'.min = timer.min
         \/ /\ timer'.min = [left |-> limits.min, period |-> limits.min]
            /\ HasMaximum
      /\ \/ timer'.max = timer.max
         \/ /\ timer'.max = [left |-> limits.max, period |-> limits.max]
            /\ HasMaximum /\ limits.min < limits.max
  BY StartedFits DEF StartTimers
<1>2. UNCHANGED <<limits, changed, posted, bound, open, since, early, followed>>
  BY DEF StartTimers, NoReport
<1>3. ReportsTypeOK'
  BY <1>1, <1>2 DEF ReportsTypeOK
<1>4. ASSUME ~followed PROVE Fitting'
  <2> USE <1>4 DEF Fitting, Running
  <2>1. since \in Nat
    BY DEF ReportsTypeOK
  <2>2. MinFits' /\ MaxFits'
    BY <1>1, <1>2 DEF MinFits, MaxFits, HasMaximum
  <2>3. MinTimerIsLate'
    BY <1>1, <1>2, <2>1 DEF MinTimerIsLate
  <2>4. MaxTimerIsLate'
    BY <1>1, <1>2, <2>1 DEF MaxTimerIsLate
  <2>5. Kept'
    BY <1>2 DEF Kept, HasMaximum
  <2> QED BY <2>2, <2>3, <2>4, <2>5
<1> QED BY <1>2, <1>3, <1>4

(* A report without a minimum is never early; time_posted tells of it. *)
LEMMA ReportAtOnceHolds ==
  ASSUME ReportsInv, ReportAtOnce
  PROVE  ReportsInv'
<1> USE Numbers, LimitsAreNumbers DEF ReportsInv
<1> DEFINE before ==
      IF limits.max > 0
      THEN [timer EXCEPT !.max = Starting(limits.max)] ELSE timer
<1>1. /\ before = [min |-> timer.min, max |-> before.max]
      /\ before.max = [left |-> before.max.left, period |-> before.max.period]
      /\ limits.max > 0 =>
           before.max = [left |-> limits.max, period |-> limits.max]
      /\ limits.max = 0 => before.max = timer.max
  BY DEF Starting
<1>2. timer' = Started(before)
  BY DEF ReportAtOnce
<1>3. /\ UNCHANGED <<limits, bound, open, followed>> /\ reportAttr
      /\ posted' = 0
      /\ limits.max = 0 \/ (limits.max # Off /\ limits.min = 0)
  BY DEF ReportAtOnce, ReportsNow, NoMinLimit
<1> HIDE DEF before
<1>4. /\ timer' = [min |-> timer'.min, max |-> timer'.max]
      /\ \/ timer'.min = timer.min
         \/ /\ timer'.min = [left |-> limits.min, period |-> limits.min]
            /\ HasMaximum
      /\ \/ timer'.max = timer.max /\ limits.max = 0
         \/ /\ timer'.max = [left |-> limits.max, period |-> limits.max]
            /\ limits.max > 0
  BY <1>1, <1>2, StartedFits DEF HasMaximum
<1>5. since' \in Nat /\ changed' \in BOOLEAN /\ early' \in BOOLEAN
  BY <1>3, ReportTypes
<1>6. ReportsTypeOK'
  BY <1>3, <1>4, <1>5, ReportsAssumption DEF ReportsTypeOK
<1>7. ASSUME ~followed PROVE Fitting'
  <2> USE <1>7 DEF Fitting, Running
  <2>1. MinFits'
    BY <1>3, <1>4 DEF MinFits, HasMaximum
  <2>2. MaxFits'
    BY <1>3, <1>4 DEF MaxFits, HasMaximum
  <2>3. MinTimerIsLate'
    BY <1>3, <1>4, <1>5 DEF MinTimerIsLate, MinFits, HasMaximum
  <2>4. MaxTimerIsLate'
    BY <1>3, <1>5 DEF MaxTimerIsLate
  <2>5. CASE HasMaximum
    <3>1. limits.min <= since
      BY <1>3, <2>5 DEF HasMaximum, ReportsTypeOK
    <3>2. early' = FALSE \/ early' = early
      BY <1>3, <3>1, LateReport
    <3> QED BY <1>3, <3>2, <2>1, <2>2, <2>3, <2>4 DEF Kept, HasMaximum
  <2>6. CASE ~HasMaximum
    BY <1>3, <2>6, <2>1, <2>2, <2>3, <2>4 DEF Kept, HasMaximum
  <2> QED BY <2>5, <2>6
<1> QED BY <1>3, <1>6, <1>7

(* Time brings the timers and the last report nearer by the same. *)
LEMMA TickHolds ==
  ASSUME ReportsInv, Tick
  PROVE  ReportsInv'
<1> USE Numbers, LimitsAreNumbers DEF ReportsInv
<1>1. timer' = [min |-> Less(timer.min), max |-> Less(timer.max)]
  BY DEF Tick
<1>2. ASSUME NEW t, t = [left |-> t.left, period |-> t.period],
             ~Due(t), t.left \in Nat, t.period \in Nat, t.left <= t.period
      PROVE  /\ Less(t) = [left |-> Less(t).left, period |-> t.period]
             /\ Running(t) => t.left > 0 /\ Less(t).left = t.left - 1
             /\ ~Running(t) => Less(t) = t
  BY <1>2 DEF Less, Due, Running
<1>3. /\ timer' = [min |-> timer'.min, max |-> timer'.max]
      /\ timer'.min = [left |-> timer'.min.left, period |-> timer.min.period]
      /\ timer'.max = [left |-> timer'.max.left, period |-> timer.max.period]
      /\ Running(timer.min) =>
           timer.min.left > 0 /\ timer'.min.left = timer.min.left - 1
      /\ ~Running(timer.min) => timer'.min = timer.min
      /\ Running(timer.max) =>
           timer.max.left > 0 /\ timer'.max.left = timer.max.left - 1
      /\ ~Running(timer.max) => timer'.max = timer.max
  <2>1. /\ ~Due(timer.min) /\ ~Due(timer.max)
        /\ timer.min.left <= timer.min.period
        /\ timer.max.left <= timer.max.period
    BY DEF Tick, ReportsTypeOK
  <2> QED BY <1>1, <1>2, <2>1
<1>4. /\ UNCHANGED <<limits, changed, bound, open, early, followed>>
      /\ posted' = (posted + 1) % Wrap
      /\ since' = IF since < Longest THEN since + 1 ELSE since
  BY DEF Tick
<1>5. /\ since \in Nat /\ since' \in Nat /\ since <= since'
      /\ limits.min <= since \/ since' = since + 1
  BY <1>4, LongestIsLongest DEF ReportsTypeOK
<1>6. posted' \in Nat /\ posted' < Wrap /\ posted' <= posted + 1
  BY <1>4, ReportsAssumption
<1>7. ReportsTypeOK'
  <2>1. /\ timer' \in [min : [left : Nat, period : Nat],
                       max : [left : Nat, period : Nat]]
        /\ timer'.min.left <= timer'.min.period
        /\ timer'.max.left <= timer'.max.period
    BY <1>3 DEF ReportsTypeOK
  <2>2. posted' \in 0 .. Wrap - 1
    BY <1>6, ReportsAssumption
  <2>3. limits' \in Limits /\ {changed', bound', open', early', followed'} \subseteq BOOLEAN
    BY <1>4 DEF ReportsTypeOK
  <2> QED BY <1>5, <2>1, <2>2, <2>3 DEF ReportsTypeOK
<1>8. ASSUME ~followed PROVE Fitting'
  <2> USE <1>8 DEF Fitting
  <2>1. MinFits' /\ MaxFits'
    BY <1>3, <1>4 DEF MinFits, MaxFits, HasMaximum, Running
  <2>2. MinTimerIsLate'
    BY <1>3, <1>4, <1>5 DEF MinTimerIsLate, Running
  <2>3. MaxTimerIsLate'
    BY <1>3, <1>4, <1>5, <1>6 DEF MaxTimerIsLate, Running
  <2>4. Kept'
    BY <1>4 DEF Kept, HasMaximum
  <2> QED BY <2>1, <2>2, <2>3, <2>4
<1> QED BY <1>4, <1>7, <1>8

(* A command takes the timers away, or has followed another's. *)
LEMMA ConfigureHolds ==
  ASSUME ReportsInv, Configure
  PROVE  ReportsInv'
<1> USE DEF ReportsInv
<1>1. CASE ConfigureFirst
  <2>1. ReportsTypeOK'
    <3>1. timer' = [min |-> [left |-> 0, period |-> 0],
                      max |-> [left |-> 0, period |-> 0]]
      BY <1>1 DEF ConfigureFirst, NoTimer
    <3>2. {changed', bound', open', early', followed'} \subseteq BOOLEAN
      BY <1>1 DEF ConfigureFirst, ReportsTypeOK
    <3>3. posted' \in 0 .. Wrap - 1 /\ since' \in Nat /\ limits' \in Limits
      BY <1>1 DEF ConfigureFirst, ReportsTypeOK
    <3> QED BY <3>1, <3>2, <3>3 DEF ReportsTypeOK
  <2>2. ~early' /\ ~Running(timer.min)' /\ ~Running(timer.max)'
    BY <1>1 DEF ConfigureFirst, Running, NoTimer
  <2> QED BY <2>1, <2>2
          DEF Fitting, MinFits, MaxFits, MinTimerIsLate, MaxTimerIsLate, Kept
<1>2. CASE ConfigureAfterAnother
  <2>1. ReportsTypeOK'
    BY <1>2 DEF ConfigureAfterAnother, ReportsTypeOK
  <2> QED BY <1>2, <2>1 DEF ConfigureAfterAnother
<1> QED BY <1>1, <1>2 DEF Configure

(* After a restart there are no timers. *)
LEMMA ReportsRestartHolds ==
  ASSUME ReportsInv, ReportsRestart
  PROVE  ReportsInv'
<1> USE DEF ReportsInv
<1>1. ReportsTypeOK'
  <2>1. timer' = [min |-> [left |-> 0, period |-> 0],
                    max |-> [left |-> 0, period |-> 0]]
    BY DEF ReportsRestart, NoTimer
  <2>2. {changed', bound', open', early', followed'} \subseteq BOOLEAN
    BY DEF ReportsRestart, ReportsTypeOK
  <2>3. posted' \in 0 .. Wrap - 1 /\ since' \in Nat /\ limits' \in Limits
    BY ReportsAssumption, LongestIsLongest DEF ReportsRestart, ReportsTypeOK
  <2> QED BY <2>1, <2>2, <2>3 DEF ReportsTypeOK
<1>2. ~early' /\ ~Running(timer.min)' /\ ~Running(timer.max)'
  BY DEF ReportsRestart, Running, NoTimer
<1> QED BY <1>1, <1>2
        DEF Fitting, MinFits, MaxFits, MinTimerIsLate, MaxTimerIsLate, Kept

(* The value, the binding and the network are none of the timers' affair. *)
LEMMA SurroundingsHold ==
  ASSUME ReportsInv,
         \/ ValueChanges \/ Bind \/ NetworkChanges \/ UNCHANGED reportVars
  PROVE  ReportsInv'
<1>1. UNCHANGED <<limits, timer, posted, since, early, followed>>
  BY DEF ValueChanges, Bind, NetworkChanges, reportVars
<1>2. {changed', bound', open'} \subseteq BOOLEAN
  <2>1. changed \in BOOLEAN /\ bound \in BOOLEAN /\ open \in BOOLEAN
    BY DEF ReportsInv, ReportsTypeOK
  <2> QED BY <2>1, ZenonT(20) DEF ValueChanges, Bind, NetworkChanges, reportVars
<1>3. ReportsTypeOK'
  BY <1>1, <1>2 DEF ReportsInv, ReportsTypeOK
<1>4. Fitting' <=> Fitting
  BY <1>1 DEF Fitting, MinFits, MaxFits, MinTimerIsLate, MaxTimerIsLate, Kept,
              HasMaximum, Running
<1> QED BY <1>1, <1>3, <1>4 DEF ReportsInv

-----------------------------------------------------------------------------
LEMMA ReportsInvariant == ReportsSpec => []ReportsInv
<1>1. ReportsInv /\ [ReportsNext]_reportVars => ReportsInv'
  BY MinTimerHolds, MaxTimerHolds, StartTimersHolds, ReportAtOnceHolds,
     TickHolds, ConfigureHolds, ReportsRestartHolds, SurroundingsHold
     DEF ReportsNext, report_handler
<1> QED BY <1>1, InitHolds, PTL DEF ReportsSpec

(* The timers, the clock and the history of an entry are what they are     *)
(* meant to be (reportCfgInfo_t, app_reporting.c).                         *)
THEOREM ReportsAreTyped == ReportsSpec => []ReportsTypeOK
<1>1. ReportsInv => ReportsTypeOK
  BY DEF ReportsInv
<1> QED BY <1>1, ReportsInvariant, PTL

(* The timers of an entry are those of its limits, but for the limits that *)
(* came with a command that named another attribute before                 *)
(* (app_zclCfgReportCmd).                                                  *)
THEOREM TimersAlwaysFit == ReportsSpec => []TimersFit
<1>1. ReportsInv => TimersFit
  BY DEF ReportsInv, Fitting, MinFits, MaxFits, TimersFit
<1> QED BY <1>1, ReportsInvariant, PTL

(* Whatever the limits are and wherever the clock wraps, a report is not   *)
(* closer to the one before than a minimum that the clock can measure      *)
(* (app_reportMinAttrTimerCb, app_reportMaxAttrTimerCb).                   *)
THEOREM MinimumIsKept == ReportsSpec => []MinimumKept
<1>1. ReportsInv => MinimumKept
  BY DEF ReportsInv, Fitting, Kept, MinimumKept
<1> QED BY <1>1, ReportsInvariant, PTL

=============================================================================
