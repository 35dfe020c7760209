------------------------------ MODULE MCMainLoop ------------------------------
(***************************************************************************)
(* Instances of MainLoop for TLC.  The product of the key, the pins, the   *)
(* network and the timer of thirty minutes is too large, so in each        *)
(* behaviour some of them stay as they are: the key, while pins and        *)
(* network change and the timer is not started; the pins; or key and       *)
(* network, while the timer runs out over moving pins.                     *)
(***************************************************************************)
EXTENDS MainLoop

VARIABLE still  \* what stays

Stays ==
  /\ still \in {"key", "network"} => UNCHANGED buttonVars
  /\ still = "key" => UNCHANGED noJoined
  /\ still = "pins" => UNCHANGED pin
  /\ still = "network" => UNCHANGED joined
  /\ UNCHANGED still

Slice(A) == A /\ Stays

SliceInit == LoopInit /\ still \in {"key", "pins", "network"}

(* The fairness of the processor: it does not stop in a pass, its clock    *)
(* does not stop, and the timers end every sleep.                          *)
SliceSpec ==
  /\ SliceInit
  /\ [][Slice(LoopNext)]_<<allVars, still>>
  /\ WF_allVars(Slice(LoopStep))
  /\ WF_allVars(Slice(WakeByTimer)) /\ WF_allVars(Slice(ClockRuns))
=============================================================================
