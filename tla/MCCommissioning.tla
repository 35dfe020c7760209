---------------------------- MODULE MCCommissioning ----------------------------
(***************************************************************************)
(* Instances of Commissioning for TLC.                                     *)
(*                                                                         *)
(* Commissioning gives timers no length, so that one of a minute may come  *)
(* before a task that is already in the queue, for ever.  InTimeSpec keeps *)
(* the timers of five seconds and more, the lost parent and the network    *)
(* out of what takes milliseconds (the queue, the 200 ms of bdb_task_delay *)
(* and the start of the key exchange), and the minute of the backoff out   *)
(* of a steering.  The key, the coordinator, a power cycle and the ZDO     *)
(* come at any time.                                                       *)
(***************************************************************************)
EXTENDS Commissioning

Quick == tasks # <<>> \/ timers.delayed # {} \/ timers.keyStart

BackoffInTime == app_rejoinBacckoff /\ ~Quick /\ bdb.state # "STEER"

InTime ==
  /\ (KeyTimer \/ NoJoinedEnds \/ ParentLost \/ ReachChanges) => ~Quick
  /\ app_rejoinBacckoff => BackoffInTime

InTimeSpec ==
  /\ CommInit /\ [][CommNext /\ InTime]_commVars
  /\ CommFairness /\ WF_commVars(BackoffInTime)
=============================================================================
