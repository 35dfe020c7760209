----------------------------- MODULE Commissioning -----------------------------
(***************************************************************************)
(* How the device gets into its network and back to it: the part of the    *)
(* base device behaviour an end device uses (zigbee/bdb/bdb.c), the two    *)
(* callbacks it makes to the application (zb_appCb.c), the timers these    *)
(* start, and the limit of thirty minutes (app_pm.c).                      *)
(*                                                                         *)
(* Everything hangs on events posted to the task queue of the stack and on *)
(* software timers, which run in any order; an event means what the state  *)
(* says at the time it is run.  BDB_EVT_COMMISSIONING_NETWORK_STEER_FINISH *)
(* and BDB_STATE_REJOIN_DONE are one number, and so one event here.        *)
(*                                                                         *)
(* The network layer under it (ZDO) comes as a library: it is modelled     *)
(* from its interface.  It is "busy" while it joins or rejoins, and then   *)
(* confirms that; it tells of a lost parent; it leaves when it is told to, *)
(* and then forgets the network but does not touch the state of the BDB.   *)
(* What the two callbacks do to the poll rate, the reports and the OTA     *)
(* client is in the modules of these.                                      *)
(***************************************************************************)
EXTENDS Naturals, Sequences

CONSTANTS
  KeyAttempts,  \* tcLinkKeyExchangeAttemptsMax
  MaxSteers,    \* bound: timers waiting to steer; they have no handle
  MaxKeyTimers, \* bound: timers of the key exchange; a reset forgets one
  MaxAsked,     \* bound: requests for a node descriptor not answered
  MaxTasks      \* bound: tasks in the queue when a timer or the ZDO comes

ASSUME CommAssumption ==
  {KeyAttempts, MaxSteers, MaxKeyTimers, MaxAsked, MaxTasks} \subseteq Nat \ {0}

VARIABLES
  bdb,    \* g_bdbCtx and g_bdbAttrs
  tasks,  \* the queue of the stack: events of bdb_task and two functions
  timers, \* those of the BDB and of the application
  zdo,    \* "idle" or "busy"
  joined, \* zb_isDeviceJoinedNwk
  factoryNew, \* zb_isDeviceFactoryNew
  saved,  \* the network is in the non-volatile memory
  asked,  \* what is under way: node descriptors, the key, the leave
  off,    \* in deep sleep
  reach,  \* of the environment: there is a network that answers
  astray  \* history: what may have left the device without another try

membership == <<joined, factoryNew, saved>>
outside == <<off, reach, astray>>
commVars == <<bdb, tasks, timers, zdo, asked, membership, outside>>

Event == {"INIT_DONE", "START", "RETRIEVE", "PERMITJOIN", "FINISH"}
Task == Event \union {"confirm", "save"}
Outcome == {"SUCCESS", "NO_NETWORK", "TCLK_EX_FAILURE", "PARENT_LOST",
            "REJOIN_FAILURE"}

CommTypeOK ==
  /\ bdb \in [state : {"IDLE", "INIT", "STEER"}, status : Outcome,
              inProgress : BOOLEAN, onNetwork : BOOLEAN, initFailed : BOOLEAN,
              attempts : 0 .. KeyAttempts, leaveDoing : BOOLEAN,
              keyTimer : BOOLEAN]
  /\ tasks \in Seq(Task)
  /\ timers \in [steer : 0 .. MaxSteers,
                 delayed : SUBSET {"RETRIEVE", "PERMITJOIN"},
                 keyStart : BOOLEAN, key : 0 .. MaxKeyTimers,
                 backoff : BOOLEAN, noJoined : BOOLEAN]
  /\ zdo \in {"idle", "busy"}
  /\ asked \in [desc : 0 .. MaxAsked, key : BOOLEAN, leave : BOOLEAN]
  /\ {joined, factoryNew, saved, off, reach} \subseteq BOOLEAN
  /\ astray \in {"no", "left", "missed", "hollow", "forgot"}
  /\ bdb.keyTimer => timers.key > 0

-----------------------------------------------------------------------------
NoTimers == [steer |-> 0, delayed |-> {}, keyStart |-> FALSE, key |-> 0,
             backoff |-> FALSE, noJoined |-> FALSE]
NothingAsked == [desc |-> 0, key |-> FALSE, leave |-> FALSE]

(* bdb_init, after zeroing g_bdbCtx. *)
FreshBdb(new) ==
  [state |-> "INIT", status |-> "SUCCESS", inProgress |-> FALSE,
   onNetwork |-> ~new, initFailed |-> FALSE, attempts |-> 0,
   leaveDoing |-> FALSE, keyTimer |-> FALSE]

CommInit ==
  /\ bdb = FreshBdb(TRUE)
  /\ tasks = <<"INIT_DONE">>
  /\ timers = NoTimers
  /\ zdo = "idle"
  /\ joined = FALSE
  /\ factoryNew = TRUE
  /\ saved = FALSE
  /\ asked = NothingAsked
  /\ off = FALSE
  /\ reach \in BOOLEAN
  /\ astray = "no"

(* The MCU starts with what was saved: with a network there, it rejoins.   *)
Boots ==
  /\ bdb' = FreshBdb(~saved)
  /\ tasks' = IF saved THEN <<>> ELSE <<"INIT_DONE">>
  /\ timers' = NoTimers
  /\ zdo' = IF saved THEN "busy" ELSE "idle"
  /\ joined' = FALSE
  /\ factoryNew' = ~saved
  /\ asked' = NothingAsked
  /\ off' = FALSE
  /\ astray' = "no"
  /\ UNCHANGED <<saved, reach>>

(* A power cycle or an exception (appSysException). *)
CommRestart == ~off /\ Boots

(* After a deep sleep (repower = 0) the library goes on as if the device   *)
(* had never left its network, and does not call zb_bdbInitCb.             *)
WakeFromDeepSleep ==
  /\ off
  /\ IF saved
     THEN /\ bdb' = [FreshBdb(FALSE) EXCEPT !.state = "IDLE"]
          /\ joined' = TRUE
          /\ off' = FALSE
          /\ factoryNew' = FALSE
          /\ UNCHANGED <<tasks, timers, zdo, saved, asked, reach, astray>>
     ELSE Boots

-----------------------------------------------------------------------------
(* The two callbacks of the application.                                   *)

OneMore(n, bound) == IF n < bound THEN n + 1 ELSE n

(* Mutant: a device that is not on a network waits for the key. *)
InitCbWaits(t, failed, onNetwork) ==
  IF failed /\ onNetwork THEN [t EXCEPT !.backoff = TRUE] ELSE t

zb_bdbInitCb(t, failed, onNetwork) ==
  CASE failed /\ onNetwork   -> [t EXCEPT !.backoff = TRUE]
    [] ~failed /\ ~onNetwork -> [t EXCEPT !.steer = OneMore(@, MaxSteers)]
    [] OTHER                 -> t

(* Mutant: the limit is set for a failed rejoin only. *)
CommissioningCbForgets(t, status) ==
  CASE status = "SUCCESS" -> [t EXCEPT !.backoff = FALSE, !.noJoined = FALSE]
    [] status \in {"NO_NETWORK", "TCLK_EX_FAILURE"} ->
         [t EXCEPT !.steer = OneMore(@, MaxSteers)]
    [] status = "REJOIN_FAILURE" ->
         [t EXCEPT !.backoff = TRUE, !.noJoined = TRUE]
    [] OTHER -> t

(* After a lost parent, zb_rejoinReq too: see Confirm. *)
zb_bdbCommissioningCb(t, status) ==
  CASE status = "SUCCESS" -> [t EXCEPT !.backoff = FALSE, !.noJoined = FALSE]
    [] status \in {"NO_NETWORK", "TCLK_EX_FAILURE"} ->
         [t EXCEPT !.steer = OneMore(@, MaxSteers), !.noJoined = TRUE]
    [] status = "REJOIN_FAILURE" ->
         [t EXCEPT !.backoff = TRUE, !.noJoined = TRUE]
    [] OTHER -> t

-----------------------------------------------------------------------------
(* bdb_task: the events, each in the state it finds.                       *)

Takes(task) == ~off /\ tasks # <<>> /\ Head(tasks) = task
Rest == Tail(tasks)

(* bdb_commissioningInfoSave goes along when the parent, the channel or    *)
(* the key is another.                                                     *)
MaySave(queue) == {queue, Append(queue, "save")}

(* In the state INIT any event ends it; only INIT_DONE is answered. *)
TaskInInit ==
  \E evt \in Event :
    /\ bdb.state = "INIT" /\ Takes(evt)
    /\ bdb' = [bdb EXCEPT !.state = "IDLE"]
    /\ timers' = IF evt = "INIT_DONE"
                 THEN zb_bdbInitCb(timers, bdb.initFailed, bdb.onNetwork)
                 ELSE timers
    /\ tasks' \in IF evt = "INIT_DONE" /\ bdb.onNetwork /\ ~bdb.initFailed
                  THEN MaySave(Rest) ELSE {Rest}
    /\ astray' = IF evt # "INIT_DONE" \/ (bdb.initFailed /\ ~bdb.onNetwork)
                 THEN "missed" ELSE astray
    /\ UNCHANGED <<zdo, membership, asked, off, reach>>

(* bdb_commissioningNetworkSteer: on a network there is only the permit to *)
(* join to be sent around, else a network is to be found.                  *)
StartSteering ==
  /\ bdb.state = "IDLE" /\ Takes("START")
  /\ bdb' = [bdb EXCEPT !.state = "STEER"]
  /\ IF bdb.onNetwork
     THEN tasks' = Append(Rest, "confirm") /\ UNCHANGED zdo
     ELSE tasks' = Rest /\ zdo' = "busy"
  /\ UNCHANGED <<timers, membership, asked, outside>>

(* identifyTimer is a union with the timer of the key exchange. *)
CancelKeyTimer(t) == IF bdb.keyTimer THEN [t EXCEPT !.key = @ - 1] ELSE t

(* Mutant: the confirmation does not end the commissioning. *)
ConfirmKeepsOn ==
  /\ bdb.state # "INIT" /\ Takes("FINISH")
  /\ bdb' = [bdb EXCEPT !.state = "IDLE", !.keyTimer = FALSE]
  /\ timers' = zb_bdbCommissioningCb(CancelKeyTimer(timers), bdb.status)
  /\ zdo' = IF bdb.status = "PARENT_LOST" THEN "busy" ELSE zdo
  /\ tasks' = Rest
  /\ UNCHANGED <<membership, asked, outside>>

(* bdb_topLevelCommissiongConfirm: the end of steering or of a rejoin, or  *)
(* the news of a lost parent, for the application.                         *)
Confirm ==
  /\ bdb.state # "INIT" /\ Takes("FINISH")
  /\ bdb' = [bdb EXCEPT !.state = "IDLE", !.inProgress = FALSE, !.keyTimer = FALSE]
  /\ timers' = zb_bdbCommissioningCb(CancelKeyTimer(timers), bdb.status)
  /\ zdo' = IF bdb.status = "PARENT_LOST" THEN "busy" ELSE zdo
  /\ tasks' = Rest
  /\ astray' = IF bdb.status = "SUCCESS" /\ ~joined THEN "hollow" ELSE astray
  /\ UNCHANGED <<membership, asked, off, reach>>

RetrieveKey ==
  /\ bdb.state = "STEER" /\ Takes("RETRIEVE")
  /\ timers' = [timers EXCEPT !.keyStart = TRUE]
  /\ tasks' = Rest
  /\ UNCHANGED <<bdb, zdo, membership, asked, outside>>

PermitJoin ==
  /\ bdb.state = "STEER" /\ Takes("PERMITJOIN")
  /\ tasks' = Append(Rest, "confirm")
  /\ UNCHANGED <<bdb, timers, zdo, membership, asked, outside>>

Ignored ==
  CASE bdb.state = "INIT"  -> {}
    [] bdb.state = "IDLE"  -> {"INIT_DONE", "RETRIEVE", "PERMITJOIN"}
    [] bdb.state = "STEER" -> {"INIT_DONE", "START"}

IgnoreEvent ==
  /\ \E evt \in Ignored : Takes(evt)
  /\ tasks' = Rest
  /\ UNCHANGED <<bdb, timers, zdo, membership, asked, outside>>

bdb_mgmtPermitJoiningConfirm ==
  /\ Takes("confirm")
  /\ bdb' = [bdb EXCEPT !.status = "SUCCESS"]
  /\ tasks' = IF bdb.state = "STEER" THEN Append(Rest, "FINISH") ELSE Rest
  /\ saved' = (saved \/ bdb.onNetwork)
  /\ UNCHANGED <<timers, zdo, joined, factoryNew, asked, outside>>

bdb_commissioningInfoSave ==
  /\ Takes("save")
  /\ tasks' = Rest
  /\ saved' = TRUE
  /\ UNCHANGED <<bdb, timers, zdo, joined, factoryNew, asked, outside>>

RunTask ==
  \/ TaskInInit \/ StartSteering \/ Confirm \/ RetrieveKey \/ PermitJoin
  \/ IgnoreEvent \/ bdb_mgmtPermitJoiningConfirm \/ bdb_commissioningInfoSave

-----------------------------------------------------------------------------
(* The timers.                                                             *)

Room == ~off /\ Len(tasks) < MaxTasks
Post(task) == tasks' = Append(tasks, task)

(* app_bdbNetworkSteerStart, bdb_topLevelCommissioning: a timer that finds *)
(* the BDB or the ZDO at work is gone for nothing.                         *)
SteerTimer ==
  /\ Room /\ timers.steer > 0
  /\ timers' = [timers EXCEPT !.steer = @ - 1]
  /\ IF bdb.state = "IDLE" /\ zdo = "idle" /\ ~bdb.inProgress
     THEN bdb' = [bdb EXCEPT !.inProgress = TRUE] /\ Post("START")
     ELSE UNCHANGED <<bdb, tasks>>
  /\ UNCHANGED <<zdo, membership, asked, outside>>

bdb_task_delay ==
  /\ Room
  /\ \E evt \in timers.delayed :
       timers' = [timers EXCEPT !.delayed = @ \ {evt}] /\ Post(evt)
  /\ UNCHANGED <<bdb, zdo, membership, asked, outside>>

AskDescriptor == asked' = [asked EXCEPT !.desc = OneMore(@, MaxAsked)]

bdb_retrieveTcLinkKeyStart ==
  /\ ~off /\ timers.keyStart
  /\ bdb' = [bdb EXCEPT !.leaveDoing = FALSE, !.attempts = 0, !.keyTimer = TRUE]
  /\ timers' = [timers EXCEPT !.keyStart = FALSE,
                  !.key = IF bdb.keyTimer THEN @ ELSE OneMore(@, MaxKeyTimers)]
  /\ AskDescriptor
  /\ UNCHANGED <<tasks, zdo, membership, outside>>

(* Mutant: asked once more than the limit. *)
KeyAskOnceMore ==
  /\ ~off /\ timers.key > 0
  /\ bdb.attempts <= KeyAttempts
  /\ bdb' = [bdb EXCEPT !.attempts = @ + 1]
  /\ AskDescriptor
  /\ UNCHANGED <<tasks, timers, zdo, membership, outside>>

(* bdb_retrieveTcLinkKeyTimeout: ask again, ... *)
KeyAskAgain ==
  /\ ~off /\ timers.key > 0
  /\ bdb.attempts < KeyAttempts
  /\ bdb' = [bdb EXCEPT !.attempts = @ + 1]
  /\ AskDescriptor
  /\ UNCHANGED <<tasks, timers, zdo, membership, outside>>

(* ... or leave, and wait for that, every three seconds, ... *)
KeyLeave ==
  /\ ~off /\ timers.key > 0
  /\ bdb.attempts = KeyAttempts /\ joined /\ ~bdb.leaveDoing
  /\ bdb' = [bdb EXCEPT !.leaveDoing = TRUE]
  /\ asked' = [asked EXCEPT !.leave = TRUE]
  /\ UNCHANGED <<tasks, timers, zdo, membership, outside>>

(* Mutant: given up, without the event that ends the steering. *)
KeyGiveUpQuietly ==
  /\ Room /\ timers.key > 0
  /\ bdb.attempts = KeyAttempts /\ ~joined
  /\ bdb' = [bdb EXCEPT !.attempts = 0, !.keyTimer = FALSE,
               !.status = "TCLK_EX_FAILURE", !.onNetwork = FALSE]
  /\ timers' = [timers EXCEPT !.key = @ - 1]
  /\ UNCHANGED <<tasks, zdo, membership, asked, outside>>

(* ... or give up: bdb_retrieveTcLinkKeyDone of a failure, with the handle *)
(* of the timer gone before.                                               *)
KeyGiveUp ==
  /\ Room /\ timers.key > 0
  /\ bdb.attempts = KeyAttempts /\ ~joined
  /\ bdb' = [bdb EXCEPT !.attempts = 0, !.keyTimer = FALSE,
               !.status = "TCLK_EX_FAILURE", !.onNetwork = FALSE]
  /\ timers' = [timers EXCEPT !.key = @ - 1]
  /\ Post("FINISH")
  /\ UNCHANGED <<zdo, membership, asked, outside>>

app_rejoinBacckoff ==
  /\ ~off /\ timers.backoff
  /\ IF factoryNew
     THEN /\ timers' = [timers EXCEPT !.backoff = FALSE]
          /\ astray' = "forgot"
          /\ UNCHANGED zdo
     ELSE zdo' = "busy" /\ UNCHANGED <<timers, astray>>
  /\ UNCHANGED <<bdb, tasks, membership, asked, off, reach>>

StackAtRest == tasks = <<>> /\ zdo = "idle"

(* no_joinedCb; while the stack has work it comes again a minute later.    *)
NoJoinedSleeps ==
  /\ ~off /\ timers.noJoined /\ ~joined
  /\ StackAtRest
  /\ off' = TRUE
  /\ bdb' = FreshBdb(~saved)
  /\ timers' = NoTimers
  /\ asked' = NothingAsked
  /\ factoryNew' = ~saved
  /\ UNCHANGED <<tasks, zdo, joined, saved, reach, astray>>

NoJoinedEnds ==
  /\ ~off /\ timers.noJoined /\ joined
  /\ timers' = [timers EXCEPT !.noJoined = FALSE]
  /\ UNCHANGED <<bdb, tasks, zdo, membership, asked, outside>>

-----------------------------------------------------------------------------
(* The ZDO and the network.                                                *)

(* bdb_zdoStartDevCnf: what a network, a failure or a lost parent is to    *)
(* the BDB depends on its state.                                           *)
StartDevCnf(status) ==
  LET ok == status = "SUCCESS"
  IN CASE bdb.state = "IDLE" ->
            /\ bdb' = [bdb EXCEPT !.onNetwork = @ \/ ok,
                         !.status = CASE ok -> "SUCCESS"
                                      [] status = "NETWORK_LOST" -> "PARENT_LOST"
                                      [] OTHER -> "REJOIN_FAILURE"]
            /\ \E queue \in IF ok THEN MaySave(tasks) ELSE {tasks} :
                 tasks' = Append(queue, "FINISH")
            /\ UNCHANGED timers
       [] bdb.state = "INIT" ->
            /\ bdb' = [bdb EXCEPT !.initFailed = ~ok]
            /\ Post("INIT_DONE")
            /\ UNCHANGED timers
       [] bdb.state = "STEER" /\ ok ->
            /\ bdb' = [bdb EXCEPT !.onNetwork = TRUE, !.status = "SUCCESS"]
            /\ \E evt \in {"RETRIEVE", "PERMITJOIN"} :
                 timers' = [timers EXCEPT !.delayed = @ \union {evt}]
            /\ UNCHANGED tasks
       [] bdb.state = "STEER" /\ ~ok ->
            /\ bdb' = [bdb EXCEPT !.status = "NO_NETWORK"]
            /\ Post("FINISH")
            /\ UNCHANGED timers

ZdoJoins ==
  /\ Room /\ zdo = "busy" /\ reach
  /\ zdo' = "idle"
  /\ joined' = TRUE
  /\ factoryNew' = FALSE
  /\ StartDevCnf("SUCCESS")
  /\ astray' = "no"
  /\ UNCHANGED <<saved, asked, off, reach>>

ZdoFails ==
  /\ Room /\ zdo = "busy"
  /\ zdo' = "idle"
  /\ joined' = FALSE
  /\ asked' = NothingAsked
  /\ StartDevCnf("FAILURE")
  /\ UNCHANGED <<factoryNew, saved, outside>>

ParentLost ==
  /\ Room /\ zdo = "idle" /\ joined
  /\ joined' = FALSE
  /\ asked' = NothingAsked
  /\ StartDevCnf("NETWORK_LOST")
  /\ UNCHANGED <<zdo, factoryNew, saved, outside>>

(* bdb_nodeDescRespHandler: of revision 21 on, the key is asked for, ... *)
DescriptorAnswered ==
  /\ ~off /\ asked.desc > 0 /\ joined /\ reach
  /\ bdb' = [bdb EXCEPT !.onNetwork = FALSE]
  /\ asked' = [asked EXCEPT !.desc = @ - 1, !.key = TRUE]
  /\ UNCHANGED <<tasks, timers, zdo, membership, outside>>

(* ... before, or if it can not be asked for, the exchange is done.        *)
KeyDone ==
  /\ bdb' = [bdb EXCEPT !.status = "SUCCESS", !.onNetwork = TRUE, !.keyTimer = FALSE]
  /\ timers' = CancelKeyTimer(timers)
  /\ Post("PERMITJOIN")
  /\ UNCHANGED <<zdo, membership, outside>>

OldDescriptorAnswered ==
  /\ Room /\ asked.desc > 0 /\ joined /\ reach
  /\ asked' = [asked EXCEPT !.desc = @ - 1]
  /\ KeyDone

KeyConfirmed ==
  /\ Room /\ asked.key /\ joined /\ reach
  /\ asked' = [asked EXCEPT !.key = FALSE]
  /\ KeyDone

AnswerLost ==
  /\ ~off
  /\ \/ asked.desc > 0 /\ asked' = [asked EXCEPT !.desc = @ - 1]
     \/ asked.key /\ asked' = [asked EXCEPT !.key = FALSE]
  /\ UNCHANGED <<bdb, tasks, timers, zdo, membership, outside>>

(* The coordinator removes the device. *)
LeaveAsked ==
  /\ ~off /\ joined /\ ~asked.leave
  /\ asked' = [asked EXCEPT !.leave = TRUE]
  /\ UNCHANGED <<bdb, tasks, timers, zdo, membership, outside>>

(* nv_resetToFactoryNew, zb_reset with tl_bdbAttrInit, and then            *)
(* app_leaveCnfHandler.                                                    *)
SelfLeave ==
  /\ ~off /\ asked.leave /\ zdo = "idle"
  /\ bdb' = [bdb EXCEPT !.onNetwork = FALSE, !.inProgress = FALSE, !.attempts = 0]
  /\ timers' = [timers EXCEPT !.backoff = FALSE]
  /\ joined' = FALSE
  /\ factoryNew' = TRUE
  /\ saved' = FALSE
  /\ asked' = NothingAsked
  /\ astray' = "left"
  /\ UNCHANGED <<tasks, zdo, off, reach>>

(* The key is held: zb_resetDevice2FN leaves a network (LeaveAsked), and   *)
(* without one resets the BDB: tl_bdbReset2FN, bdb_init.  The queue and    *)
(* the timers stay, the handle of the timer of the key exchange is lost.   *)
tl_bdbReset2FN ==
  /\ Room /\ ~joined
  /\ bdb' = FreshBdb(TRUE)
  /\ Post("INIT_DONE")
  /\ factoryNew' = TRUE
  /\ saved' = FALSE
  /\ asked' = NothingAsked
  /\ astray' = "no"
  /\ UNCHANGED <<timers, zdo, joined, off, reach>>

ReachChanges ==
  reach' = ~reach
  /\ UNCHANGED <<bdb, tasks, timers, zdo, membership, asked, off, astray>>

-----------------------------------------------------------------------------
KeyTimer == KeyAskAgain \/ KeyLeave \/ KeyGiveUp

Timers ==
  \/ SteerTimer \/ bdb_task_delay \/ bdb_retrieveTcLinkKeyStart \/ KeyTimer
  \/ app_rejoinBacckoff \/ NoJoinedSleeps \/ NoJoinedEnds

Network ==
  \/ ZdoJoins \/ ZdoFails \/ ParentLost \/ DescriptorAnswered
  \/ OldDescriptorAnswered \/ KeyConfirmed \/ AnswerLost \/ SelfLeave

Disturbance ==
  LeaveAsked \/ tl_bdbReset2FN \/ CommRestart \/ WakeFromDeepSleep

CommNext == RunTask \/ Timers \/ Network \/ Disturbance \/ ReachChanges

CommFairness ==
  /\ WF_commVars(RunTask)
  /\ WF_commVars(SteerTimer) /\ WF_commVars(bdb_task_delay)
  /\ WF_commVars(bdb_retrieveTcLinkKeyStart) /\ WF_commVars(KeyTimer)
  /\ SF_commVars(NoJoinedSleeps)
  /\ WF_commVars(ZdoJoins \/ ZdoFails) /\ WF_commVars(SelfLeave)
  /\ SF_commVars(ZdoJoins) /\ SF_commVars(OldDescriptorAnswered \/ KeyConfirmed)

CommSpec ==
  /\ CommInit /\ [][CommNext]_commVars
  /\ CommFairness /\ WF_commVars(app_rejoinBacckoff)

-----------------------------------------------------------------------------
(* Something is under way that leads to another try. *)
Trying ==
  \/ zdo = "busy"
  \/ \E i \in DOMAIN tasks : tasks[i] # "save"
  \/ timers.steer > 0 \/ timers.delayed # {} \/ timers.keyStart
  \/ timers.key > 0 \/ timers.backoff

Stranded == ~off /\ ~joined /\ ~Trying

(* A device without a network stops trying in these ways only: it left the *)
(* network; its start was taken by an event of before, or told of a join   *)
(* that failed before it (bdb.c:1079-1084, bdb.c:1269-1276); steering was  *)
(* a success without a network, the parent having been lost meanwhile      *)
(* (bdb.c:1054-1056, zb_appCb.c:212-236); or the backoff ended with the    *)
(* network forgotten (zb_appCb.c:91-95).                                   *)
TriesOnUnlessAstray == Stranded => astray # "no"

(* Steering comes to an end, whatever the network does: the main loop      *)
(* neither sleeps nor reports before (app_main.c:172).                     *)
SteeringEnds == (bdb.state = "STEER") ~> (off \/ bdb.state # "STEER")

Member == joined /\ bdb.state = "IDLE" /\ ~bdb.inProgress

LeftAlone == <>[][~Disturbance /\ ~ParentLost]_commVars

(* With a network in reach a device that is not stranded gets in, or gets  *)
(* back in, if it is left alone.                                           *)
ComesBack == (<>[](reach /\ ~Stranded) /\ LeftAlone) => []<>(Member \/ off)

(* Without one it goes to deep sleep in the end (README.md:139), if the    *)
(* tries leave the stack at rest again and again.                          *)
GoesToSleep ==
  (<>[](~joined /\ ~Stranded) /\ LeftAlone /\ []<>StackAtRest) => <>off

(* README.md:27: to join a network, hold the key for two seconds.  The     *)
(* device that missed its start then would not.                            *)
HeldKeyTries == Stranded => astray # "missed"
=============================================================================
