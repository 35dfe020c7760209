-------------------------- MODULE CommissioningProofs --------------------------
(***************************************************************************)
(* The commissioning for all bounds: types, and the ways in which a device *)
(* without a network stops trying.                                         *)
(*                                                                         *)
(* What counts as a try depends on the state of the BDB: an event that     *)
(* ends a try in one state is ignored in another.  So there is one         *)
(* condition for each state, of what must be under way in it.              *)
(***************************************************************************)
EXTENDS Commissioning, SequenceTheorems, TLAPS

Waits(task, queue) == \E i \in 1 .. Len(queue) : queue[i] = task

(* INIT: the ZDO, or the event that ends it. *)
InitHasTask ==
  ~off /\ bdb.state = "INIT" => zdo = "busy" \/ Waits("INIT_DONE", tasks)

(* ... which has nothing to do when the network was found again. *)
InitFoundNetwork ==
  ~off /\ bdb.state = "INIT" /\ bdb.onNetwork /\ ~bdb.initFailed
       /\ zdo = "idle" /\ astray = "no" => joined

(* STEER: the search, one of its events, or one of its timers. *)
SteeringGoesOn ==
  bdb.state = "STEER" =>
    \/ zdo = "busy"
    \/ \E task \in {"RETRIEVE", "PERMITJOIN", "confirm", "FINISH"} : Waits(task, tasks)
    \/ timers.delayed # {} \/ timers.keyStart \/ timers.key > 0

(* IDLE: steering that is already in progress has its event in the queue,  *)
(* so that a timer may find it in progress and do nothing.                 *)
StartIsPosted ==
  bdb.inProgress =>
    bdb.state # "INIT" /\ (bdb.state = "IDLE" => Waits("START", tasks))

IdleTries ==
  ~off /\ ~joined /\ bdb.state = "IDLE" /\ astray = "no" =>
    \/ zdo = "busy" \/ Waits("FINISH", tasks) \/ Waits("START", tasks)
    \/ timers.steer > 0 \/ timers.backoff

GoesOn ==
  InitHasTask /\ InitFoundNetwork /\ SteeringGoesOn /\ StartIsPosted /\ IdleTries

CommInv == CommTypeOK /\ GoesOn

(* The types of CommTypeOK, by name. *)
Bdb == [state : {"IDLE", "INIT", "STEER"}, status : Outcome, inProgress : BOOLEAN,
        onNetwork : BOOLEAN, initFailed : BOOLEAN, attempts : 0 .. KeyAttempts,
        leaveDoing : BOOLEAN, keyTimer : BOOLEAN]

CommTimers == [steer : 0 .. MaxSteers, delayed : SUBSET {"RETRIEVE", "PERMITJOIN"},
               keyStart : BOOLEAN, key : 0 .. MaxKeyTimers,
               backoff : BOOLEAN, noJoined : BOOLEAN]

Requests == [desc : 0 .. MaxAsked, key : BOOLEAN, leave : BOOLEAN]

Flags ==
  /\ zdo \in {"idle", "busy"}
  /\ {joined, factoryNew, saved, off, reach} \subseteq BOOLEAN
  /\ astray \in {"no", "left", "missed", "hollow", "forgot"}

LEMMA TypesByName ==
  CommTypeOK <=> /\ bdb \in Bdb /\ tasks \in Seq(Task) /\ timers \in CommTimers
                 /\ asked \in Requests /\ Flags
                 /\ bdb.keyTimer => timers.key > 0
  BY DEF CommTypeOK, Bdb, CommTimers, Requests, Flags

LEMMA TypesNext ==
  ASSUME bdb' \in Bdb, tasks' \in Seq(Task), timers' \in CommTimers,
         asked' \in Requests, Flags', bdb'.keyTimer => timers'.key > 0
  PROVE  CommTypeOK'
  BY DEF CommTypeOK, Bdb, CommTimers, Requests, Flags

-----------------------------------------------------------------------------
(* The queue, and what the callbacks do to the timers.                     *)

LEMMA Posted ==
  ASSUME NEW queue \in Seq(Task), NEW task \in Task
  PROVE  /\ Append(queue, task) \in Seq(Task)
         /\ \A e : Waits(e, Append(queue, task)) <=> Waits(e, queue) \/ e = task
<1>1. Append(queue, task) \in Seq(Task)
  OBVIOUS
<1>2. ASSUME NEW e PROVE Waits(e, Append(queue, task)) <=> Waits(e, queue) \/ e = task
  <2>1. Len(Append(queue, task)) = Len(queue) + 1 /\ Len(queue) \in Nat
    OBVIOUS
  <2>2. \A i \in 1 .. Len(queue) : Append(queue, task)[i] = queue[i]
    OBVIOUS
  <2>3. Append(queue, task)[Len(queue) + 1] = task
    OBVIOUS
  <2>4. Waits(e, queue) => Waits(e, Append(queue, task))
    BY <2>1, <2>2 DEF Waits
  <2>5. e = task => Waits(e, Append(queue, task))
    BY <2>1, <2>3 DEF Waits
  <2>6. Waits(e, Append(queue, task)) => Waits(e, queue) \/ e = task
    BY <2>1, <2>2, <2>3 DEF Waits
  <2> QED
    BY <2>4, <2>5, <2>6
<1> QED
  BY <1>1, <1>2

LEMMA Taken ==
  ASSUME NEW queue \in Seq(Task), queue # <<>>
  PROVE  /\ Tail(queue) \in Seq(Task)
         /\ Head(queue) \in Task
         /\ \A e : Waits(e, queue) <=> e = Head(queue) \/ Waits(e, Tail(queue))
<1>1. Tail(queue) \in Seq(Task) /\ Head(queue) \in Task /\ Head(queue) = queue[1]
  OBVIOUS
<1>2. /\ Len(queue) \in Nat /\ Len(queue) >= 1 /\ Len(Tail(queue)) = Len(queue) - 1
      /\ \A i \in 1 .. Len(Tail(queue)) : Tail(queue)[i] = queue[i + 1]
  OBVIOUS
<1>3. ASSUME NEW e PROVE Waits(e, queue) <=> e = Head(queue) \/ Waits(e, Tail(queue))
  <2>1. e = Head(queue) => Waits(e, queue)
    BY <1>1, <1>2 DEF Waits
  <2>2. ASSUME Waits(e, Tail(queue)) PROVE Waits(e, queue)
    <3>1. PICK i \in 1 .. Len(Tail(queue)) : Tail(queue)[i] = e
      BY <2>2 DEF Waits
    <3>2. i + 1 \in 1 .. Len(queue) /\ queue[i + 1] = e
      BY <1>2, <3>1
    <3> QED
      BY <3>2 DEF Waits
  <2>3. ASSUME Waits(e, queue), e # Head(queue) PROVE Waits(e, Tail(queue))
    <3>1. PICK i \in 1 .. Len(queue) : queue[i] = e
      BY <2>3 DEF Waits
    <3>2. i # 1
      BY <1>1, <2>3, <3>1
    <3>3. i - 1 \in 1 .. Len(Tail(queue)) /\ (i - 1) + 1 = i
      BY <1>2, <3>1, <3>2
    <3>4. Tail(queue)[i - 1] = e
      BY <1>2, <3>1, <3>3
    <3> QED
      BY <3>3, <3>4 DEF Waits
  <2> QED
    BY <2>1, <2>2, <2>3
<1> QED
  BY <1>1, <1>3

LEMMA Counted ==
  ASSUME NEW bound \in Nat \ {0}, NEW n \in 0 .. bound
  PROVE  OneMore(n, bound) \in 0 .. bound /\ OneMore(n, bound) > 0
  BY DEF OneMore

(* zb_bdbInitCb starts a timer in all cases but two. *)
LEMMA InitCb ==
  ASSUME NEW t \in CommTimers, NEW failed \in BOOLEAN, NEW onNetwork \in BOOLEAN
  PROVE  /\ zb_bdbInitCb(t, failed, onNetwork) \in CommTimers
         /\ zb_bdbInitCb(t, failed, onNetwork).key = t.key
         /\ failed /\ onNetwork => zb_bdbInitCb(t, failed, onNetwork).backoff
         /\ ~failed /\ ~onNetwork => zb_bdbInitCb(t, failed, onNetwork).steer > 0
<1>1. CASE failed /\ onNetwork
  <2>1. zb_bdbInitCb(t, failed, onNetwork) = [t EXCEPT !.backoff = TRUE]
    BY <1>1 DEF zb_bdbInitCb
  <2> QED
    BY <1>1, <2>1 DEF CommTimers
<1>2. CASE ~failed /\ ~onNetwork
  <2>1. zb_bdbInitCb(t, failed, onNetwork) = [t EXCEPT !.steer = OneMore(@, MaxSteers)]
    BY <1>2 DEF zb_bdbInitCb
  <2>2. OneMore(t.steer, MaxSteers) \in 0 .. MaxSteers /\ OneMore(t.steer, MaxSteers) > 0
    BY Counted, CommAssumption DEF CommTimers
  <2> QED
    BY <1>2, <2>1, <2>2 DEF CommTimers
<1>3. CASE failed # onNetwork
  <2>1. zb_bdbInitCb(t, failed, onNetwork) = t
    BY <1>3 DEF zb_bdbInitCb
  <2> QED
    BY <1>3, <2>1
<1> QED
  BY <1>1, <1>2, <1>3

(* zb_bdbCommissioningCb starts a timer for every failure. *)
LEMMA CommissioningCb ==
  ASSUME NEW t \in CommTimers, NEW status \in Outcome
  PROVE  LET u == zb_bdbCommissioningCb(t, status)
         IN /\ u \in CommTimers
            /\ status \notin {"SUCCESS", "PARENT_LOST"} => u.steer > 0 \/ u.backoff
<1> DEFINE u == zb_bdbCommissioningCb(t, status)
<1>1. CASE status = "SUCCESS"
  <2>1. u = [t EXCEPT !.backoff = FALSE, !.noJoined = FALSE]
    BY <1>1 DEF zb_bdbCommissioningCb
  <2> QED
    BY <1>1, <2>1 DEF CommTimers
<1>2. CASE status \in {"NO_NETWORK", "TCLK_EX_FAILURE"}
  <2>1. u = [t EXCEPT !.steer = OneMore(t.steer, MaxSteers), !.noJoined = TRUE]
    BY <1>2 DEF zb_bdbCommissioningCb, CommTimers
  <2>2. OneMore(t.steer, MaxSteers) \in 0 .. MaxSteers /\ OneMore(t.steer, MaxSteers) > 0
    BY Counted, CommAssumption DEF CommTimers
  <2> QED
    BY <1>2, <2>1, <2>2 DEF CommTimers
<1>3. CASE status = "REJOIN_FAILURE"
  <2>1. u = [t EXCEPT !.backoff = TRUE, !.noJoined = TRUE]
    BY <1>3 DEF zb_bdbCommissioningCb
  <2> QED
    BY <1>3, <2>1 DEF CommTimers
<1>4. CASE status = "PARENT_LOST"
  <2>1. u = t
    BY <1>4 DEF zb_bdbCommissioningCb
  <2> QED
    BY <1>4, <2>1
<1> QED
  BY <1>1, <1>2, <1>3, <1>4 DEF Outcome

LEMMA Fresh ==
  ASSUME NEW new \in BOOLEAN
  PROVE  FreshBdb(new) \in Bdb
  BY CommAssumption DEF FreshBdb, Bdb, Outcome

LEMMA CommInitially == CommInit => CommInv
<1> SUFFICES ASSUME CommInit PROVE CommInv
  OBVIOUS
<1>1. "INIT_DONE" \in Task
  BY DEF Task, Event
<1>2. tasks \in Seq(Task) /\ Waits("INIT_DONE", tasks)
  BY <1>1 DEF CommInit, Waits
<1>3. CommTypeOK
  <2>1. timers \in CommTimers /\ asked \in Requests
    BY CommAssumption DEF CommInit, NoTimers, NothingAsked, CommTimers, Requests
  <2>2. bdb \in Bdb /\ ~bdb.keyTimer
    BY Fresh DEF CommInit, FreshBdb
  <2> QED
    BY <1>2, <2>1, <2>2, TypesByName DEF CommInit, Flags
<1>4. GoesOn
  BY <1>2 DEF CommInit, FreshBdb, GoesOn, InitHasTask, InitFoundNetwork, SteeringGoesOn,
              StartIsPosted, IdleTries
<1> QED
  BY <1>3, <1>4 DEF CommInv

-----------------------------------------------------------------------------
(* GoesOn, one state at a time. *)

LEMMA NowIdle ==
  ASSUME bdb'.state = "IDLE", bdb'.inProgress => Waits("START", tasks'), IdleTries'
  PROVE  GoesOn'
  BY DEF GoesOn, InitHasTask, InitFoundNetwork, SteeringGoesOn, StartIsPosted

LEMMA NowSteering ==
  ASSUME bdb'.state = "STEER", SteeringGoesOn'
  PROVE  GoesOn'
  BY DEF GoesOn, InitHasTask, InitFoundNetwork, StartIsPosted, IdleTries

LEMMA NowInit ==
  ASSUME bdb'.state = "INIT", ~bdb'.inProgress, InitHasTask', InitFoundNetwork'
  PROVE  GoesOn'
  BY DEF GoesOn, SteeringGoesOn, StartIsPosted, IdleTries

(* What each state wants to stay in the queue. *)
Wanted == CASE bdb.state = "INIT"  -> {"INIT_DONE"}
            [] bdb.state = "IDLE"  -> {"START", "FINISH"}
            [] bdb.state = "STEER" -> {"RETRIEVE", "PERMITJOIN", "confirm", "FINISH"}

(* A step that takes nothing away keeps what goes on. *)
LEMMA NothingTaken ==
  ASSUME GoesOn, bdb.state \in {"IDLE", "INIT", "STEER"},
         bdb'.state = bdb.state, bdb'.inProgress = bdb.inProgress,
         bdb'.initFailed = bdb.initFailed,
         bdb'.onNetwork => bdb.onNetwork \/ joined,
         zdo' = zdo \/ zdo' = "busy", zdo \in {"idle", "busy"},
         UNCHANGED <<joined, off, astray>>,
         \A e \in Wanted : Waits(e, tasks) => Waits(e, tasks'),
         timers.steer > 0 => timers'.steer > 0,
         timers.backoff => timers'.backoff,
         timers.delayed # {} \/ timers.keyStart \/ timers.key > 0
           => \/ timers'.delayed # {} \/ timers'.keyStart \/ timers'.key > 0
              \/ \E e \in Wanted : Waits(e, tasks')
  PROVE  GoesOn'
<1>1. CASE bdb.state = "INIT"
  <2>1. Wanted = {"INIT_DONE"}
    BY <1>1 DEF Wanted
  <2>2. InitHasTask' /\ InitFoundNetwork'
    BY <1>1, <2>1 DEF GoesOn, InitHasTask, InitFoundNetwork
  <2>3. ~bdb'.inProgress
    BY <1>1 DEF GoesOn, StartIsPosted
  <2> QED
    BY <1>1, <2>2, <2>3, NowInit
<1>2. CASE bdb.state = "IDLE"
  <2>1. Wanted = {"START", "FINISH"}
    BY <1>2 DEF Wanted
  <2>2. bdb'.inProgress => Waits("START", tasks')
    BY <1>2, <2>1 DEF GoesOn, StartIsPosted
  <2>3. IdleTries'
    BY <1>2, <2>1 DEF GoesOn, IdleTries
  <2> QED
    BY <1>2, <2>2, <2>3, NowIdle
<1>3. CASE bdb.state = "STEER"
  <2>1. Wanted = {"RETRIEVE", "PERMITJOIN", "confirm", "FINISH"}
    BY <1>3 DEF Wanted
  <2>2. SteeringGoesOn'
    BY <1>3, <2>1 DEF GoesOn, SteeringGoesOn
  <2> QED
    BY <1>3, <2>2, NowSteering
<1> QED
  BY <1>1, <1>2, <1>3

LEMMA TaskTypes ==
  {"INIT_DONE", "START", "RETRIEVE", "PERMITJOIN", "FINISH", "confirm", "save"} \subseteq Task
  BY DEF Task, Event

-----------------------------------------------------------------------------
(* The tasks of the queue.                                                 *)

LEMMA TaskInInitStep == CommInv /\ TaskInInit => CommInv'
<1> SUFFICES ASSUME CommInv, TaskInInit PROVE CommInv'
  OBVIOUS
<1>1. PICK evt \in Event :
        /\ bdb.state = "INIT" /\ Takes(evt)
        /\ bdb' = [bdb EXCEPT !.state = "IDLE"]
        /\ timers' = IF evt = "INIT_DONE"
                     THEN zb_bdbInitCb(timers, bdb.initFailed, bdb.onNetwork)
                     ELSE timers
        /\ tasks' \in IF evt = "INIT_DONE" /\ bdb.onNetwork /\ ~bdb.initFailed
                      THEN MaySave(Rest) ELSE {Rest}
        /\ astray' = IF evt # "INIT_DONE" \/ (bdb.initFailed /\ ~bdb.onNetwork)
                     THEN "missed" ELSE astray
        /\ UNCHANGED <<zdo, membership, asked, off, reach>>
  BY DEF TaskInInit
<1>2. /\ bdb \in Bdb /\ timers \in CommTimers /\ asked \in Requests /\ Flags
      /\ bdb.keyTimer => timers.key > 0
      /\ tasks \in Seq(Task) /\ tasks # <<>>
      /\ GoesOn
  BY <1>1, TypesByName DEF CommInv, Takes
<1>3. Rest \in Seq(Task)
  BY <1>2, Taken DEF Rest
<1>4. tasks' \in Seq(Task)
  <2>1. Append(Rest, "save") \in Seq(Task)
    BY <1>3, Posted, TaskTypes
  <2> QED
    BY <1>1, <1>3, <2>1 DEF MaySave
<1>5. bdb' \in Bdb /\ bdb'.state = "IDLE" /\ UNCHANGED <<bdb.inProgress, bdb.keyTimer>>
  BY <1>1, <1>2 DEF Bdb
<1>6. bdb.initFailed \in BOOLEAN /\ bdb.onNetwork \in BOOLEAN
  BY <1>2 DEF Bdb
<1>7. timers' \in CommTimers /\ timers'.key = timers.key
  BY <1>1, <1>2, <1>6, InitCb
<1>8. CommTypeOK'
  <2>1. Flags'
    BY <1>1, <1>2 DEF Flags, membership
  <2>2. asked' \in Requests /\ (bdb'.keyTimer => timers'.key > 0)
    BY <1>1, <1>2, <1>5, <1>7
  <2> QED
    BY <1>4, <1>5, <1>7, <2>1, <2>2, TypesNext
<1>9. ~bdb'.inProgress
  BY <1>1, <1>2, <1>5 DEF GoesOn, StartIsPosted
<1>10. IdleTries'
  <2>1. CASE evt # "INIT_DONE" \/ (bdb.initFailed /\ ~bdb.onNetwork)
    BY <1>1, <2>1 DEF IdleTries
  <2>2. CASE evt = "INIT_DONE" /\ bdb.initFailed /\ bdb.onNetwork
    BY <1>1, <1>2, <1>6, <2>2, InitCb DEF IdleTries
  <2>3. CASE evt = "INIT_DONE" /\ ~bdb.initFailed /\ ~bdb.onNetwork
    BY <1>1, <1>2, <1>6, <2>3, InitCb DEF IdleTries
  <2>4. CASE evt = "INIT_DONE" /\ ~bdb.initFailed /\ bdb.onNetwork
    <3>1. UNCHANGED <<zdo, joined, off, astray>> /\ zdo \in {"idle", "busy"}
      BY <1>1, <1>2, <2>4 DEF membership, Flags
    <3> QED
      BY <1>1, <1>2, <2>4, <3>1 DEF GoesOn, InitFoundNetwork, IdleTries, Takes
  <2> QED
    BY <2>1, <2>2, <2>3, <2>4
<1> QED
  BY <1>5, <1>8, <1>9, <1>10, NowIdle DEF CommInv

LEMMA StartSteeringStep == CommInv /\ StartSteering => CommInv'
<1> SUFFICES ASSUME CommInv, StartSteering PROVE CommInv'
  OBVIOUS
<1>1. /\ bdb \in Bdb /\ timers \in CommTimers /\ asked \in Requests /\ Flags
      /\ bdb.keyTimer => timers.key > 0
      /\ tasks \in Seq(Task) /\ tasks # <<>>
  BY TypesByName DEF CommInv, StartSteering, Takes
<1>2. Rest \in Seq(Task)
  BY <1>1, Taken DEF Rest
<1>3. bdb' \in Bdb /\ bdb'.state = "STEER" /\ bdb'.keyTimer = bdb.keyTimer
  BY <1>1 DEF StartSteering, Bdb
<1>4. /\ tasks' \in Seq(Task)
      /\ zdo' = "busy" \/ Waits("confirm", tasks')
      /\ zdo' \in {"idle", "busy"}
  <2>1. /\ Append(Rest, "confirm") \in Seq(Task)
        /\ Waits("confirm", Append(Rest, "confirm"))
    BY <1>2, Posted, TaskTypes
  <2> QED
    BY <1>1, <1>2, <2>1 DEF StartSteering, Flags
<1>5. CommTypeOK'
  <2>1. Flags'
    BY <1>1, <1>4 DEF StartSteering, Flags, membership, outside
  <2>2. timers' \in CommTimers /\ asked' \in Requests /\ (bdb'.keyTimer => timers'.key > 0)
    BY <1>1, <1>3 DEF StartSteering
  <2> QED
    BY <1>3, <1>4, <2>1, <2>2, TypesNext
<1>6. SteeringGoesOn'
  BY <1>4 DEF SteeringGoesOn
<1> QED
  BY <1>3, <1>5, <1>6, NowSteering DEF CommInv

(* The timer of the key exchange is there to be cancelled.  *)
LEMMA KeyTimerCancelled ==
  ASSUME bdb \in Bdb, timers \in CommTimers, bdb.keyTimer => timers.key > 0
  PROVE  CancelKeyTimer(timers) \in CommTimers
<1>1. CASE bdb.keyTimer
  <2>1. CancelKeyTimer(timers) = [timers EXCEPT !.key = timers.key - 1]
    BY <1>1 DEF CancelKeyTimer, CommTimers
  <2>2. timers.key - 1 \in 0 .. MaxKeyTimers
    BY <1>1, CommAssumption DEF CommTimers
  <2> QED
    BY <2>1, <2>2 DEF CommTimers
<1>2. CASE ~bdb.keyTimer
  BY <1>2 DEF CancelKeyTimer
<1> QED
  BY <1>1, <1>2

LEMMA ConfirmStep == CommInv /\ Confirm => CommInv'
<1> SUFFICES ASSUME CommInv, Confirm PROVE CommInv'
  OBVIOUS
<1>1. /\ bdb \in Bdb /\ timers \in CommTimers /\ asked \in Requests /\ Flags
      /\ bdb.keyTimer => timers.key > 0
      /\ tasks \in Seq(Task) /\ tasks # <<>>
  BY TypesByName DEF CommInv, Confirm, Takes
<1>2. tasks' \in Seq(Task)
  BY <1>1, Taken DEF Confirm, Rest
<1>3. bdb' \in Bdb /\ bdb'.state = "IDLE" /\ ~bdb'.keyTimer /\ ~bdb'.inProgress
  BY <1>1 DEF Confirm, Bdb
<1>4. bdb.status \in Outcome /\ CancelKeyTimer(timers) \in CommTimers
  BY <1>1, KeyTimerCancelled DEF Bdb
<1>5. timers' \in CommTimers
  BY <1>4, CommissioningCb DEF Confirm
<1>6. CommTypeOK'
  <2>1. Flags'
    BY <1>1 DEF Confirm, Flags, membership
  <2>2. asked' \in Requests
    BY <1>1 DEF Confirm
  <2> QED
    BY <1>2, <1>3, <1>5, <2>1, <2>2, TypesNext
<1>7. IdleTries'
  <2>1. CASE bdb.status = "SUCCESS"
    BY <2>1 DEF Confirm, IdleTries, membership
  <2>2. CASE bdb.status = "PARENT_LOST"
    BY <2>2 DEF Confirm, IdleTries
  <2>3. CASE bdb.status \notin {"SUCCESS", "PARENT_LOST"}
    <3>1. timers'.steer > 0 \/ timers'.backoff
      BY <1>4, <2>3, CommissioningCb DEF Confirm
    <3> QED
      BY <3>1 DEF IdleTries
  <2> QED
    BY <2>1, <2>2, <2>3
<1> QED
  BY <1>3, <1>6, <1>7, NowIdle DEF CommInv

(* The other events and functions of the queue. *)
LEMMA QueueSteps ==
  ASSUME CommInv,
         RetrieveKey \/ PermitJoin \/ IgnoreEvent \/ bdb_mgmtPermitJoiningConfirm
           \/ bdb_commissioningInfoSave
  PROVE  CommInv'
<1>1. /\ bdb \in Bdb /\ timers \in CommTimers /\ asked \in Requests /\ Flags
      /\ bdb.keyTimer => timers.key > 0
      /\ tasks \in Seq(Task) /\ tasks # <<>>
      /\ bdb.state \in {"IDLE", "INIT", "STEER"}
      /\ zdo \in {"idle", "busy"}
      /\ GoesOn
  BY TypesByName
     DEF CommInv, RetrieveKey, PermitJoin, IgnoreEvent, bdb_mgmtPermitJoiningConfirm,
         bdb_commissioningInfoSave, Takes, Bdb, Flags
<1>2. /\ Rest \in Seq(Task)
      /\ \A e : Waits(e, tasks) => e = Head(tasks) \/ Waits(e, Rest)
  BY <1>1, Taken DEF Rest
<1>3. ASSUME NEW task \in {"confirm", "FINISH"}
      PROVE  /\ Append(Rest, task) \in Seq(Task)
             /\ Waits(task, Append(Rest, task))
             /\ \A e : Waits(e, Rest) => Waits(e, Append(Rest, task))
  BY <1>2, Posted, TaskTypes
<1>4. CASE RetrieveKey
  <2>1. timers' \in CommTimers /\ timers'.keyStart /\ timers'.key = timers.key
    BY <1>1, <1>4 DEF RetrieveKey, CommTimers
  <2>2. CommTypeOK'
    BY <1>1, <1>2, <1>4, <2>1, TypesNext DEF RetrieveKey, Flags, membership, outside
  <2>3. bdb'.state = "STEER" /\ SteeringGoesOn'
    BY <1>4, <2>1 DEF RetrieveKey, SteeringGoesOn
  <2> QED
    BY <2>2, <2>3, NowSteering DEF CommInv
<1>5. CASE PermitJoin
  <2>1. tasks' \in Seq(Task) /\ Waits("confirm", tasks')
    BY <1>3, <1>5 DEF PermitJoin
  <2>2. CommTypeOK'
    BY <1>1, <1>5, <2>1, TypesNext DEF PermitJoin, Flags, membership, outside
  <2>3. bdb'.state = "STEER" /\ SteeringGoesOn'
    BY <1>5, <2>1 DEF PermitJoin, SteeringGoesOn
  <2> QED
    BY <2>2, <2>3, NowSteering DEF CommInv
<1>6. CASE IgnoreEvent
  <2>1. Head(tasks) \notin Wanted
    BY <1>1, <1>6 DEF IgnoreEvent, Ignored, Takes, Wanted
  <2>2. \A e \in Wanted : Waits(e, tasks) => Waits(e, tasks')
    BY <1>2, <1>6, <2>1 DEF IgnoreEvent
  <2>3. UNCHANGED <<bdb, timers, zdo, asked, joined, factoryNew, saved, off, reach, astray>>
    BY <1>6 DEF IgnoreEvent, membership, outside
  <2>4. GoesOn'
    BY <1>1, <2>2, <2>3, NothingTaken
  <2>5. CommTypeOK'
    BY <1>1, <1>2, <1>6, <2>3, TypesNext DEF IgnoreEvent, Flags
  <2> QED
    BY <2>4, <2>5 DEF CommInv
<1>7. CASE bdb_mgmtPermitJoiningConfirm
  <2>1. /\ bdb' = [bdb EXCEPT !.status = "SUCCESS"]
        /\ tasks' = IF bdb.state = "STEER" THEN Append(Rest, "FINISH") ELSE Rest
        /\ Head(tasks) = "confirm"
        /\ saved' = (saved \/ bdb.onNetwork)
        /\ UNCHANGED <<timers, zdo, asked, joined, factoryNew, off, reach, astray>>
    BY <1>7 DEF bdb_mgmtPermitJoiningConfirm, Takes, outside
  <2>2. /\ bdb' \in Bdb /\ bdb.onNetwork \in BOOLEAN
        /\ UNCHANGED <<bdb.state, bdb.inProgress, bdb.initFailed, bdb.onNetwork, bdb.keyTimer>>
    BY <1>1, <2>1 DEF Bdb, Outcome
  <2>3. CommTypeOK'
    <3>1. tasks' \in Seq(Task)
      BY <1>2, <1>3, <2>1
    <3>2. Flags'
      BY <1>1, <2>1, <2>2 DEF Flags
    <3> QED
      BY <1>1, <2>1, <2>2, <3>1, <3>2, TypesNext
  <2>4. CASE bdb.state = "STEER"
    <3>1. bdb'.state = "STEER" /\ Waits("FINISH", tasks')
      BY <1>3, <2>1, <2>2, <2>4
    <3> QED
      BY <2>3, <3>1, NowSteering DEF CommInv, SteeringGoesOn
  <2>5. CASE bdb.state # "STEER"
    <3>1. \A e \in Wanted : Waits(e, tasks) => Waits(e, tasks')
      BY <1>1, <1>2, <2>1, <2>5 DEF Wanted
    <3>2. GoesOn'
      BY <1>1, <2>1, <2>2, <3>1, NothingTaken
    <3> QED
      BY <2>3, <3>2 DEF CommInv
  <2> QED
    BY <2>4, <2>5
<1>8. CASE bdb_commissioningInfoSave
  <2>1. Head(tasks) \notin Wanted
    BY <1>1, <1>8 DEF bdb_commissioningInfoSave, Takes, Wanted
  <2>2. \A e \in Wanted : Waits(e, tasks) => Waits(e, tasks')
    BY <1>2, <1>8, <2>1 DEF bdb_commissioningInfoSave
  <2>3. UNCHANGED <<bdb, timers, zdo, asked, joined, factoryNew, off, reach, astray>>
    BY <1>8 DEF bdb_commissioningInfoSave, outside
  <2>4. GoesOn'
    BY <1>1, <2>2, <2>3, NothingTaken
  <2>5. CommTypeOK'
    BY <1>1, <1>2, <1>8, <2>3, TypesNext DEF bdb_commissioningInfoSave, Flags
  <2> QED
    BY <2>4, <2>5 DEF CommInv
<1> QED
  BY <1>4, <1>5, <1>6, <1>7, <1>8

-----------------------------------------------------------------------------
(* The timers.                                                             *)

(* A timer that finds the BDB at work does nothing, because what is at     *)
(* work goes on.                                                           *)
LEMMA SteerTimerStep == CommInv /\ SteerTimer => CommInv'
<1> SUFFICES ASSUME CommInv, SteerTimer PROVE CommInv'
  OBVIOUS
<1>1. /\ bdb \in Bdb /\ timers \in CommTimers /\ asked \in Requests /\ Flags
      /\ bdb.keyTimer => timers.key > 0
      /\ tasks \in Seq(Task)
      /\ bdb.state \in {"IDLE", "INIT", "STEER"}
      /\ zdo \in {"idle", "busy"}
      /\ GoesOn
  BY TypesByName DEF CommInv, Bdb, Flags
<1>2. /\ timers' \in CommTimers
      /\ UNCHANGED <<timers.delayed, timers.keyStart, timers.key, timers.backoff>>
  <2>1. timers.steer - 1 \in 0 .. MaxSteers
    BY <1>1, CommAssumption DEF SteerTimer, CommTimers
  <2> QED
    BY <1>1, <2>1 DEF SteerTimer, CommTimers
<1>3. UNCHANGED <<zdo, asked, joined, factoryNew, saved, off, reach, astray>>
  BY DEF SteerTimer, membership, outside
<1>4. Flags'
  BY <1>1, <1>3 DEF Flags
<1>5. CASE bdb.state = "IDLE" /\ zdo = "idle" /\ ~bdb.inProgress
  <2>1. bdb' \in Bdb /\ bdb'.state = "IDLE" /\ bdb'.keyTimer = bdb.keyTimer
    <3>1. bdb' = [bdb EXCEPT !.inProgress = TRUE]
      BY <1>5 DEF SteerTimer
    <3> QED
      BY <1>1, <1>5, <3>1 DEF Bdb
  <2>2. tasks' \in Seq(Task) /\ Waits("START", tasks')
    <3>1. tasks' = Append(tasks, "START")
      BY <1>5 DEF SteerTimer, Post
    <3> QED
      BY <1>1, <3>1, Posted, TaskTypes
  <2>3. CommTypeOK'
    BY <1>1, <1>2, <1>3, <1>4, <2>1, <2>2, TypesNext
  <2> QED
    BY <2>1, <2>2, <2>3, NowIdle DEF CommInv, IdleTries
<1>6. CASE ~(bdb.state = "IDLE" /\ zdo = "idle" /\ ~bdb.inProgress)
  <2>1. UNCHANGED <<bdb, tasks>>
    BY <1>6 DEF SteerTimer
  <2>2. CommTypeOK'
    BY <1>1, <1>2, <1>3, <1>4, <2>1, TypesNext
  <2>3. GoesOn'
    BY <1>1, <1>2, <1>3, <1>6, <2>1
       DEF GoesOn, InitHasTask, InitFoundNetwork, SteeringGoesOn, StartIsPosted, IdleTries
  <2> QED
    BY <2>2, <2>3 DEF CommInv
<1> QED
  BY <1>5, <1>6

(* Delayed events are posted; the start of the key exchange starts its     *)
(* timer, which asks again, leaves, or posts the end.                      *)
LEMMA ExchangeSteps ==
  ASSUME CommInv, bdb_task_delay \/ bdb_retrieveTcLinkKeyStart \/ KeyTimer
  PROVE  CommInv'
<1>1. /\ bdb \in Bdb /\ timers \in CommTimers /\ asked \in Requests /\ Flags
      /\ bdb.keyTimer => timers.key > 0
      /\ tasks \in Seq(Task)
      /\ bdb.state \in {"IDLE", "INIT", "STEER"}
      /\ zdo \in {"idle", "busy"}
      /\ GoesOn
  BY TypesByName DEF CommInv, Bdb, Flags
<1>2. UNCHANGED <<zdo, joined, factoryNew, saved, off, reach, astray>>
  BY DEF bdb_task_delay, bdb_retrieveTcLinkKeyStart, KeyTimer, KeyAskAgain, KeyLeave,
         KeyGiveUp, membership, outside
<1>3. Flags'
  BY <1>1, <1>2 DEF Flags
<1>4. asked.desc \in 0 .. MaxAsked /\ OneMore(asked.desc, MaxAsked) \in 0 .. MaxAsked
  BY <1>1, Counted, CommAssumption DEF Requests
<1>5. CASE bdb_task_delay
  <2>1. PICK evt \in timers.delayed :
          timers' = [timers EXCEPT !.delayed = @ \ {evt}] /\ Post(evt)
    BY <1>5 DEF bdb_task_delay
  <2>2. evt \in {"RETRIEVE", "PERMITJOIN"}
    BY <1>1 DEF CommTimers
  <2>3. /\ tasks' \in Seq(Task) /\ Waits(evt, tasks')
        /\ \A e : Waits(e, tasks) => Waits(e, tasks')
    BY <1>1, <2>1, <2>2, Posted, TaskTypes DEF Post
  <2>4. /\ timers' \in CommTimers
        /\ UNCHANGED <<timers.steer, timers.keyStart, timers.key, timers.backoff>>
    BY <1>1, <2>1 DEF CommTimers
  <2>5. UNCHANGED <<bdb, asked>>
    BY <1>5 DEF bdb_task_delay
  <2>6. CommTypeOK'
    BY <1>1, <1>3, <2>3, <2>4, <2>5, TypesNext
  <2>7. CASE bdb.state = "STEER"
    <3>1. SteeringGoesOn'
      BY <2>2, <2>3 DEF SteeringGoesOn
    <3> QED
      BY <2>5, <2>6, <2>7, <3>1, NowSteering DEF CommInv
  <2>8. CASE bdb.state # "STEER"
    <3>1. GoesOn'
      BY <1>1, <1>2, <2>3, <2>4, <2>5, <2>8
         DEF GoesOn, InitHasTask, InitFoundNetwork, SteeringGoesOn, StartIsPosted, IdleTries
    <3> QED
      BY <2>6, <3>1 DEF CommInv
  <2> QED
    BY <2>7, <2>8
<1>6. CASE bdb_retrieveTcLinkKeyStart
  <2>1. /\ bdb' \in Bdb
        /\ UNCHANGED <<bdb.state, bdb.inProgress, bdb.initFailed, bdb.onNetwork>>
    <3>1. bdb' = [bdb EXCEPT !.leaveDoing = FALSE, !.attempts = 0, !.keyTimer = TRUE]
      BY <1>6 DEF bdb_retrieveTcLinkKeyStart
    <3>2. 0 \in 0 .. KeyAttempts
      BY CommAssumption
    <3> QED
      BY <1>1, <3>1, <3>2 DEF Bdb
  <2>2. asked' \in Requests
    BY <1>1, <1>4, <1>6 DEF bdb_retrieveTcLinkKeyStart, AskDescriptor, Requests
  <2>3. /\ timers' \in CommTimers /\ timers'.key > 0
        /\ UNCHANGED <<timers.steer, timers.backoff>>
    <3> DEFINE key == IF bdb.keyTimer THEN timers.key ELSE OneMore(timers.key, MaxKeyTimers)
    <3>1. timers.key \in 0 .. MaxKeyTimers
      BY <1>1 DEF CommTimers
    <3>2. key \in 0 .. MaxKeyTimers /\ key > 0
      BY <1>1, <3>1, Counted, CommAssumption
    <3>3. timers' = [timers EXCEPT !.keyStart = FALSE, !.key = key]
      BY <1>1, <1>6 DEF bdb_retrieveTcLinkKeyStart, CommTimers
    <3> HIDE DEF key
    <3> QED
      BY <1>1, <3>2, <3>3 DEF CommTimers
  <2>4. tasks' = tasks
    BY <1>6 DEF bdb_retrieveTcLinkKeyStart
  <2>5. CommTypeOK'
    BY <1>1, <1>3, <2>1, <2>2, <2>3, <2>4, TypesNext
  <2>6. GoesOn'
    BY <1>1, <1>2, <2>1, <2>3, <2>4, NothingTaken
  <2> QED
    BY <2>5, <2>6 DEF CommInv
<1>7. CASE KeyAskAgain \/ KeyLeave
  <2>1. /\ bdb' \in Bdb
        /\ UNCHANGED <<bdb.state, bdb.inProgress, bdb.initFailed, bdb.onNetwork, bdb.keyTimer>>
    <3>1. CASE KeyAskAgain
      <4>1. bdb.attempts + 1 \in 0 .. KeyAttempts
        BY <1>1, <3>1, CommAssumption DEF KeyAskAgain, Bdb
      <4> QED
        BY <1>1, <3>1, <4>1 DEF KeyAskAgain, Bdb
    <3>2. CASE KeyLeave
      BY <1>1, <3>2 DEF KeyLeave, Bdb
    <3> QED
      BY <1>7, <3>1, <3>2
  <2>2. asked' \in Requests
    BY <1>1, <1>4, <1>7 DEF KeyAskAgain, KeyLeave, AskDescriptor, Requests
  <2>3. UNCHANGED <<tasks, timers>>
    BY <1>7 DEF KeyAskAgain, KeyLeave
  <2>4. CommTypeOK'
    BY <1>1, <1>3, <2>1, <2>2, <2>3, TypesNext
  <2>5. GoesOn'
    BY <1>1, <1>2, <2>1, <2>3, NothingTaken
  <2> QED
    BY <2>4, <2>5 DEF CommInv
<1>8. CASE KeyGiveUp
  <2>1. /\ bdb' \in Bdb
        /\ UNCHANGED <<bdb.state, bdb.inProgress, bdb.initFailed>>
        /\ ~bdb'.onNetwork /\ ~bdb'.keyTimer
    <3>1. bdb' = [bdb EXCEPT !.attempts = 0, !.keyTimer = FALSE,
                    !.status = "TCLK_EX_FAILURE", !.onNetwork = FALSE]
      BY <1>8 DEF KeyGiveUp
    <3>2. 0 \in 0 .. KeyAttempts /\ "TCLK_EX_FAILURE" \in Outcome
      BY CommAssumption DEF Outcome
    <3> QED
      BY <1>1, <3>1, <3>2 DEF Bdb
  <2>2. /\ timers' \in CommTimers
        /\ UNCHANGED <<timers.steer, timers.backoff>>
    <3>1. timers.key - 1 \in 0 .. MaxKeyTimers
      BY <1>1, <1>8, CommAssumption DEF KeyGiveUp, CommTimers
    <3> QED
      BY <1>1, <1>8, <3>1 DEF KeyGiveUp, CommTimers
  <2>3. /\ tasks' \in Seq(Task) /\ Waits("FINISH", tasks')
        /\ \A e : Waits(e, tasks) => Waits(e, tasks')
    BY <1>1, <1>8, Posted, TaskTypes DEF KeyGiveUp, Post
  <2>4. asked' = asked
    BY <1>8 DEF KeyGiveUp
  <2>5. CommTypeOK'
    BY <1>1, <1>3, <2>1, <2>2, <2>3, <2>4, TypesNext
  <2>6. GoesOn'
    BY <1>1, <1>2, <2>1, <2>2, <2>3
       DEF GoesOn, InitHasTask, InitFoundNetwork, SteeringGoesOn, StartIsPosted, IdleTries
  <2> QED
    BY <2>5, <2>6 DEF CommInv
<1> QED
  BY <1>5, <1>6, <1>7, <1>8 DEF KeyTimer

(* A backoff that ends rejoins, or is told apart; the limit of thirty      *)
(* minutes ends with the device joined, or in deep sleep.                  *)
LEMMA LongTimerSteps ==
  ASSUME CommInv, app_rejoinBacckoff \/ NoJoinedSleeps \/ NoJoinedEnds
  PROVE  CommInv'
<1>1. /\ bdb \in Bdb /\ timers \in CommTimers /\ asked \in Requests /\ Flags
      /\ bdb.keyTimer => timers.key > 0
      /\ tasks \in Seq(Task)
      /\ bdb.state \in {"IDLE", "INIT", "STEER"}
      /\ zdo \in {"idle", "busy"} /\ saved \in BOOLEAN
      /\ GoesOn
  BY TypesByName DEF CommInv, Bdb, Flags
<1>2. CASE app_rejoinBacckoff
  <2>1. UNCHANGED <<bdb, tasks, asked, joined, factoryNew, saved, off, reach>>
    BY <1>2 DEF app_rejoinBacckoff, membership
  <2>2. CASE factoryNew
    <3>1. /\ timers' \in CommTimers
          /\ UNCHANGED <<timers.delayed, timers.keyStart, timers.key>>
      BY <1>1, <1>2, <2>2 DEF app_rejoinBacckoff, CommTimers
    <3>2. astray' = "forgot" /\ zdo' = zdo
      BY <1>2, <2>2 DEF app_rejoinBacckoff
    <3>3. CommTypeOK'
      BY <1>1, <2>1, <3>1, <3>2, TypesNext DEF Flags
    <3>4. GoesOn'
      BY <1>1, <2>1, <3>1, <3>2
         DEF GoesOn, InitHasTask, InitFoundNetwork, SteeringGoesOn, StartIsPosted, IdleTries
    <3> QED
      BY <3>3, <3>4 DEF CommInv
  <2>3. CASE ~factoryNew
    <3>1. zdo' = "busy" /\ UNCHANGED <<timers, astray>>
      BY <1>2, <2>3 DEF app_rejoinBacckoff
    <3>2. CommTypeOK'
      BY <1>1, <2>1, <3>1, TypesNext DEF Flags
    <3>3. GoesOn'
      BY <1>1, <2>1, <3>1, NothingTaken
    <3> QED
      BY <3>2, <3>3 DEF CommInv
  <2> QED
    BY <2>2, <2>3
<1>3. CASE NoJoinedSleeps
  <2>1. bdb' \in Bdb /\ bdb'.state = "INIT" /\ ~bdb'.inProgress /\ ~bdb'.keyTimer
    <3>1. bdb' = FreshBdb(~saved) /\ (~saved) \in BOOLEAN
      BY <1>3 DEF NoJoinedSleeps
    <3> QED
      BY <3>1, Fresh DEF FreshBdb
  <2>2. timers' \in CommTimers /\ asked' \in Requests
    BY <1>3, CommAssumption DEF NoJoinedSleeps, NoTimers, NothingAsked, CommTimers, Requests
  <2>3. Flags' /\ tasks' = tasks /\ off'
    BY <1>1, <1>3 DEF NoJoinedSleeps, Flags
  <2>4. CommTypeOK'
    BY <1>1, <2>1, <2>2, <2>3, TypesNext
  <2>5. GoesOn'
    BY <2>1, <2>3, NowInit DEF InitHasTask, InitFoundNetwork
  <2> QED
    BY <2>4, <2>5 DEF CommInv
<1>4. CASE NoJoinedEnds
  <2>1. /\ timers' \in CommTimers
        /\ UNCHANGED <<timers.steer, timers.delayed, timers.keyStart, timers.key, timers.backoff>>
    BY <1>1, <1>4 DEF NoJoinedEnds, CommTimers
  <2>2. UNCHANGED <<bdb, tasks, zdo, asked, joined, factoryNew, saved, off, reach, astray>>
    BY <1>4 DEF NoJoinedEnds, membership, outside
  <2>3. CommTypeOK'
    BY <1>1, <2>1, <2>2, TypesNext DEF Flags
  <2>4. GoesOn'
    BY <1>1, <2>1, <2>2, NothingTaken
  <2> QED
    BY <2>3, <2>4 DEF CommInv
<1> QED
  BY <1>2, <1>3, <1>4

-----------------------------------------------------------------------------
(* The ZDO and the network.                                                *)

(* In each state a confirmation of the ZDO leaves an event or a timer that *)
(* goes on from there.                                                     *)
LEMMA Confirmed ==
  ASSUME bdb \in Bdb, tasks \in Seq(Task), timers \in CommTimers,
         NEW status, StartDevCnf(status)
  PROVE  /\ bdb' \in Bdb /\ tasks' \in Seq(Task) /\ timers' \in CommTimers
         /\ UNCHANGED <<bdb.state, bdb.inProgress, bdb.keyTimer, timers.key>>
         /\ bdb.state = "IDLE" => Waits("FINISH", tasks')
         /\ bdb.state = "INIT" => Waits("INIT_DONE", tasks')
                                    /\ (bdb'.initFailed <=> status # "SUCCESS")
         /\ bdb.state = "STEER" => Waits("FINISH", tasks') \/ timers'.delayed # {}
         /\ \A e : Waits(e, tasks) => Waits(e, tasks')
<1> DEFINE ok == status = "SUCCESS"
<1>1. bdb.state \in {"IDLE", "INIT", "STEER"} /\ bdb.onNetwork \in BOOLEAN
  BY DEF Bdb
<1>2. ASSUME NEW queue \in Seq(Task), NEW task \in Task
      PROVE  /\ Append(queue, task) \in Seq(Task)
             /\ Waits(task, Append(queue, task))
             /\ \A e : Waits(e, queue) => Waits(e, Append(queue, task))
  BY Posted
<1>3. CASE bdb.state = "IDLE"
  <2>1. /\ bdb' = [bdb EXCEPT !.onNetwork = @ \/ ok,
                     !.status = CASE ok -> "SUCCESS"
                                  [] status = "NETWORK_LOST" -> "PARENT_LOST"
                                  [] OTHER -> "REJOIN_FAILURE"]
        /\ UNCHANGED timers
    BY <1>3 DEF StartDevCnf
  <2>2. PICK queue \in {tasks, Append(tasks, "save")} : tasks' = Append(queue, "FINISH")
    BY <1>3 DEF StartDevCnf, MaySave
  <2>3. queue \in Seq(Task) /\ \A e : Waits(e, tasks) => Waits(e, queue)
    BY <1>2, <2>2, TaskTypes
  <2>4. /\ tasks' \in Seq(Task) /\ Waits("FINISH", tasks')
        /\ \A e : Waits(e, tasks) => Waits(e, tasks')
    BY <1>2, <2>2, <2>3, TaskTypes
  <2>5. bdb' \in Bdb /\ UNCHANGED <<bdb.state, bdb.inProgress, bdb.keyTimer>>
    <3> DEFINE s == CASE ok -> "SUCCESS"
                      [] status = "NETWORK_LOST" -> "PARENT_LOST"
                      [] OTHER -> "REJOIN_FAILURE"
               n == bdb.onNetwork \/ ok
    <3>1. s \in Outcome
      BY DEF Outcome
    <3>2. n \in BOOLEAN
      BY <1>1
    <3>3. bdb' = [bdb EXCEPT !.onNetwork = n, !.status = s]
      BY <2>1
    <3> HIDE DEF s, n
    <3> QED
      BY <3>1, <3>2, <3>3 DEF Bdb
  <2> QED
    BY <1>3, <2>1, <2>4, <2>5
<1>4. CASE bdb.state = "INIT"
  <2>1. bdb' = [bdb EXCEPT !.initFailed = ~ok] /\ UNCHANGED timers
    BY <1>4 DEF StartDevCnf
  <2>2. tasks' = Append(tasks, "INIT_DONE")
    BY <1>4 DEF StartDevCnf, Post
  <2>3. /\ tasks' \in Seq(Task) /\ Waits("INIT_DONE", tasks')
        /\ \A e : Waits(e, tasks) => Waits(e, tasks')
    BY <1>2, <2>2, TaskTypes
  <2>4. /\ bdb' \in Bdb /\ UNCHANGED <<bdb.state, bdb.inProgress, bdb.keyTimer>>
        /\ bdb'.initFailed = ~ok
    <3> DEFINE failed == ~ok
    <3>1. failed \in BOOLEAN /\ bdb' = [bdb EXCEPT !.initFailed = failed]
      BY <2>1
    <3> HIDE DEF failed
    <3>2. bdb'.initFailed = failed
      BY <3>1 DEF Bdb
    <3> QED
      BY <3>1, <3>2 DEF Bdb, failed
  <2> QED
    BY <1>4, <2>1, <2>3, <2>4
<1>5. CASE bdb.state = "STEER" /\ ok
  <2>1. bdb' = [bdb EXCEPT !.onNetwork = TRUE, !.status = "SUCCESS"] /\ UNCHANGED tasks
    BY <1>5 DEF StartDevCnf
  <2>2. PICK evt \in {"RETRIEVE", "PERMITJOIN"} :
          timers' = [timers EXCEPT !.delayed = @ \union {evt}]
    BY <1>5 DEF StartDevCnf
  <2>3. timers' \in CommTimers /\ timers'.delayed # {} /\ UNCHANGED timers.key
    BY <2>2 DEF CommTimers
  <2>4. bdb' \in Bdb /\ UNCHANGED <<bdb.state, bdb.inProgress, bdb.keyTimer>>
    BY <2>1 DEF Bdb, Outcome
  <2> QED
    BY <1>5, <2>1, <2>3, <2>4
<1>6. CASE bdb.state = "STEER" /\ ~ok
  <2>1. bdb' = [bdb EXCEPT !.status = "NO_NETWORK"] /\ UNCHANGED timers
    BY <1>6 DEF StartDevCnf
  <2>2. tasks' = Append(tasks, "FINISH")
    BY <1>6 DEF StartDevCnf, Post
  <2>3. /\ tasks' \in Seq(Task) /\ Waits("FINISH", tasks')
        /\ \A e : Waits(e, tasks) => Waits(e, tasks')
    BY <1>2, <2>2, TaskTypes
  <2>4. bdb' \in Bdb /\ UNCHANGED <<bdb.state, bdb.inProgress, bdb.keyTimer>>
    BY <2>1 DEF Bdb, Outcome
  <2> QED
    BY <1>6, <2>1, <2>3, <2>4
<1> QED
  BY <1>1, <1>3, <1>4, <1>5, <1>6

LEMMA ZdoSteps ==
  ASSUME CommInv, ZdoJoins \/ ZdoFails \/ ParentLost
  PROVE  CommInv'
<1>1. /\ bdb \in Bdb /\ timers \in CommTimers /\ asked \in Requests /\ Flags
      /\ bdb.keyTimer => timers.key > 0
      /\ tasks \in Seq(Task)
      /\ bdb.state \in {"IDLE", "INIT", "STEER"}
      /\ GoesOn
  BY TypesByName DEF CommInv, Bdb, Flags
<1>2. PICK status \in {"SUCCESS", "FAILURE", "NETWORK_LOST"} :
        /\ StartDevCnf(status)
        /\ status = "SUCCESS" => joined'
  BY DEF ZdoJoins, ZdoFails, ParentLost
<1>3. /\ bdb' \in Bdb /\ tasks' \in Seq(Task) /\ timers' \in CommTimers
      /\ UNCHANGED <<bdb.state, bdb.inProgress, bdb.keyTimer, timers.key>>
      /\ bdb.state = "IDLE" => Waits("FINISH", tasks')
      /\ bdb.state = "INIT" => Waits("INIT_DONE", tasks')
                                 /\ (bdb'.initFailed <=> status # "SUCCESS")
      /\ bdb.state = "STEER" => Waits("FINISH", tasks') \/ timers'.delayed # {}
      /\ \A e : Waits(e, tasks) => Waits(e, tasks')
  BY <1>1, <1>2, Confirmed
<1>4. asked' \in Requests
  <2>1. asked' = asked \/ asked' = NothingAsked
    BY DEF ZdoJoins, ZdoFails, ParentLost
  <2>2. NothingAsked \in Requests
    BY CommAssumption DEF NothingAsked, Requests
  <2> QED
    BY <1>1, <2>1, <2>2
<1>5. Flags'
  BY <1>1 DEF ZdoJoins, ZdoFails, ParentLost, Flags, outside
<1>6. CommTypeOK'
  BY <1>1, <1>3, <1>4, <1>5, TypesNext
<1>7. GoesOn'
  BY <1>1, <1>2, <1>3
     DEF GoesOn, InitHasTask, InitFoundNetwork, SteeringGoesOn, StartIsPosted, IdleTries
<1> QED
  BY <1>6, <1>7 DEF CommInv

LEMMA AnswerSteps ==
  ASSUME CommInv,
         DescriptorAnswered \/ OldDescriptorAnswered \/ KeyConfirmed \/ AnswerLost
           \/ LeaveAsked \/ ReachChanges
  PROVE  CommInv'
<1>1. /\ bdb \in Bdb /\ timers \in CommTimers /\ asked \in Requests /\ Flags
      /\ bdb.keyTimer => timers.key > 0
      /\ tasks \in Seq(Task)
      /\ bdb.state \in {"IDLE", "INIT", "STEER"}
      /\ zdo \in {"idle", "busy"}
      /\ GoesOn
  BY TypesByName DEF CommInv, Bdb, Flags
<1>2. asked.desc > 0 => asked.desc - 1 \in 0 .. MaxAsked
  BY <1>1, CommAssumption DEF Requests
<1>3. asked' \in Requests
  <2>1. CASE DescriptorAnswered
    BY <1>1, <1>2, <2>1 DEF DescriptorAnswered, Requests
  <2>2. CASE OldDescriptorAnswered \/ KeyConfirmed
    BY <1>1, <1>2, <2>2 DEF OldDescriptorAnswered, KeyConfirmed, Requests
  <2>3. CASE AnswerLost
    BY <1>1, <1>2, <2>3 DEF AnswerLost, Requests
  <2>4. CASE LeaveAsked \/ ReachChanges
    BY <1>1, <2>4 DEF LeaveAsked, ReachChanges, Requests
  <2> QED
    BY <2>1, <2>2, <2>3, <2>4
<1>4. UNCHANGED <<zdo, joined, factoryNew, saved, off, astray>>
  BY DEF DescriptorAnswered, OldDescriptorAnswered, KeyConfirmed, KeyDone, AnswerLost,
         LeaveAsked, ReachChanges, membership, outside
<1>5. Flags'
  <2>1. reach' = reach \/ reach' = ~reach
    BY DEF DescriptorAnswered, OldDescriptorAnswered, KeyConfirmed, KeyDone, AnswerLost,
           LeaveAsked, ReachChanges, outside
  <2> QED
    BY <1>1, <1>4, <2>1 DEF Flags
<1>6. CASE DescriptorAnswered
  <2>1. /\ bdb' \in Bdb /\ ~bdb'.onNetwork
        /\ UNCHANGED <<bdb.state, bdb.inProgress, bdb.initFailed, bdb.keyTimer>>
    BY <1>1, <1>6 DEF DescriptorAnswered, Bdb
  <2>2. UNCHANGED <<tasks, timers>>
    BY <1>6 DEF DescriptorAnswered
  <2>3. CommTypeOK'
    BY <1>1, <1>3, <1>5, <2>1, <2>2, TypesNext
  <2>4. GoesOn'
    BY <1>1, <1>4, <2>1, <2>2, NothingTaken
  <2> QED
    BY <2>3, <2>4 DEF CommInv
<1>7. CASE OldDescriptorAnswered \/ KeyConfirmed
  <2>1. KeyDone /\ joined
    BY <1>7 DEF OldDescriptorAnswered, KeyConfirmed
  <2>2. /\ bdb' \in Bdb /\ ~bdb'.keyTimer
        /\ UNCHANGED <<bdb.state, bdb.inProgress, bdb.initFailed>>
    BY <1>1, <2>1 DEF KeyDone, Bdb, Outcome
  <2>3. timers' \in CommTimers /\ UNCHANGED <<timers.steer, timers.backoff>>
    <3>1. timers' = CancelKeyTimer(timers)
      BY <2>1 DEF KeyDone
    <3> QED
      BY <1>1, <3>1, KeyTimerCancelled DEF CancelKeyTimer, CommTimers
  <2>4. /\ tasks' \in Seq(Task) /\ Waits("PERMITJOIN", tasks')
        /\ \A e : Waits(e, tasks) => Waits(e, tasks')
    BY <1>1, <2>1, Posted, TaskTypes DEF KeyDone, Post
  <2>5. CommTypeOK'
    BY <1>1, <1>3, <1>5, <2>2, <2>3, <2>4, TypesNext
  <2>6. GoesOn'
    BY <1>1, <1>4, <2>1, <2>2, <2>3, <2>4
       DEF GoesOn, InitHasTask, InitFoundNetwork, SteeringGoesOn, StartIsPosted, IdleTries
  <2> QED
    BY <2>5, <2>6 DEF CommInv
<1>8. CASE AnswerLost \/ LeaveAsked \/ ReachChanges
  <2>1. UNCHANGED <<bdb, tasks, timers>>
    BY <1>8 DEF AnswerLost, LeaveAsked, ReachChanges
  <2>2. CommTypeOK'
    BY <1>1, <1>3, <1>5, <2>1, TypesNext
  <2>3. GoesOn'
    BY <1>1, <1>4, <2>1, NothingTaken
  <2> QED
    BY <2>2, <2>3 DEF CommInv
<1> QED
  BY <1>6, <1>7, <1>8

(* Leaving, resets, restarts and the end of the deep sleep. *)
LEMMA StartOverSteps ==
  ASSUME CommInv, SelfLeave \/ tl_bdbReset2FN \/ CommRestart \/ WakeFromDeepSleep
  PROVE  CommInv'
<1>1. /\ bdb \in Bdb /\ timers \in CommTimers /\ asked \in Requests /\ Flags
      /\ bdb.keyTimer => timers.key > 0
      /\ tasks \in Seq(Task)
      /\ bdb.state \in {"IDLE", "INIT", "STEER"}
      /\ saved \in BOOLEAN
      /\ GoesOn
  BY TypesByName DEF CommInv, Bdb, Flags
<1>2. NoTimers \in CommTimers /\ NothingAsked \in Requests
  BY CommAssumption DEF NoTimers, NothingAsked, CommTimers, Requests
<1>3. CASE SelfLeave
  <2>1. /\ bdb' \in Bdb /\ ~bdb'.onNetwork /\ ~bdb'.inProgress
        /\ UNCHANGED <<bdb.state, bdb.keyTimer>>
    <3>1. bdb' = [bdb EXCEPT !.onNetwork = FALSE, !.inProgress = FALSE, !.attempts = 0]
      BY <1>3 DEF SelfLeave
    <3>2. 0 \in 0 .. KeyAttempts
      BY CommAssumption
    <3> QED
      BY <1>1, <3>1, <3>2 DEF Bdb
  <2>2. /\ timers' \in CommTimers
        /\ UNCHANGED <<timers.delayed, timers.keyStart, timers.key>>
    BY <1>1, <1>3 DEF SelfLeave, CommTimers
  <2>3. UNCHANGED <<tasks, zdo, off>> /\ astray' = "left" /\ asked' = NothingAsked /\ Flags'
    BY <1>1, <1>3 DEF SelfLeave, Flags
  <2>4. CommTypeOK'
    BY <1>1, <1>2, <2>1, <2>2, <2>3, TypesNext
  <2>5. GoesOn'
    BY <1>1, <2>1, <2>2, <2>3
       DEF GoesOn, InitHasTask, InitFoundNetwork, SteeringGoesOn, StartIsPosted, IdleTries
  <2> QED
    BY <2>4, <2>5 DEF CommInv
<1>4. CASE tl_bdbReset2FN
  <2>1. /\ bdb' \in Bdb /\ bdb'.state = "INIT" /\ ~bdb'.onNetwork /\ ~bdb'.inProgress
        /\ ~bdb'.keyTimer
    <3>1. bdb' = FreshBdb(TRUE)
      BY <1>4 DEF tl_bdbReset2FN
    <3> QED
      BY <3>1, Fresh DEF FreshBdb
  <2>2. tasks' \in Seq(Task) /\ Waits("INIT_DONE", tasks')
    BY <1>1, <1>4, Posted, TaskTypes DEF tl_bdbReset2FN, Post
  <2>3. timers' \in CommTimers /\ asked' \in Requests /\ Flags'
    BY <1>1, <1>2, <1>4 DEF tl_bdbReset2FN, Flags
  <2>4. CommTypeOK'
    BY <2>1, <2>2, <2>3, TypesNext
  <2>5. GoesOn'
    BY <2>1, <2>2, NowInit DEF InitHasTask, InitFoundNetwork
  <2> QED
    BY <2>4, <2>5 DEF CommInv
<1>5. CASE Boots
  <2>1. /\ bdb' \in Bdb /\ bdb'.state = "INIT" /\ bdb'.onNetwork = saved
        /\ ~bdb'.inProgress /\ ~bdb'.keyTimer
    <3>1. CASE saved
      <4>1. bdb' = FreshBdb(FALSE)
        BY <1>5, <3>1 DEF Boots
      <4> QED
        BY <1>1, <3>1, <4>1, Fresh DEF FreshBdb
    <3>2. CASE ~saved
      <4>1. bdb' = FreshBdb(TRUE)
        BY <1>5, <3>2 DEF Boots
      <4> QED
        BY <1>1, <3>2, <4>1, Fresh DEF FreshBdb
    <3> QED
      BY <3>1, <3>2
  <2>2. /\ tasks' \in Seq(Task)
        /\ saved => zdo' = "busy"
        /\ ~saved => Waits("INIT_DONE", tasks')
    <3>1. "INIT_DONE" \in Task
      BY TaskTypes
    <3>2. <<>> \in Seq(Task) /\ <<"INIT_DONE">> \in Seq(Task)
      BY <3>1
    <3>3. Waits("INIT_DONE", <<"INIT_DONE">>)
      BY DEF Waits
    <3> QED
      BY <1>5, <3>2, <3>3 DEF Boots
  <2>3. timers' \in CommTimers /\ asked' \in Requests /\ Flags'
    BY <1>1, <1>2, <1>5 DEF Boots, Flags
  <2>4. CommTypeOK'
    BY <2>1, <2>2, <2>3, TypesNext
  <2>5. GoesOn'
    BY <2>1, <2>2, NowInit DEF InitHasTask, InitFoundNetwork
  <2> QED
    BY <2>4, <2>5 DEF CommInv
<1>6. CASE WakeFromDeepSleep /\ saved
  <2>1. /\ bdb' = [FreshBdb(FALSE) EXCEPT !.state = "IDLE"]
        /\ joined' = TRUE /\ off' = FALSE /\ factoryNew' = FALSE
        /\ UNCHANGED <<tasks, timers, zdo, saved, asked, reach, astray>>
    BY <1>6 DEF WakeFromDeepSleep
  <2>2. bdb' \in Bdb /\ bdb'.state = "IDLE" /\ ~bdb'.inProgress /\ ~bdb'.keyTimer
    <3>1. /\ FreshBdb(FALSE) \in Bdb
          /\ ~FreshBdb(FALSE).inProgress /\ ~FreshBdb(FALSE).keyTimer
      BY Fresh DEF FreshBdb
    <3> QED
      BY <2>1, <3>1 DEF Bdb
  <2>3. CommTypeOK'
    BY <1>1, <2>1, <2>2, TypesNext DEF Flags
  <2>4. GoesOn'
    BY <2>1, <2>2, NowIdle DEF IdleTries
  <2> QED
    BY <2>3, <2>4 DEF CommInv
<1> QED
  BY <1>3, <1>4, <1>5, <1>6 DEF CommRestart, WakeFromDeepSleep

-----------------------------------------------------------------------------
LEMMA CommStep == CommInv /\ [CommNext]_commVars => CommInv'
<1> SUFFICES ASSUME CommInv, [CommNext]_commVars PROVE CommInv'
  OBVIOUS
<1>1. CASE UNCHANGED commVars
  <2>1. CommTypeOK'
    BY <1>1 DEF CommInv, CommTypeOK, commVars, membership, outside
  <2>2. GoesOn'
    BY <1>1 DEF CommInv, GoesOn, InitHasTask, InitFoundNetwork, SteeringGoesOn,
                StartIsPosted, IdleTries, Waits, commVars, membership, outside
  <2> QED
    BY <2>1, <2>2 DEF CommInv
<1>2. CASE RunTask
  BY <1>2, TaskInInitStep, StartSteeringStep, ConfirmStep, QueueSteps DEF RunTask
<1>3. CASE Timers
  BY <1>3, SteerTimerStep, ExchangeSteps, LongTimerSteps DEF Timers
<1>4. CASE Network
  BY <1>4, ZdoSteps, AnswerSteps, StartOverSteps DEF Network
<1>5. CASE Disturbance \/ ReachChanges
  BY <1>5, AnswerSteps, StartOverSteps DEF Disturbance
<1> QED
  BY <1>1, <1>2, <1>3, <1>4, <1>5 DEF CommNext

LEMMA CommInvariance == CommSpec => []CommInv
  BY CommInitially, CommStep, PTL DEF CommSpec

(* The events, timers and requests of the commissioning keep to their      *)
(* types in every order, for any number of attempts and any bound of the   *)
(* queue; and the handle of the key exchange always names a timer          *)
(* (bdb.c:1178-1290).                                                      *)
THEOREM CommIsTyped == CommSpec => []CommTypeOK
<1>1. CommInv => CommTypeOK
  BY DEF CommInv
<1> QED
  BY CommInvariance, <1>1, PTL

(* A device without a network keeps trying, but in the named ways: in each *)
(* state of the BDB the event or the timer that goes on with the try is    *)
(* there (bdb.c:1037-1300, zb_appCb.c:91-236).                             *)
THEOREM TriesOn == CommSpec => []TriesOnUnlessAstray
<1>1. CommInv => TriesOnUnlessAstray
  <2> SUFFICES ASSUME CommInv, Stranded, astray = "no" PROVE FALSE
    BY DEF TriesOnUnlessAstray
  <2>1. /\ ~off /\ ~joined /\ zdo # "busy"
        /\ timers.steer > 0 \/ timers.delayed # {} \/ timers.keyStart
             \/ timers.key > 0 \/ timers.backoff => FALSE
    BY DEF Stranded, Trying
  <2>2. /\ tasks \in Seq(Task) /\ bdb.state \in {"IDLE", "INIT", "STEER"}
        /\ GoesOn
    BY TypesByName DEF CommInv, Bdb
  <2>3. ASSUME NEW e \in Task \ {"save"} PROVE ~Waits(e, tasks)
    BY <2>2 DEF Stranded, Trying, Waits
  <2>4. {"INIT_DONE", "START", "RETRIEVE", "PERMITJOIN", "FINISH", "confirm"}
          \subseteq Task \ {"save"}
    BY TaskTypes
  <2> QED
    BY <2>1, <2>2, <2>3, <2>4 DEF GoesOn, InitHasTask, SteeringGoesOn, IdleTries
<1> QED
  BY CommInvariance, <1>1, PTL
=============================================================================
