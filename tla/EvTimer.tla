------------------------------- MODULE EvTimer -------------------------------
(***************************************************************************)
(* The software timers (ev_timer.c) that all of the firmware runs on: a    *)
(* fixed pool of timer events, the list of those that are scheduled, the   *)
(* handles their users keep, and the passes of the main loop that charge   *)
(* the elapsed time to the timers and call back those whose time has come. *)
(* A callback may itself cancel and schedule other timers while the loop   *)
(* over the list is under way.                                             *)
(*                                                                         *)
(* The users are those of the application: a user keeps one handle and     *)
(* either starts a timer when it has none or cancels it first              *)
(* (zb_appCb.c:126-129, 286-288), and its callback clears the handle when  *)
(* it ends (app_reporting.c:220-223).  The network steering keeps no       *)
(* handle (zb_appCb.c:259).                                                *)
(*                                                                         *)
(* Time is in ticks of the system timer, which wraps; the passes through   *)
(* the list take none.                                                     *)
(***************************************************************************)
EXTENDS Naturals, Sequences, FiniteSets

CONSTANTS
  MaxNum,     \* TIMER_EVENT_NUM
  Owner,      \* the callbacks
  Detached,   \* those scheduled without a handle, which always end
  Periods,    \* timeouts and new periods, in ms
  TickMs,     \* ticks in a millisecond
  TickSpace,  \* the tick counter is a u32
  MaxGap      \* bound: ticks between two passes of an awake main loop

ASSUME TimerAssumption ==
  /\ MaxNum \in Nat \ {0}
  /\ Detached \subseteq Owner
  /\ Periods \subseteq Nat \ {0}
  /\ TickMs \in Nat \ {0}
  /\ TickSpace \in Nat /\ TickSpace > TickMs
  /\ MaxGap \in 0 .. TickSpace - 1

VARIABLES
  timers,    \* ev_timer: pool, list and nearest timer; and the users' handles
  pc,        \* where the main loop is
  cursor,    \* timerEvt and
  prev_head, \* prev_head of ev_timer_executeCB
  clock,     \* clock_time()
  prevTick,  \* prevSysTick
  remTick    \* remSysTick

vars == <<timers, pc, cursor, prev_head, clock, prevTick, remTick>>

(* A slot is its index in the pool. *)
Slot == 1 .. MaxNum
None == 0

Tick == 0 .. TickSpace - 1

(* A timer event: age is history, the ticks since it was armed, counted up *)
(* to its period.                                                          *)
Event == [cb : Owner, timeout : Nat, period : Nat, curSysTick : Tick,
          isRunning : BOOLEAN, age : Nat]

(* The used slots are the domain of evt. *)
Timers ==
  [evt : UNION {[used -> Event] : used \in SUBSET Slot},
   used_num : 0 .. MaxNum,
   list : Seq(Slot),
   nearest : Slot \union {None},
   handle : [Owner -> Slot \union {None}]]

NoTimers == [evt |-> <<>>, used_num |-> 0, list |-> <<>>, nearest |-> None,
             handle |-> [o \in Owner |-> None]]

TypeOK ==
  /\ timers \in Timers
  /\ pc \in {"process", "execute", "tasks"}
  /\ cursor \in Slot \union {None}
  /\ prev_head \in Slot \union {None}
  /\ clock \in Tick
  /\ prevTick \in Tick
  /\ remTick \in 0 .. TickMs - 1

Init ==
  /\ timers = NoTimers
  /\ pc = "process"
  /\ cursor = None
  /\ prev_head = None
  /\ clock = 0
  /\ prevTick = 0
  /\ remTick = 0

-----------------------------------------------------------------------------
(* The list. *)

Listed(e) == {e.list[k] : k \in 1 .. Len(e.list)}

Position(list, s) == CHOOSE k \in 1 .. Len(list) : list[k] = s

HeadOf(list) == IF list = <<>> THEN None ELSE Head(list)

After(list, s) ==
  IF Position(list, s) = Len(list) THEN None ELSE list[Position(list, s) + 1]

(* LIST_DELETE of an element of the list. *)
Delete(list, s) ==
  [k \in 1 .. Len(list) - 1 |->
     IF k < Position(list, s) THEN list[k] ELSE list[k + 1]]

(* Mutant: the nearest timer is the head of the list. *)
NearestHead(e) == [e EXCEPT !.nearest = HeadOf(e.list)]

(* ev_timer_nearestUpdate: the first of the timers that are due first. *)
NearestUpdate(e) ==
  [e EXCEPT !.nearest =
     IF e.list = <<>> THEN None
     ELSE e.list[CHOOSE k \in 1 .. Len(e.list) :
            \A j \in 1 .. Len(e.list) :
              /\ e.evt[e.list[k]].timeout <= e.evt[e.list[j]].timeout
              /\ j < k => e.evt[e.list[k]].timeout < e.evt[e.list[j]].timeout]]

-----------------------------------------------------------------------------
(* The operations of a user. *)

(* ev_timer_freeGet finds nothing. *)
Full(e) == e.used_num >= MaxNum \/ Slot \subseteq DOMAIN e.evt

FreeSlot(e) ==
  CHOOSE s \in Slot \ DOMAIN e.evt : \A r \in Slot \ DOMAIN e.evt : s <= r

NewTimer(o, ms) ==
  [cb |-> o, timeout |-> ms, period |-> ms, curSysTick |-> clock,
   isRunning |-> FALSE, age |-> 0]

(* ev_timer_taskPost; the user stores the handle, if it has one.  *)
Schedule(e, o, ms) ==
  LET s == FreeSlot(e)
  IN NearestUpdate(
       [e EXCEPT !.evt = [r \in DOMAIN @ \union {s} |->
                            IF r = s THEN NewTimer(o, ms) ELSE @[r]],
                 !.used_num = @ + 1,
                 !.list = <<s>> \o @,
                 !.handle[o] = IF o \in Detached THEN @ ELSE s])

(* Mutant: the slot is not given back to the counter. *)
UnonKeepsCount(e, s) ==
  IF s \notin Listed(e) THEN e
  ELSE NearestUpdate(
         [e EXCEPT !.evt = [r \in DOMAIN @ \ {s} |-> @[r]],
                   !.list = Delete(@, s)])

(* ev_unon_timer: a timer that is not scheduled is left alone. *)
ev_unon_timer(e, s) ==
  IF s \notin Listed(e) THEN e
  ELSE NearestUpdate(
         [e EXCEPT !.evt = [r \in DOMAIN @ \ {s} |-> @[r]],
                   !.used_num = @ - 1,
                   !.list = Delete(@, s)])

(* Mutant: the handle of a cancelled timer stays. *)
CancelKeepsHandle(e, o) ==
  IF e.handle[o] \notin DOMAIN e.evt THEN e ELSE ev_unon_timer(e, e.handle[o])

(* ev_timer_taskCancel, for a handle that is NULL or names a free slot,    *)
(* does nothing.                                                           *)
ev_timer_taskCancel(e, o) ==
  IF e.handle[o] \notin DOMAIN e.evt THEN e
  ELSE [ev_unon_timer(e, e.handle[o]) EXCEPT !.handle[o] = None]

(* What a user does in one go: cancel, or start a timer unless it has one, *)
(* or cancel and start.                                                    *)
MayStart(e, o) == o \in Detached \/ e.handle[o] = None

Uses(e, o) ==
  LET cancelled == ev_timer_taskCancel(e, o)
  IN {cancelled} \union
     {Schedule(c, o, ms) : c \in {x \in {e, cancelled} : MayStart(x, o) /\ ~Full(x)},
                           ms \in Periods}

-----------------------------------------------------------------------------
(* The passes. *)

Elapsed(from, to) == (to + TickSpace - from) % TickSpace

(* ev_timer_update charges the time since the last pass, or since the      *)
(* timer was scheduled when this is its first; curSysTick is not read      *)
(* again.                                                                  *)
Charged(tm, ms, now) ==
  IF tm.isRunning THEN ms ELSE Elapsed(tm.curSysTick, now) \div TickMs

Update(e, ms, now) ==
  LET Left(tm) == IF tm.timeout > Charged(tm, ms, now)
                  THEN tm.timeout - Charged(tm, ms, now) ELSE 0
  IN [e EXCEPT !.evt = [s \in DOMAIN @ |->
        [@[s] EXCEPT !.timeout = Left(e.evt[s]),
                     !.curSysTick = 0, !.isRunning = TRUE]]]

Remainder(ticks) == remTick + (ticks % TickMs)

(* ev_timer_process, up to the first timer of ev_timer_executeCB. *)
Process ==
  LET ticks == Elapsed(prevTick, clock)
      ms == ticks \div TickMs + Remainder(ticks) \div TickMs
  IN /\ pc = "process"
     /\ prevTick' = clock
     /\ remTick' = Remainder(ticks) % TickMs
     /\ IF ms = 0
        THEN pc' = "tasks" /\ UNCHANGED <<timers, cursor, prev_head>>
        ELSE /\ timers' = Update(timers, ms, clock)
             /\ pc' = "execute"
             /\ cursor' = HeadOf(timers.list)
             /\ prev_head' = HeadOf(timers.list)
     /\ UNCHANGED clock

Examine(due) ==
  /\ pc = "execute"
  /\ cursor # None
  /\ (timers.evt[cursor].timeout = 0) = due

(* Mutant: the loop does not go on to the next timer. *)
NotDueStays ==
  /\ Examine(FALSE)
  /\ UNCHANGED vars

NotDue ==
  /\ Examine(FALSE)
  /\ cursor' = After(timers.list, cursor)
  /\ UNCHANGED <<timers, pc, prev_head, clock, prevTick, remTick>>

(* What a callback does to the timers of others before it returns. *)
Others(e, s) == (Owner \ {e.evt[s].cb}) \union Detached
Bodies(e, s) == {e} \union UNION {Uses(e, o) : o \in Others(e, s)}

(* It returns a negative number, and has cleared its handle ... *)
Ends(e, s) ==
  ev_unon_timer([e EXCEPT !.handle[e.evt[s].cb] = None], s)

(* ... or the same or a new period. *)
Repeats(e, s, ms) ==
  [e EXCEPT !.evt[s].period = ms, !.evt[s].timeout = ms, !.evt[s].age = 0]

Returns(e, s) ==
  {Ends(e, s)} \union
  (IF e.evt[s].cb \in Detached THEN {}
   ELSE {Repeats(e, s, ms) : ms \in Periods \union {e.evt[s].period}})

(* Mutant: the next timer is looked up before the callback. *)
SavedNext(before, after, s) == After(before.list, s)

(* timerEvt->next, after the callback and the removal of the timer itself, *)
(* which leaves its link as it was.                                        *)
NextAfter(before, after, s) == After(after.list, s)

Callback ==
  /\ Examine(TRUE)
  /\ \E body \in Bodies(timers, cursor) : \E done \in Returns(body, cursor) :
       /\ timers' = done
       /\ IF HeadOf(done.list) # prev_head
          THEN /\ cursor' = HeadOf(done.list)
               /\ prev_head' = HeadOf(done.list)
          ELSE /\ cursor' = NextAfter(timers, body, cursor)
               /\ UNCHANGED prev_head
  /\ UNCHANGED <<pc, clock, prevTick, remTick>>

AllExamined ==
  /\ pc = "execute"
  /\ cursor = None
  /\ timers' = NearestUpdate(timers)
  /\ pc' = "tasks"
  /\ UNCHANGED <<cursor, prev_head, clock, prevTick, remTick>>

-----------------------------------------------------------------------------
(* The rest of the main loop. *)

Use ==
  /\ pc = "tasks"
  /\ \E o \in Owner : timers' \in Uses(timers, o)
  /\ UNCHANGED <<pc, cursor, prev_head, clock, prevTick, remTick>>

(* The pool is exhausted: the exception restarts the device. *)
PoolException ==
  /\ Full(timers)
  /\ \/ pc = "tasks" /\ \E o \in Owner : MayStart(timers, o)
     \/ Examine(TRUE) /\ \E o \in Others(timers, cursor) : MayStart(timers, o)
  /\ timers' = NoTimers
  /\ pc' = "process"
  /\ cursor' = None
  /\ prev_head' = None
  /\ clock' = 0
  /\ prevTick' = 0
  /\ remTick' = 0

PassEnds ==
  /\ pc = "tasks"
  /\ pc' = "process"
  /\ UNCHANGED <<timers, cursor, prev_head, clock, prevTick, remTick>>

Aged(e, ticks) ==
  LET Older(tm) == IF tm.age + ticks < tm.period * TickMs THEN tm.age + ticks
                   ELSE tm.period * TickMs
  IN [e EXCEPT !.evt = [s \in DOMAIN @ |-> [@[s] EXCEPT !.age = Older(e.evt[s])]]]

ClockTicks ==
  /\ pc # "execute"
  /\ Elapsed(prevTick, clock) < MaxGap
  /\ clock' = (clock + 1) % TickSpace
  /\ timers' = Aged(timers, 1)
  /\ UNCHANGED <<pc, cursor, prev_head, prevTick, remTick>>

(* Mutant: the time of the sleep is charged again as time awake. *)
SleepAsAwake(rem, now) == prevTick

(* ev_timer_setPrevSysTick: the part of a millisecond is still to charge. *)
ChargedUpTo(rem, now) == Elapsed(rem, now)

(* drv_pm_lowPowerEnter until the nearest timer or a pad, and              *)
(* drv_pm_wakeupTimeUpdate: the time the MCU was awake since the last pass *)
(* is not charged to the timers that are running.                          *)
Sleep ==
  /\ pc = "tasks"
  /\ timers.nearest # None
  /\ \E ticks \in 1 .. timers.evt[timers.nearest].timeout * TickMs :
       LET now == (clock + ticks) % TickSpace
           aged == Aged(timers, ticks)
       IN /\ clock' = now
          /\ timers' = IF ticks \div TickMs = 0 THEN aged
                       ELSE Update(aged, ticks \div TickMs, now)
          /\ prevTick' = ChargedUpTo(ticks % TickMs, now)
  /\ pc' = "process"
  /\ UNCHANGED <<cursor, prev_head, remTick>>

Pass == Process \/ NotDue \/ Callback \/ AllExamined

Next == Pass \/ Use \/ PoolException \/ PassEnds \/ ClockTicks \/ Sleep

Spec == Init /\ [][Next]_vars

(* The main loop and the clock never stop. *)
FairSpec ==
  Spec /\ WF_vars(Pass) /\ WF_vars(PassEnds) /\ SF_vars(ClockTicks)

-----------------------------------------------------------------------------
(* List, pool and counter describe the same timers at every step, also     *)
(* between two callbacks of one pass that rebuild the list under the loop  *)
(* (ev_timer.c:57-85, 122-173, 256-286).                                   *)
PoolAgrees ==
  /\ \A j, k \in 1 .. Len(timers.list) : timers.list[j] = timers.list[k] => j = k
  /\ Listed(timers) = DOMAIN timers.evt
  /\ timers.used_num = Cardinality(DOMAIN timers.evt)

(* A handle is either NULL or names the timer of its own user, although    *)
(* slots are given away again at once; and no timer is left without its    *)
(* handle: it could not be cancelled, and a second one would be started    *)
(* (ev_timer.c:204-218 trusts the handle).                                 *)
HandlesNameTimers ==
  \A o \in Owner \ Detached :
    /\ timers.handle[o] # None =>
         /\ timers.handle[o] \in DOMAIN timers.evt
         /\ timers.evt[timers.handle[o]].cb = o
    /\ \A s \in DOMAIN timers.evt :
         timers.evt[s].cb = o => timers.handle[o] = s

(* The loop over the list never stands on a timer that a callback has      *)
(* cancelled, whose slot may already be another timer (ev_timer.c:261-283).*)
CursorIsScheduled == cursor # None => cursor \in Listed(timers)

(* A timer is short when a sleep until it is due, and what its first       *)
(* charge may lie back, fit into the tick counter: 268 s in the code.      *)
Short(tm) == (tm.period + MaxGap + 1) * TickMs <= TickSpace

(* The sleep is set up for a timer that exists, and when that is a short   *)
(* one, no other is due much earlier: timers that run already are not      *)
(* charged the time since the last pass before a sleep, and a new one is   *)
(* not charged at all until a millisecond is full, which may take as many  *)
(* short sleeps as there are ticks in it, each of them with a pass before  *)
(* (ev_timer.c:87-99, 220-254; drv_pm.c:375-379, 416-429).                 *)
SleepEndsInTime ==
  /\ timers.list # <<>> => timers.nearest \in Listed(timers)
  /\ pc = "tasks" =>
       \A s \in Listed(timers) :
         Short(timers.evt[timers.nearest]) =>
           timers.evt[timers.nearest].timeout
             <= timers.evt[s].timeout + MaxGap

(* No timer is called two full milliseconds before its time, whatever the  *)
(* remainders, the wrap of the tick counter and the sleeps; one that is    *)
(* charged by the sleep for the first time may be called more than one     *)
(* early, since the remainder of the sleep is charged to it again          *)
(* (ev_timer.c:220-254, 288-312; drv_pm.c:416-429).                        *)
NeverEarly ==
  \A s \in DOMAIN timers.evt :
    (timers.evt[s].period - timers.evt[s].timeout) * TickMs
      < timers.evt[s].age + 2 * TickMs

(* A timer does not stay scheduled for ever without being called: the      *)
(* passes may be shorter than the millisecond they count in                *)
(* (ev_timer.c:297-304).                                                   *)
TimersComeDue ==
  \A s \in Slot :
    (s \in Listed(timers) /\ timers.evt[s].age > 0)
      ~> (s \notin Listed(timers) \/ timers.evt[s].age = 0)
=============================================================================
