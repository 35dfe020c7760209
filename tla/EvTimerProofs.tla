---------------------------- MODULE EvTimerProofs ----------------------------
(***************************************************************************)
(* The structures of EvTimer are consistent for any size of the pool, any  *)
(* callbacks, periods and width of the tick counter: list, pool and        *)
(* counter agree, handles name the timers of their users, and the loop of  *)
(* a pass stands on a scheduled timer, whatever the callbacks do.          *)
(*                                                                         *)
(* The invariant is one of the record of timers (Sound), since a callback  *)
(* composes several operations on it in one step.                          *)
(*                                                                         *)
(* On top of it, what the timers have been charged (Counted) is never two  *)
(* milliseconds more than the time that has passed, and whenever the       *)
(* device may sleep, the timer the sleep is set up for is due first        *)
(* (Exact) or not much after the first (Close).                            *)
(***************************************************************************)
EXTENDS EvTimer, SequenceTheorems, FiniteSetTheorems, WellFoundedInduction,
        TLAPS

Injective(list) == \A j, k \in 1 .. Len(list) : list[j] = list[k] => j = k

Agrees(e) ==
  /\ Injective(e.list)
  /\ Listed(e) = DOMAIN e.evt
  /\ e.used_num = Cardinality(DOMAIN e.evt)

(* Of a user without a handle, the handle is NULL. *)
Named(e) ==
  \A o \in Owner :
    IF o \in Detached THEN e.handle[o] = None
    ELSE /\ e.handle[o] # None =>
              /\ e.handle[o] \in DOMAIN e.evt
              /\ e.evt[e.handle[o]].cb = o
         /\ \A s \in DOMAIN e.evt : e.evt[s].cb = o => e.handle[o] = s

Sound(e) == e \in Timers /\ Agrees(e) /\ Named(e)

-----------------------------------------------------------------------------
(* Least elements: of the free slots, and of what is due. *)
LEMMA LeastNat ==
  ASSUME NEW T \in SUBSET Nat, T # {}
  PROVE  \E x \in T : \A y \in T : x <= y
<1> DEFINE Less == {p \in Nat \X Nat : p[1] < p[2]}
<1>1. IsWellFoundedOn(Less, Nat)
  BY NatLessThanWellFounded, Zenon DEF OpToRel
<1> HIDE DEF Less
<1>2. PICK x \in T : \A y \in T : ~(<<y, x>> \in Less)
  BY <1>1, WFMin
<1>3. ASSUME NEW y \in T
      PROVE  x <= y
  <2>1. x \in Nat /\ y \in Nat /\ <<y, x>> \notin Less
    BY <1>2, <1>3
  <2>2. y < x => <<y, x>> \in Less
    BY <2>1 DEF Less
  <2> QED BY <2>1, <2>2
<1> QED BY <1>3

LEMMA SlotFacts ==
  /\ Slot \in SUBSET Nat
  /\ None \notin Slot
  /\ IsFiniteSet(Slot)
  /\ Cardinality(Slot) = MaxNum
  BY TimerAssumption, FS_Interval DEF Slot, None

(* The list of an element. *)
LEMMA ListFacts ==
  ASSUME NEW e \in Timers
  PROVE  /\ e.list \in Seq(Slot)
         /\ Len(e.list) \in Nat
         /\ \A k \in 1 .. Len(e.list) : e.list[k] \in Slot
         /\ Listed(e) \subseteq Slot
         /\ \A s \in Listed(e) : \E k \in 1 .. Len(e.list) : e.list[k] = s
  BY LenProperties, ElementOfSeq DEF Timers, Listed

LEMMA EventFacts ==
  ASSUME NEW e \in Timers
  PROVE  /\ DOMAIN e.evt \subseteq Slot
         /\ e.evt \in [DOMAIN e.evt -> Event]
  BY DEF Timers

LEMMA PoolFinite ==
  ASSUME NEW e \in Timers
  PROVE  IsFiniteSet(DOMAIN e.evt)
  BY EventFacts, SlotFacts, FS_Subset

LEMMA PositionFacts ==
  ASSUME NEW e \in Timers, NEW s \in Listed(e)
  PROVE  /\ Position(e.list, s) \in 1 .. Len(e.list)
         /\ e.list[Position(e.list, s)] = s
  BY ListFacts DEF Position

LEMMA HeadFacts ==
  ASSUME NEW e \in Timers
  PROVE  /\ HeadOf(e.list) \in Slot \union {None}
         /\ HeadOf(e.list) # None => HeadOf(e.list) \in Listed(e)
<1>1. CASE e.list = <<>>
  BY <1>1 DEF HeadOf
<1>2. CASE e.list # <<>>
  <2>1. Len(e.list) \in Nat \ {0} /\ HeadOf(e.list) = e.list[1]
    BY <1>2, ListFacts, EmptySeq DEF HeadOf
  <2> QED BY <2>1, ListFacts DEF Listed
<1> QED BY <1>1, <1>2

(* timerEvt->next is another element of the list. *)
LEMMA AfterFacts ==
  ASSUME NEW e \in Timers, NEW s \in Listed(e), Injective(e.list)
  PROVE  /\ After(e.list, s) \in Slot \union {None}
         /\ After(e.list, s) # None => After(e.list, s) \in Listed(e) \ {s}
<1> DEFINE k == Position(e.list, s)
<1>1. k \in 1 .. Len(e.list) /\ e.list[k] = s
  BY PositionFacts
<1>2. CASE k = Len(e.list)
  BY <1>2 DEF After
<1>3. CASE k # Len(e.list)
  <2>1. After(e.list, s) = e.list[k + 1] /\ k + 1 \in 1 .. Len(e.list)
    BY <1>1, <1>3, ListFacts DEF After
  <2>2. e.list[k + 1] # s
    BY <1>1, <2>1, ListFacts DEF Injective
  <2>3. e.list[k + 1] \in Listed(e)
    BY <2>1 DEF Listed
  <2> QED BY <2>1, <2>2, <2>3, ListFacts
<1> QED BY <1>2, <1>3

(* LIST_DELETE takes one element out and leaves the others once each. *)
LEMMA DeleteFacts ==
  ASSUME NEW e \in Timers, NEW s \in Listed(e), Injective(e.list)
  PROVE  /\ Delete(e.list, s) \in Seq(Slot)
         /\ Injective(Delete(e.list, s))
         /\ {Delete(e.list, s)[j] : j \in 1 .. Len(Delete(e.list, s))}
              = Listed(e) \ {s}
<1> DEFINE n == Len(e.list)
           p == Position(e.list, s)
           d == Delete(e.list, s)
<1>1. n \in Nat /\ p \in 1 .. n /\ e.list[p] = s
  BY PositionFacts, ListFacts
<1>2. d \in [1 .. n - 1 -> Slot]
  BY <1>1, ListFacts DEF Delete
<1>3. d \in Seq(Slot) /\ Len(d) = n - 1
  BY <1>1, <1>2, SeqDef, LenProperties
<1>4. \A j \in 1 .. n - 1 : d[j] = IF j < p THEN e.list[j] ELSE e.list[j + 1]
  BY DEF Delete
<1>5. Injective(d)
  BY <1>1, <1>3, <1>4 DEF Injective
<1>6. ASSUME NEW j \in 1 .. n - 1
      PROVE  d[j] \in Listed(e) \ {s}
  BY <1>1, <1>4 DEF Listed, Injective
<1>7. ASSUME NEW t \in Listed(e) \ {s}
      PROVE  \E j \in 1 .. n - 1 : d[j] = t
  <2>1. PICK k \in 1 .. n : e.list[k] = t
    BY ListFacts
  <2>2. k # p
    BY <1>1, <2>1, <1>7
  <2>3. CASE k < p
    BY <1>1, <1>4, <2>1, <2>3
  <2>4. CASE k > p
    <3>1. k - 1 \in 1 .. n - 1 /\ d[k - 1] = e.list[k]
      BY <1>1, <1>4, <2>4
    <3> QED BY <3>1, <2>1
  <2> QED BY <1>1, <2>2, <2>3, <2>4
<1>8. {d[j] : j \in 1 .. Len(d)} = Listed(e) \ {s}
  BY <1>3, <1>6, <1>7
<1> QED BY <1>3, <1>5, <1>8

-----------------------------------------------------------------------------
(* ev_timer_nearestUpdate finds one of the listed timers, none of which is *)
(* due before it, and changes nothing else.                                *)
NearestListed(e) == e.list # <<>> => e.nearest \in Listed(e)

Exact(e) == \A s \in Listed(e) : e.evt[e.nearest].timeout <= e.evt[s].timeout

DueFirst(e, k) ==
  \A j \in 1 .. Len(e.list) :
    /\ e.evt[e.list[k]].timeout <= e.evt[e.list[j]].timeout
    /\ j < k => e.evt[e.list[k]].timeout < e.evt[e.list[j]].timeout

LEMMA FirstDue ==
  ASSUME NEW e \in Timers, Listed(e) \subseteq DOMAIN e.evt, e.list # <<>>
  PROVE  \E k \in 1 .. Len(e.list) : DueFirst(e, k)
<1> DEFINE n == Len(e.list)
           due(k) == e.evt[e.list[k]].timeout
<1>1. n \in Nat \ {0}
  BY ListFacts, EmptySeq
<1>2. \A k \in 1 .. n : due(k) \in Nat
  BY ListFacts, EventFacts DEF Event, Listed
<1>3. PICK k1 \in 1 .. n : \A j \in 1 .. n : due(k1) <= due(j)
  <2> DEFINE T == {due(k) : k \in 1 .. n}
  <2>1. T \in SUBSET Nat /\ T # {}
    BY <1>1, <1>2
  <2>2. PICK x \in T : \A y \in T : x <= y
    BY <2>1, LeastNat
  <2> QED BY <2>2
<1>4. PICK k \in {j \in 1 .. n : due(j) = due(k1)} :
            \A j \in {i \in 1 .. n : due(i) = due(k1)} : k <= j
  <2> DEFINE T == {j \in 1 .. n : due(j) = due(k1)}
  <2>1. T \in SUBSET Nat /\ T # {}
    BY <1>3
  <2> HIDE DEF T
  <2>2. \E x \in T : \A y \in T : x <= y
    BY <2>1, LeastNat
  <2> QED BY <2>2 DEF T
<1>5. DueFirst(e, k) <=> \A j \in 1 .. n : due(k) <= due(j) /\ (j < k => due(k) < due(j))
  BY DEF DueFirst
<1> HIDE DEF due
<1>6. \A j \in 1 .. n : due(k) <= due(j) /\ (j < k => due(k) < due(j))
  BY <1>1, <1>2, <1>3, <1>4
<1> QED BY <1>4, <1>5, <1>6

LEMMA NearestFacts ==
  ASSUME NEW e \in Timers, Listed(e) \subseteq DOMAIN e.evt
  PROVE  /\ NearestUpdate(e) \in Timers
         /\ NearestUpdate(e).evt = e.evt
         /\ NearestUpdate(e).list = e.list
         /\ NearestUpdate(e).used_num = e.used_num
         /\ NearestUpdate(e).handle = e.handle
         /\ NearestListed(NearestUpdate(e))
         /\ Exact(NearestUpdate(e))
<1> DEFINE first == CHOOSE k \in 1 .. Len(e.list) : DueFirst(e, k)
           near == IF e.list = <<>> THEN None ELSE e.list[first]
<1>1. NearestUpdate(e) = [e EXCEPT !.nearest = near]
  BY DEF NearestUpdate, DueFirst
<1>2. e.list # <<>> => first \in 1 .. Len(e.list) /\ DueFirst(e, first)
  BY FirstDue
<1> HIDE DEF first
<1>3. near \in Slot \union {None}
  BY <1>2, ListFacts
<1> HIDE DEF near
<1>4. /\ NearestUpdate(e) \in Timers
      /\ NearestUpdate(e).evt = e.evt
      /\ NearestUpdate(e).list = e.list
      /\ NearestUpdate(e).used_num = e.used_num
      /\ NearestUpdate(e).handle = e.handle
      /\ NearestUpdate(e).nearest = near
  BY <1>1, <1>3 DEF Timers
<1>5. Listed(NearestUpdate(e)) = Listed(e)
  BY <1>4 DEF Listed
<1>6. NearestListed(NearestUpdate(e))
  BY <1>2, <1>4, <1>5 DEF NearestListed, Listed, near
<1>7. Exact(NearestUpdate(e))
  <2>1. CASE e.list = <<>>
    <3>1. Listed(e) = {}
      BY <2>1 DEF Listed
    <3> QED BY <1>5, <3>1 DEF Exact
  <2>2. CASE e.list # <<>>
    <3>1. near = e.list[first]
      BY <2>2 DEF near
    <3>2. \A s \in Listed(e) : e.evt[near].timeout <= e.evt[s].timeout
      BY <1>2, <2>2, <3>1 DEF Listed, DueFirst
    <3> QED BY <1>4, <1>5, <3>2 DEF Exact
  <2> QED BY <2>1, <2>2
<1> QED BY <1>4, <1>6, <1>7

(* ev_timer_freeGet. *)
LEMMA FreeSlotFacts ==
  ASSUME NEW e \in Timers, ~Full(e)
  PROVE  FreeSlot(e) \in Slot \ DOMAIN e.evt
<1> DEFINE T == Slot \ DOMAIN e.evt
<1>1. T \in SUBSET Nat /\ T # {}
  BY SlotFacts DEF Full
<1> HIDE DEF T
<1>2. \E x \in T : \A y \in T : x <= y
  BY <1>1, LeastNat
<1> QED BY <1>2 DEF FreeSlot, T

(* A timer as its user has just scheduled it; the timers of a record that  *)
(* comes of another by operations of users are such or are its own.        *)
Fresh(tm) ==
  /\ tm \in Event /\ tm.timeout = tm.period /\ tm.period \in Periods
  /\ tm.curSysTick = clock /\ ~tm.isRunning /\ tm.age = 0

Inherits(u, e) ==
  \A s \in DOMAIN u.evt :
    Fresh(u.evt[s]) \/ (s \in DOMAIN e.evt /\ u.evt[s] = e.evt[s])

Renewed(u, e) == Inherits(u, e) /\ NearestListed(u) /\ Exact(u)

(* Starting a timer adds a slot to pool, list and counter. *)
LEMMA Scheduled ==
  ASSUME NEW e, Sound(e), ~Full(e), NEW o \in Owner, MayStart(e, o),
         NEW ms \in Periods, clock \in Tick
  PROVE  /\ Sound(Schedule(e, o, ms))
         /\ DOMAIN e.evt \subseteq DOMAIN Schedule(e, o, ms).evt
         /\ Renewed(Schedule(e, o, ms), e)
<1> DEFINE s == FreeSlot(e)
           evt == [r \in DOMAIN e.evt \union {s} |->
                     IF r = s THEN NewTimer(o, ms) ELSE e.evt[r]]
           list == <<s>> \o e.list
           handle == [e.handle EXCEPT ![o] = IF o \in Detached THEN @ ELSE s]
           f == [e EXCEPT !.evt = evt, !.used_num = @ + 1, !.list = list,
                          !.handle = handle]
<1>1. e \in Timers /\ Agrees(e) /\ Named(e)
  BY DEF Sound
<1>2. s \in Slot \ DOMAIN e.evt
  BY <1>1, FreeSlotFacts
<1>3. /\ NewTimer(o, ms) \in Event /\ NewTimer(o, ms).cb = o
      /\ Fresh(NewTimer(o, ms))
  BY TimerAssumption DEF NewTimer, Event, Fresh
<1> HIDE DEF s
<1>4. evt \in [DOMAIN e.evt \union {s} -> Event] /\ DOMAIN evt = DOMAIN e.evt \union {s}
  BY <1>1, <1>2, <1>3, EventFacts
<1>5. /\ list \in Seq(Slot) /\ Len(list) = Len(e.list) + 1
      /\ \A k \in 1 .. Len(e.list) + 1 :
           list[k] = IF k = 1 THEN s ELSE e.list[k - 1]
  <2>1. <<s>> \in Seq(Slot) /\ Len(<<s>>) = 1 /\ <<s>>[1] = s
    BY <1>2
  <2> QED BY <1>1, <2>1, ListFacts, ConcatProperties
<1>6. handle \in [Owner -> Slot \union {None}]
  BY <1>1, <1>2 DEF Timers
<1>7. e.used_num + 1 \in 0 .. MaxNum
  BY <1>1, TimerAssumption DEF Timers, Full
<1>8. f \in Timers
  <2> HIDE DEF evt, list, handle
  <2>1. evt \in UNION {[used -> Event] : used \in SUBSET Slot}
    BY <1>1, <1>2, <1>4, EventFacts
  <2> QED BY <1>1, <1>5, <1>6, <1>7, <2>1 DEF Timers
<1>9. f.evt = evt /\ f.list = list /\ f.used_num = e.used_num + 1 /\ f.handle = handle
  <2> HIDE DEF evt, list, handle
  <2> QED BY <1>1 DEF Timers
<1>10. Injective(list) /\ {list[k] : k \in 1 .. Len(list)} = Listed(e) \union {s}
  <2> DEFINE n == Len(e.list)
  <2>1. n \in Nat /\ Injective(e.list) /\ Listed(e) = DOMAIN e.evt
    BY <1>1, ListFacts DEF Agrees
  <2>2. \A k \in 1 .. n : e.list[k] # s /\ e.list[k] \in Listed(e)
    BY <1>2, <2>1 DEF Listed
  <2> HIDE DEF list
  <2>3. Injective(list)
    <3> SUFFICES ASSUME NEW j \in 1 .. n + 1, NEW k \in 1 .. n + 1,
                        list[j] = list[k]
                 PROVE  j = k
      BY <1>5, <2>1 DEF Injective
    <3>1. \A i \in 1 .. n + 1 : i # 1 => i - 1 \in 1 .. n /\ list[i] = e.list[i - 1]
      BY <1>5, <2>1
    <3>2. CASE j = 1 \/ k = 1
      <4>1. \A i \in 1 .. n + 1 : i # 1 => list[i] # s
        BY <2>2, <3>1
      <4>2. 1 \in 1 .. n + 1
        BY <2>1
      <4>3. list[1] = s
        BY <1>5, <4>2
      <4> QED BY <3>2, <4>1, <4>3
    <3>3. CASE j # 1 /\ k # 1
      <4>1. j - 1 = k - 1
        BY <2>1, <3>1, <3>3 DEF Injective
      <4> QED BY <2>1, <4>1
    <3> QED BY <3>2, <3>3
  <2>4. \A k \in 1 .. n + 1 : list[k] \in Listed(e) \union {s}
    BY <1>5, <2>1, <2>2
  <2>5. list[1] = s /\ \A k \in 1 .. n : list[k + 1] = e.list[k]
    BY <1>5, <2>1
  <2>6. \A t \in Listed(e) \union {s} : \E k \in 1 .. n + 1 : list[k] = t
    <3>1. ASSUME NEW t \in Listed(e)
          PROVE  \E k \in 1 .. n + 1 : list[k] = t
      <4>1. PICK k \in 1 .. n : e.list[k] = t
        BY DEF Listed
      <4>2. k + 1 \in 1 .. n + 1 /\ list[k + 1] = t
        BY <2>1, <2>5, <4>1
      <4> QED BY <4>2
    <3>2. 1 \in 1 .. n + 1
      BY <2>1
    <3> QED BY <2>5, <3>1, <3>2
  <2>7. Len(list) = n + 1
    BY <1>5
  <2> QED BY <2>3, <2>4, <2>6, <2>7
<1>11. Agrees(f)
  <2> HIDE DEF evt, list, handle, f
  <2>1. Listed(f) = DOMAIN evt /\ Injective(f.list)
    BY <1>1, <1>4, <1>9, <1>10 DEF Agrees, Listed
  <2>2. Cardinality(DOMAIN evt) = Cardinality(DOMAIN e.evt) + 1
    BY <1>1, <1>2, <1>4, PoolFinite, FS_AddElement
  <2> QED BY <1>1, <1>9, <2>1, <2>2 DEF Agrees
<1>12. Named(f)
  <2> HIDE DEF evt, handle, f
  <2> SUFFICES ASSUME NEW p \in Owner
               PROVE  IF p \in Detached THEN handle[p] = None
                      ELSE /\ handle[p] # None =>
                                handle[p] \in DOMAIN evt /\ evt[handle[p]].cb = p
                           /\ \A t \in DOMAIN evt : evt[t].cb = p => handle[p] = t
    BY <1>9 DEF Named
  <2>1. \A t \in DOMAIN evt : evt[t] = IF t = s THEN NewTimer(o, ms) ELSE e.evt[t]
    BY <1>4 DEF evt
  <2>2. \A q \in Owner : handle[q] = IF q = o /\ o \notin Detached THEN s ELSE e.handle[q]
    BY <1>1 DEF Timers, handle
  <2>3. s # None /\ None \notin DOMAIN e.evt
    BY <1>1, <1>2, SlotFacts, EventFacts
  <2> HIDE DEF evt, handle
  <2>4. CASE p \in Detached
    BY <1>1, <2>2, <2>4 DEF Named
  <2>5. CASE p \notin Detached /\ p = o
    <3>1. e.handle[o] = None
      BY <2>5 DEF MayStart
    <3>2. \A t \in DOMAIN e.evt : e.evt[t].cb # o
      BY <1>1, <2>3, <2>5, <3>1 DEF Named
    <3> QED BY <1>3, <1>4, <2>1, <2>2, <2>5, <3>2
  <2>6. CASE p \notin Detached /\ p # o
    <3>1. /\ e.handle[p] # None =>
               e.handle[p] \in DOMAIN e.evt /\ e.evt[e.handle[p]].cb = p
          /\ \A t \in DOMAIN e.evt : e.evt[t].cb = p => e.handle[p] = t
      BY <1>1, <2>6 DEF Named
    <3> QED BY <1>2, <1>3, <1>4, <2>1, <2>2, <2>6, <3>1
  <2> QED BY <2>4, <2>5, <2>6
<1>13. Schedule(e, o, ms) = NearestUpdate(f)
  BY DEF Schedule, s
<1>14. Listed(f) \subseteq DOMAIN f.evt
  BY <1>11 DEF Agrees
<1> HIDE DEF f
<1>15. Sound(NearestUpdate(f)) /\ NearestUpdate(f).evt = f.evt
  BY <1>8, <1>11, <1>12, <1>14, NearestFacts DEF Sound, Agrees, Named, Listed
<1>16. NearestListed(NearestUpdate(f)) /\ Exact(NearestUpdate(f))
  BY <1>8, <1>14, NearestFacts
<1>17. \A r \in DOMAIN evt : Fresh(evt[r]) \/ (r \in DOMAIN e.evt /\ evt[r] = e.evt[r])
  BY <1>3
<1>18. Renewed(NearestUpdate(f), e)
  <2> HIDE DEF evt
  <2> QED BY <1>9, <1>15, <1>16, <1>17 DEF Renewed, Inherits
<1> QED BY <1>4, <1>9, <1>13, <1>15, <1>18

(* ev_unon_timer takes a scheduled timer out of pool, list and counter.    *)
LEMMA Removed ==
  ASSUME NEW e, e \in Timers, Agrees(e), NEW s \in DOMAIN e.evt
  PROVE  LET r == ev_unon_timer(e, s)
         IN /\ r \in Timers
            /\ Agrees(r)
            /\ r.evt = [t \in DOMAIN e.evt \ {s} |-> e.evt[t]]
            /\ r.handle = e.handle
            /\ Listed(r) = Listed(e) \ {s}
            /\ NearestListed(r)
            /\ Exact(r)
<1> DEFINE evt == [t \in DOMAIN e.evt \ {s} |-> e.evt[t]]
           list == Delete(e.list, s)
           f == [e EXCEPT !.evt = evt, !.used_num = @ - 1, !.list = list]
<1>1. s \in Listed(e) /\ Injective(e.list) /\ Listed(e) = DOMAIN e.evt
  BY DEF Agrees
<1>2. /\ list \in Seq(Slot) /\ Injective(list)
      /\ {list[j] : j \in 1 .. Len(list)} = Listed(e) \ {s}
  BY <1>1, DeleteFacts
<1>3. evt \in [DOMAIN e.evt \ {s} -> Event] /\ DOMAIN evt = DOMAIN e.evt \ {s}
  BY EventFacts
<1>4. Cardinality(DOMAIN evt) = e.used_num - 1
  BY <1>3, PoolFinite, FS_RemoveElement DEF Agrees
<1>5. e.used_num - 1 \in 0 .. MaxNum
  <2>1. IsFiniteSet(DOMAIN evt)
    BY <1>3, PoolFinite, FS_RemoveElement
  <2>2. e.used_num - 1 \in Nat
    BY <1>4, <2>1, FS_CardinalityType
  <2>3. e.used_num \in 0 .. MaxNum
    BY DEF Timers
  <2> QED BY <2>2, <2>3, TimerAssumption
<1>6. evt \in UNION {[used -> Event] : used \in SUBSET Slot}
  BY <1>3, EventFacts
<1>7. /\ f \in Timers
      /\ f.evt = evt /\ f.list = list /\ f.used_num = e.used_num - 1
      /\ f.handle = e.handle
  <2> HIDE DEF evt, list
  <2> QED BY <1>2, <1>5, <1>6 DEF Timers
<1>8. ev_unon_timer(e, s) = NearestUpdate(f)
  BY <1>1 DEF ev_unon_timer
<1> HIDE DEF f, evt, list
<1>9. Listed(f) = Listed(e) \ {s}
  BY <1>2, <1>7 DEF Listed
<1>10. Agrees(f)
  BY <1>1, <1>2, <1>3, <1>4, <1>7, <1>9 DEF Agrees
<1>11. /\ NearestUpdate(f) \in Timers
       /\ NearestUpdate(f).evt = evt
       /\ NearestUpdate(f).list = f.list
       /\ NearestUpdate(f).used_num = f.used_num
       /\ NearestUpdate(f).handle = e.handle
       /\ NearestListed(NearestUpdate(f)) /\ Exact(NearestUpdate(f))
  BY <1>1, <1>3, <1>7, <1>9, NearestFacts
<1>12. Agrees(NearestUpdate(f)) /\ Listed(NearestUpdate(f)) = Listed(f)
  BY <1>7, <1>10, <1>11 DEF Agrees, Listed
<1> QED BY <1>8, <1>9, <1>11, <1>12 DEF evt

(* When the handle of the user goes with the timer, the handles stay good. *)
LEMMA NamedWithout ==
  ASSUME NEW e, Sound(e), NEW s \in DOMAIN e.evt, NEW r, r \in Timers,
         Agrees(r),
         r.evt = [t \in DOMAIN e.evt \ {s} |-> e.evt[t]],
         r.handle = [e.handle EXCEPT ![e.evt[s].cb] = None]
  PROVE  Sound(r)
<1> DEFINE o == e.evt[s].cb
<1>1. e \in Timers /\ Named(e)
  BY DEF Sound
<1>2. o \in Owner /\ e.handle \in [Owner -> Slot \union {None}]
  BY <1>1, EventFacts DEF Event, Timers
<1>3. \A q \in Owner : r.handle[q] = IF q = o THEN None ELSE e.handle[q]
  BY <1>2
<1>4. \A t \in DOMAIN e.evt \ {s} : r.evt[t] = e.evt[t]
  OBVIOUS
<1>5. DOMAIN r.evt = DOMAIN e.evt \ {s}
  OBVIOUS
<1> HIDE DEF o
<1>6. ASSUME NEW q \in Owner
      PROVE  IF q \in Detached THEN r.handle[q] = None
             ELSE /\ r.handle[q] # None =>
                       r.handle[q] \in DOMAIN r.evt /\ r.evt[r.handle[q]].cb = q
                  /\ \A t \in DOMAIN r.evt : r.evt[t].cb = q => r.handle[q] = t
  <2>1. CASE q \in Detached
    BY <1>1, <1>3, <2>1 DEF Named
  <2>2. CASE q \notin Detached /\ q # o
    <3>1. /\ e.handle[q] # None =>
               e.handle[q] \in DOMAIN e.evt /\ e.evt[e.handle[q]].cb = q
          /\ \A t \in DOMAIN e.evt : e.evt[t].cb = q => e.handle[q] = t
      BY <1>1, <2>2 DEF Named
    <3>2. s # None
      BY <1>1, EventFacts, SlotFacts
    <3>3. e.handle[q] # s
      BY <2>2, <3>1, <3>2 DEF o
    <3> QED BY <1>3, <1>4, <1>5, <2>2, <3>1, <3>3
  <2>3. CASE q \notin Detached /\ q = o
    <3>1. \A t \in DOMAIN e.evt : e.evt[t].cb = q => e.handle[q] = t
      BY <1>1, <2>3 DEF Named
    <3>2. e.handle[q] = s
      BY <2>3, <3>1 DEF o
    <3> QED BY <1>3, <1>4, <1>5, <2>3, <3>1, <3>2
  <2> QED BY <2>1, <2>2, <2>3
<1>7. Named(r)
  BY <1>6 DEF Named
<1> QED BY <1>7 DEF Sound

LEMMA Cancelled ==
  ASSUME NEW e, Sound(e), NEW o \in Owner
  PROVE  /\ Sound(ev_timer_taskCancel(e, o))
         /\ \A s \in DOMAIN e.evt : e.evt[s].cb # o \/ o \in Detached =>
              s \in DOMAIN ev_timer_taskCancel(e, o).evt
         /\ ev_timer_taskCancel(e, o) = e \/ Renewed(ev_timer_taskCancel(e, o), e)
<1> DEFINE s == e.handle[o]
           u == ev_unon_timer(e, s)
           r == [u EXCEPT !.handle[o] = None]
<1>1. e \in Timers /\ Agrees(e) /\ Named(e)
  BY DEF Sound
<1>2. CASE s \notin DOMAIN e.evt
  BY <1>2 DEF ev_timer_taskCancel
<1>3. CASE s \in DOMAIN e.evt
  <2>1. o \notin Detached /\ e.evt[s].cb = o
    <3>1. None \notin DOMAIN e.evt
      BY <1>1, EventFacts, SlotFacts
    <3> QED BY <1>1, <1>3, <3>1 DEF Named
  <2>2. /\ u \in Timers /\ Agrees(u)
        /\ u.evt = [t \in DOMAIN e.evt \ {s} |-> e.evt[t]]
        /\ u.handle = e.handle
        /\ NearestListed(u) /\ Exact(u)
    BY <1>1, <1>3, Removed
  <2> HIDE DEF u, s
  <2>3. /\ r \in Timers /\ r.evt = u.evt /\ r.list = u.list
        /\ r.used_num = u.used_num /\ r.nearest = u.nearest
        /\ r.handle = [e.handle EXCEPT ![o] = None]
    BY <2>2 DEF Timers
  <2> HIDE DEF r
  <2>4. Agrees(r)
    <3>1. Listed(r) = Listed(u)
      BY <2>3 DEF Listed
    <3> QED BY <2>2, <2>3, <3>1 DEF Agrees
  <2>5. Sound(r)
    BY <1>3, <2>1, <2>2, <2>3, <2>4, NamedWithout
  <2>6. ev_timer_taskCancel(e, o) = r
    BY <1>3 DEF ev_timer_taskCancel, r, u, s
  <2>7. \A t \in DOMAIN e.evt : e.evt[t].cb # o => t \in DOMAIN r.evt
    BY <2>1, <2>2, <2>3
  <2>8. Renewed(r, e)
    <3>1. Listed(r) = Listed(u)
      BY <2>3 DEF Listed
    <3> QED BY <2>2, <2>3, <3>1 DEF Renewed, Inherits, NearestListed, Exact
  <2> QED BY <2>1, <2>5, <2>6, <2>7, <2>8
<1> QED BY <1>2, <1>3

LEMMA Used ==
  ASSUME NEW e, Sound(e), clock \in Tick, NEW o \in Owner, NEW u \in Uses(e, o)
  PROVE  /\ Sound(u)
         /\ \A s \in DOMAIN e.evt : e.evt[s].cb # o \/ o \in Detached =>
              s \in DOMAIN u.evt
         /\ u = e \/ Renewed(u, e)
<1> DEFINE c == ev_timer_taskCancel(e, o)
<1>1. /\ Sound(c)
      /\ \A s \in DOMAIN e.evt : e.evt[s].cb # o \/ o \in Detached =>
           s \in DOMAIN c.evt
      /\ c = e \/ Renewed(c, e)
  BY Cancelled
<1>2. CASE u = c
  BY <1>1, <1>2
<1>3. CASE u # c
  <2>1. PICK x \in {e, c}, ms \in Periods :
          MayStart(x, o) /\ ~Full(x) /\ u = Schedule(x, o, ms)
    BY <1>3 DEF Uses
  <2> HIDE DEF c
  <2>2. Sound(x)
    BY <1>1
  <2>3. Sound(u) /\ DOMAIN x.evt \subseteq DOMAIN u.evt /\ Renewed(u, x)
    BY <2>1, <2>2, Scheduled
  <2>4. Renewed(u, e)
    <3>1. x = e \/ Inherits(x, e)
      BY <1>1, <2>1 DEF Renewed
    <3> QED BY <2>3, <3>1 DEF Renewed, Inherits
  <2> QED BY <1>1, <2>3, <2>4
<1> QED BY <1>2, <1>3

-----------------------------------------------------------------------------
(* What only changes times leaves the structures alone. *)
LEMMA Retimed ==
  ASSUME NEW e, Sound(e), NEW g \in [DOMAIN e.evt -> Event],
         \A s \in DOMAIN e.evt : g[s].cb = e.evt[s].cb
  PROVE  /\ Sound([e EXCEPT !.evt = g])
         /\ [e EXCEPT !.evt = g].evt = g
         /\ [e EXCEPT !.evt = g].list = e.list
         /\ [e EXCEPT !.evt = g].nearest = e.nearest
         /\ Listed([e EXCEPT !.evt = g]) = Listed(e)
<1> DEFINE r == [e EXCEPT !.evt = g]
<1>1. e \in Timers /\ Agrees(e) /\ Named(e)
  BY DEF Sound
<1>2. /\ r \in Timers /\ r.evt = g /\ r.list = e.list
      /\ r.used_num = e.used_num /\ r.handle = e.handle
      /\ r.nearest = e.nearest
  <2>1. g \in UNION {[used -> Event] : used \in SUBSET Slot}
    BY <1>1, EventFacts
  <2> QED BY <1>1, <2>1 DEF Timers
<1> HIDE DEF r
<1>3. DOMAIN r.evt = DOMAIN e.evt
  BY <1>2
<1>4. Listed(r) = Listed(e)
  BY <1>2 DEF Listed
<1>5. Agrees(r)
  BY <1>1, <1>2, <1>3, <1>4 DEF Agrees
<1>6. Named(r)
  BY <1>1, <1>2, <1>3 DEF Named
<1>7. Sound(r)
  BY <1>2, <1>5, <1>6 DEF Sound
<1> QED BY <1>2, <1>4, <1>7 DEF r

(* What ev_timer_update makes of a timer, and what time does. *)
Left(tm, ms, now) ==
  IF tm.timeout > Charged(tm, ms, now) THEN tm.timeout - Charged(tm, ms, now) ELSE 0

Running(tm, ms, now) ==
  [tm EXCEPT !.timeout = Left(tm, ms, now), !.curSysTick = 0, !.isRunning = TRUE]

Older(tm, ticks) ==
  [tm EXCEPT !.age = IF tm.age + ticks < tm.period * TickMs THEN tm.age + ticks
                     ELSE tm.period * TickMs]

LEMMA Updated ==
  ASSUME NEW e, Sound(e), NEW ms \in Nat, NEW now \in Tick
  PROVE  /\ Sound(Update(e, ms, now))
         /\ Update(e, ms, now).evt = [s \in DOMAIN e.evt |-> Running(e.evt[s], ms, now)]
         /\ Update(e, ms, now).list = e.list
         /\ Update(e, ms, now).nearest = e.nearest
         /\ Listed(Update(e, ms, now)) = Listed(e)
<1> DEFINE g == [s \in DOMAIN e.evt |-> Running(e.evt[s], ms, now)]
<1>1. e \in Timers /\ e.evt \in [DOMAIN e.evt -> Event]
  BY EventFacts DEF Sound
<1>2. \A s \in DOMAIN e.evt : Left(e.evt[s], ms, now) \in Nat
  <2> SUFFICES ASSUME NEW s \in DOMAIN e.evt
               PROVE  Left(e.evt[s], ms, now) \in Nat
    OBVIOUS
  <2> DEFINE tm == e.evt[s]
  <2>1. tm.timeout \in Nat /\ tm.curSysTick \in Tick
    BY <1>1 DEF Event
  <2>2. Charged(tm, ms, now) \in Nat
    <3>1. Elapsed(tm.curSysTick, now) \in Nat
      BY <2>1, TimerAssumption DEF Elapsed, Tick
    <3> HIDE DEF tm
    <3>2. Elapsed(tm.curSysTick, now) \div TickMs \in Nat
      BY <3>1, TimerAssumption
    <3> QED BY <3>2 DEF Charged
  <2> QED BY <2>1, <2>2 DEF Left
<1>3. 0 \in Tick
  BY TimerAssumption DEF Tick
<1>4. g \in [DOMAIN e.evt -> Event] /\ \A s \in DOMAIN e.evt : g[s].cb = e.evt[s].cb
  BY <1>1, <1>2, <1>3 DEF Event, Running
<1>5. Update(e, ms, now) = [e EXCEPT !.evt = g]
  BY DEF Update, Running, Left
<1> HIDE DEF g
<1>6. /\ Sound([e EXCEPT !.evt = g])
      /\ [e EXCEPT !.evt = g].evt = g
      /\ [e EXCEPT !.evt = g].list = e.list
      /\ [e EXCEPT !.evt = g].nearest = e.nearest
      /\ Listed([e EXCEPT !.evt = g]) = Listed(e)
  BY <1>4, Retimed
<1> QED BY <1>5, <1>6 DEF g

LEMMA AgedFacts ==
  ASSUME NEW e, Sound(e), NEW ticks \in Nat
  PROVE  /\ Sound(Aged(e, ticks))
         /\ Aged(e, ticks).evt = [s \in DOMAIN e.evt |-> Older(e.evt[s], ticks)]
         /\ Aged(e, ticks).list = e.list
         /\ Aged(e, ticks).nearest = e.nearest
         /\ Listed(Aged(e, ticks)) = Listed(e)
<1> DEFINE g == [s \in DOMAIN e.evt |-> Older(e.evt[s], ticks)]
<1>1. e.evt \in [DOMAIN e.evt -> Event]
  BY EventFacts DEF Sound
<1>2. g \in [DOMAIN e.evt -> Event] /\ \A s \in DOMAIN e.evt : g[s].cb = e.evt[s].cb
  <2> SUFFICES ASSUME NEW s \in DOMAIN e.evt
               PROVE  Older(e.evt[s], ticks) \in Event /\ Older(e.evt[s], ticks).cb = e.evt[s].cb
    OBVIOUS
  <2>1. e.evt[s] \in Event
    BY <1>1
  <2> QED BY <2>1, TimerAssumption DEF Event, Older
<1>3. Aged(e, ticks) = [e EXCEPT !.evt = g]
  BY DEF Aged, Older
<1> HIDE DEF g
<1>4. /\ Sound([e EXCEPT !.evt = g])
      /\ [e EXCEPT !.evt = g].evt = g
      /\ [e EXCEPT !.evt = g].list = e.list
      /\ [e EXCEPT !.evt = g].nearest = e.nearest
      /\ Listed([e EXCEPT !.evt = g]) = Listed(e)
  BY <1>2, Retimed
<1> QED BY <1>3, <1>4 DEF g

LEMMA Nearest ==
  ASSUME NEW e, Sound(e)
  PROVE  /\ Sound(NearestUpdate(e))
         /\ NearestUpdate(e).list = e.list /\ NearestUpdate(e).evt = e.evt
         /\ NearestListed(NearestUpdate(e)) /\ Exact(NearestUpdate(e))
<1>1. e \in Timers /\ Agrees(e) /\ Named(e) /\ Listed(e) \subseteq DOMAIN e.evt
  BY DEF Sound, Agrees
<1>2. /\ NearestUpdate(e) \in Timers
      /\ NearestUpdate(e).evt = e.evt
      /\ NearestUpdate(e).list = e.list
      /\ NearestUpdate(e).used_num = e.used_num
      /\ NearestUpdate(e).handle = e.handle
      /\ NearestListed(NearestUpdate(e)) /\ Exact(NearestUpdate(e))
  BY <1>1, NearestFacts
<1>3. Listed(NearestUpdate(e)) = Listed(e)
  BY <1>2 DEF Listed
<1>4. Agrees(NearestUpdate(e))
  BY <1>1, <1>2, <1>3 DEF Agrees
<1>5. Named(NearestUpdate(e))
  BY <1>1, <1>2 DEF Named
<1> QED BY <1>2, <1>4, <1>5 DEF Sound

(* What a callback does to others never removes its own timer. *)
LEMMA BodyKeeps ==
  ASSUME NEW e, Sound(e), clock \in Tick, NEW s \in Listed(e), NEW b \in Bodies(e, s)
  PROVE  /\ Sound(b) /\ s \in DOMAIN b.evt
         /\ b = e \/ Renewed(b, e)
<1>1. s \in DOMAIN e.evt
  BY DEF Sound, Agrees
<1>2. CASE b = e
  BY <1>1, <1>2
<1>3. CASE b # e
  <2>1. PICK o \in Others(e, s) : b \in Uses(e, o)
    BY <1>3 DEF Bodies
  <2>2. o \in Owner /\ (e.evt[s].cb # o \/ o \in Detached)
    BY <2>1, TimerAssumption DEF Others
  <2> QED BY <1>1, <2>1, <2>2, Used
<1> QED BY <1>2, <1>3

(* A callback that ends takes its own timer away, one that goes on keeps   *)
(* the list.                                                               *)
Repeated(tm, ms) == [tm EXCEPT !.period = ms, !.timeout = ms, !.age = 0]

LEMMA Returned ==
  ASSUME NEW b, Sound(b), NEW s \in DOMAIN b.evt, NEW d \in Returns(b, s)
  PROVE  /\ Sound(d)
         /\ Listed(b) \ {s} \subseteq Listed(d)
         /\ NearestListed(b) => NearestListed(d)
         /\ \A t \in DOMAIN d.evt :
              /\ t \in DOMAIN b.evt
              /\ \/ d.evt[t] = b.evt[t]
                 \/ t = s /\ \E ms \in Periods \union {b.evt[s].period} :
                                d.evt[t] = Repeated(b.evt[s], ms)
<1>1. b \in Timers /\ Agrees(b) /\ Named(b)
  BY DEF Sound
<1>2. b.evt[s] \in Event /\ b.evt[s].cb \in Owner
  BY <1>1, EventFacts DEF Event
<1>3. CASE d = Ends(b, s)
  <2> DEFINE o == b.evt[s].cb
             h == [b EXCEPT !.handle[o] = None]
  <2>1. /\ h \in Timers /\ h.evt = b.evt /\ h.list = b.list
        /\ h.used_num = b.used_num
        /\ h.handle = [b.handle EXCEPT ![o] = None]
    BY <1>1, <1>2 DEF Timers
  <2>2. d = ev_unon_timer(h, s)
    BY <1>3 DEF Ends
  <2> HIDE DEF h
  <2>3. Listed(h) = Listed(b)
    BY <2>1 DEF Listed
  <2>4. Agrees(h)
    BY <1>1, <2>1, <2>3 DEF Agrees
  <2>5. /\ d \in Timers /\ Agrees(d)
        /\ d.evt = [t \in DOMAIN h.evt \ {s} |-> h.evt[t]]
        /\ d.handle = h.handle
        /\ Listed(d) = Listed(h) \ {s}
        /\ NearestListed(d)
    BY <2>1, <2>2, <2>4, Removed
  <2>6. d.evt = [t \in DOMAIN b.evt \ {s} |-> b.evt[t]]
    BY <2>1, <2>5
  <2>7. Sound(d)
    BY <2>1, <2>5, <2>6, NamedWithout
  <2> QED BY <2>3, <2>5, <2>6, <2>7
<1>4. ASSUME NEW ms \in Periods \union {b.evt[s].period}, d = Repeats(b, s, ms)
      PROVE  /\ Sound(d) /\ Listed(d) = Listed(b)
             /\ d.list = b.list /\ d.nearest = b.nearest
             /\ d.evt = [b.evt EXCEPT ![s] = Repeated(b.evt[s], ms)]
  <2> DEFINE g == [b.evt EXCEPT ![s] = Repeated(b.evt[s], ms)]
  <2>1. ms \in Nat /\ b.evt \in [DOMAIN b.evt -> Event]
    BY <1>1, <1>2, EventFacts, TimerAssumption DEF Event
  <2>2. g \in [DOMAIN b.evt -> Event] /\ \A t \in DOMAIN b.evt : g[t].cb = b.evt[t].cb
    BY <2>1 DEF Event, Repeated
  <2>3. d = [b EXCEPT !.evt = g]
    BY <1>4 DEF Repeats, Repeated
  <2> HIDE DEF g
  <2>4. /\ Sound([b EXCEPT !.evt = g])
        /\ [b EXCEPT !.evt = g].evt = g
        /\ [b EXCEPT !.evt = g].list = b.list
        /\ [b EXCEPT !.evt = g].nearest = b.nearest
        /\ Listed([b EXCEPT !.evt = g]) = Listed(b)
    BY <2>2, Retimed
  <2> QED BY <2>3, <2>4 DEF g
<1>5. CASE d # Ends(b, s)
  <2>1. PICK ms \in Periods \union {b.evt[s].period} : d = Repeats(b, s, ms)
    BY <1>5 DEF Returns
  <2>2. /\ Sound(d) /\ Listed(d) = Listed(b)
        /\ d.list = b.list /\ d.nearest = b.nearest
        /\ d.evt = [b.evt EXCEPT ![s] = Repeated(b.evt[s], ms)]
    BY <1>4, <2>1
  <2>3. NearestListed(b) => NearestListed(d)
    BY <2>2 DEF NearestListed
  <2>4. \A t \in DOMAIN d.evt :
          /\ t \in DOMAIN b.evt
          /\ d.evt[t] = IF t = s THEN Repeated(b.evt[s], ms) ELSE b.evt[t]
    BY <2>2
  <2> QED BY <2>2, <2>3, <2>4
<1> QED BY <1>3, <1>5

-----------------------------------------------------------------------------
(* Between two steps; the loop over the list stands nowhere outside of it. *)
IInv ==
  /\ TypeOK
  /\ Sound(timers)
  /\ cursor # None => pc = "execute" /\ cursor \in Listed(timers)

LEMMA NoTimersSound == Sound(NoTimers)
<1>1. /\ NoTimers.evt = <<>> /\ NoTimers.list = <<>> /\ NoTimers.used_num = 0
      /\ NoTimers.nearest = None /\ NoTimers.handle = [o \in Owner |-> None]
  BY DEF NoTimers
<1>2. DOMAIN <<>> = {} /\ Len(<<>>) = 0
  OBVIOUS
<1>3. NoTimers \in Timers
  <2>1. <<>> \in [{} -> Event]
    BY <1>2
  <2>2. 0 \in 0 .. MaxNum
    BY TimerAssumption
  <2>3. NoTimers.handle \in [Owner -> Slot \union {None}]
    BY <1>1
  <2> QED BY <1>1, <2>1, <2>2, <2>3, EmptySeq DEF Timers, NoTimers
<1>4. Agrees(NoTimers)
  <2>1. Listed(NoTimers) = {}
    BY <1>1, <1>2 DEF Listed
  <2> QED BY <1>1, <1>2, <2>1, FS_EmptySet DEF Agrees, Injective
<1>5. Named(NoTimers)
  BY <1>1, <1>2 DEF Named
<1> QED BY <1>3, <1>4, <1>5 DEF Sound

LEMMA InitIInv == Init => IInv
<1>1. 0 \in Tick /\ 0 \in 0 .. TickMs - 1
  BY TimerAssumption DEF Tick
<1> QED BY <1>1, NoTimersSound DEF Init, IInv, Sound, TypeOK

(* Remainders and differences of ticks are small numbers again. *)
LEMMA TickArithmetic ==
  ASSUME NEW n \in Nat
  PROVE  /\ n % TickSpace \in Tick
         /\ n % TickMs \in 0 .. TickMs - 1
         /\ n \div TickMs \in Nat
  BY TimerAssumption DEF Tick

LEMMA ElapsedType ==
  ASSUME NEW from \in Nat, from <= TickSpace, NEW to \in Tick
  PROVE  Elapsed(from, to) \in Tick
<1>1. to + TickSpace - from \in Nat
  BY TimerAssumption DEF Tick
<1> QED BY <1>1, TickArithmetic DEF Elapsed

LEMMA ProcessStep ==
  ASSUME IInv, Process
  PROVE  IInv'
<1> DEFINE ticks == Elapsed(prevTick, clock)
           ms == ticks \div TickMs + Remainder(ticks) \div TickMs
<1>1. TypeOK /\ Sound(timers) /\ timers \in Timers /\ clock \in Tick /\ prevTick \in Tick
  BY DEF IInv, TypeOK
<1>2. cursor = None
  BY DEF IInv, Process
<1>3. ticks \in Nat
  <2>1. prevTick \in Nat /\ prevTick <= TickSpace
    BY <1>1, TimerAssumption DEF Tick
  <2>2. ticks \in Tick
    BY <1>1, <2>1, ElapsedType
  <2> QED BY <2>2 DEF Tick
<1>4. Remainder(ticks) \in Nat
  <2>1. ticks % TickMs \in Nat /\ remTick \in Nat
    BY <1>1, <1>3, TickArithmetic DEF TypeOK
  <2> QED BY <2>1 DEF Remainder
<1>5. ms \in Nat /\ Remainder(ticks) % TickMs \in 0 .. TickMs - 1
  BY <1>3, <1>4, TickArithmetic
<1>6. /\ prevTick' = clock /\ clock' = clock
      /\ remTick' = Remainder(ticks) % TickMs
  BY DEF Process
<1>7. CASE ms = 0
  <2>1. /\ timers' = timers /\ cursor' = cursor /\ prev_head' = prev_head
        /\ pc' = "tasks"
    BY <1>7 DEF Process
  <2> HIDE DEF ticks
  <2> QED BY <1>1, <1>2, <1>5, <1>6, <2>1 DEF IInv, TypeOK
<1>8. CASE ms # 0
  <2>1. /\ timers' = Update(timers, ms, clock) /\ pc' = "execute"
        /\ cursor' = HeadOf(timers.list) /\ prev_head' = HeadOf(timers.list)
    BY <1>8 DEF Process
  <2> HIDE DEF ms, ticks
  <2>2. Sound(timers') /\ Listed(timers') = Listed(timers)
    BY <1>1, <1>5, <2>1, Updated
  <2>3. timers' \in Timers
    BY <2>2 DEF Sound
  <2>4. /\ cursor' \in Slot \union {None}
        /\ cursor' # None => cursor' \in Listed(timers')
    BY <1>1, <2>1, <2>2, HeadFacts
  <2>5. prev_head' \in Slot \union {None}
    BY <2>1, <2>4
  <2>6. TypeOK'
    BY <1>1, <1>5, <1>6, <2>1, <2>3, <2>4, <2>5 DEF TypeOK
  <2> QED BY <2>1, <2>2, <2>4, <2>6 DEF IInv
<1> QED BY <1>7, <1>8

LEMMA CallbackStep ==
  ASSUME IInv, Callback
  PROVE  IInv'
<1>1. TypeOK /\ Sound(timers) /\ clock \in Tick /\ pc = "execute"
  BY DEF IInv, TypeOK, Callback, Examine
<1>2. cursor \in Listed(timers)
  BY DEF IInv, Callback, Examine
<1>body. PICK body \in Bodies(timers, cursor) : \E done \in Returns(body, cursor) :
        /\ timers' = done
        /\ IF HeadOf(done.list) # prev_head
           THEN /\ cursor' = HeadOf(done.list)
                /\ prev_head' = HeadOf(done.list)
           ELSE /\ cursor' = NextAfter(timers, body, cursor)
                /\ UNCHANGED prev_head
  BY DEF Callback
<1>done. PICK done \in Returns(body, cursor) :
        /\ timers' = done
        /\ IF HeadOf(done.list) # prev_head
           THEN /\ cursor' = HeadOf(done.list)
                /\ prev_head' = HeadOf(done.list)
           ELSE /\ cursor' = NextAfter(timers, body, cursor)
                /\ UNCHANGED prev_head
  BY <1>body
<1>4. Sound(body) /\ cursor \in DOMAIN body.evt
  BY <1>1, <1>2, BodyKeeps
<1>5. Sound(done) /\ Listed(body) \ {cursor} \subseteq Listed(done)
  BY <1>4, Returned
<1>6. /\ body \in Timers /\ done \in Timers /\ Injective(body.list)
      /\ cursor \in Listed(body)
  BY <1>4, <1>5 DEF Sound, Agrees
<1>7. /\ HeadOf(done.list) \in Slot \union {None}
      /\ HeadOf(done.list) # None => HeadOf(done.list) \in Listed(done)
  BY <1>6, HeadFacts
<1>8. /\ NextAfter(timers, body, cursor) \in Slot \union {None}
      /\ NextAfter(timers, body, cursor) # None =>
           NextAfter(timers, body, cursor) \in Listed(done)
  BY <1>5, <1>6, AfterFacts DEF NextAfter
<1>9. /\ cursor' \in Slot \union {None} /\ prev_head' \in Slot \union {None}
      /\ cursor' # None => cursor' \in Listed(done)
  BY <1>1, <1>done, <1>7, <1>8 DEF TypeOK
<1>10. pc' = pc /\ clock' = clock /\ prevTick' = prevTick /\ remTick' = remTick
  BY DEF Callback
<1>11. TypeOK'
  BY <1>1, <1>done, <1>6, <1>9, <1>10 DEF TypeOK
<1> QED BY <1>1, <1>done, <1>5, <1>9, <1>10, <1>11 DEF IInv

LEMMA SleepStep ==
  ASSUME IInv, Sleep
  PROVE  IInv'
<1>1. TypeOK /\ Sound(timers) /\ clock \in Tick /\ timers \in Timers
  BY DEF IInv, TypeOK
<1>2. cursor = None
  BY DEF IInv, Sleep
<1>3. PICK ticks \in 1 .. timers.evt[timers.nearest].timeout * TickMs :
        /\ clock' = (clock + ticks) % TickSpace
        /\ timers' = IF ticks \div TickMs = 0 THEN Aged(timers, ticks)
                     ELSE Update(Aged(timers, ticks), ticks \div TickMs,
                                 (clock + ticks) % TickSpace)
        /\ prevTick' = Elapsed(ticks % TickMs, (clock + ticks) % TickSpace)
  BY DEF Sleep, ChargedUpTo
<1>4. ticks \in Nat /\ clock + ticks \in Nat
  BY <1>1 DEF Tick
<1>5. /\ (clock + ticks) % TickSpace \in Tick
      /\ ticks % TickMs \in 0 .. TickMs - 1
      /\ ticks \div TickMs \in Nat
  BY <1>4, TickArithmetic
<1>6. Sound(Aged(timers, ticks))
  BY <1>1, <1>4, AgedFacts
<1>7. Sound(timers')
  BY <1>3, <1>5, <1>6, Updated
<1>8. prevTick' \in Tick
  <2>1. ticks % TickMs \in Nat /\ ticks % TickMs <= TickSpace
    BY <1>5, TimerAssumption
  <2> QED BY <1>3, <1>5, <2>1, ElapsedType
<1>9. TypeOK'
  <2>1. timers' \in Timers
    BY <1>7 DEF Sound
  <2>2. /\ pc' = "process" /\ cursor' = cursor /\ prev_head' = prev_head
        /\ remTick' = remTick
    BY DEF Sleep
  <2> QED BY <1>1, <1>3, <1>5, <1>8, <2>1, <2>2 DEF TypeOK
<1>10. cursor' = None
  BY <1>2 DEF Sleep
<1> QED BY <1>7, <1>9, <1>10 DEF IInv

LEMMA NextIInv == IInv /\ [Next]_vars => IInv'
<1> SUFFICES ASSUME IInv, [Next]_vars
             PROVE  IInv'
  OBVIOUS
<1>1. TypeOK /\ Sound(timers) /\ timers \in Timers /\ clock \in Tick
  BY DEF IInv, TypeOK
<1>2. CASE Process
  BY <1>2, ProcessStep
<1>3. CASE NotDue
  <2>1. cursor \in Listed(timers) /\ Injective(timers.list)
    BY <1>1, <1>3 DEF IInv, NotDue, Examine, Sound, Agrees
  <2>2. /\ cursor' \in Slot \union {None}
        /\ cursor' # None => cursor' \in Listed(timers)
    BY <1>1, <1>3, <2>1, AfterFacts DEF NotDue
  <2>3. pc = "execute" /\ UNCHANGED <<timers, pc, prev_head, clock, prevTick, remTick>>
    BY <1>3 DEF NotDue, Examine
  <2> QED BY <1>1, <2>2, <2>3 DEF IInv, TypeOK
<1>4. CASE Callback
  BY <1>4, CallbackStep
<1>5. CASE AllExamined
  <2>1. cursor' = None /\ timers' = NearestUpdate(timers) /\ pc' = "tasks"
        /\ UNCHANGED <<cursor, prev_head, clock, prevTick, remTick>>
    BY <1>5 DEF AllExamined
  <2>2. Sound(timers') /\ timers' \in Timers
    BY <1>1, <2>1, Nearest DEF Sound
  <2> QED BY <1>1, <2>1, <2>2 DEF IInv, TypeOK
<1>6. CASE Use
  <2>1. cursor = None /\ UNCHANGED <<pc, cursor, prev_head, clock, prevTick, remTick>>
    BY <1>6 DEF IInv, Use
  <2>2. PICK o \in Owner : timers' \in Uses(timers, o)
    BY <1>6 DEF Use
  <2>3. Sound(timers') /\ timers' \in Timers
    BY <1>1, <2>2, Used DEF Sound
  <2> QED BY <1>1, <2>1, <2>3 DEF IInv, TypeOK
<1>7. CASE PoolException
  <2>2. /\ timers' = NoTimers /\ pc' = "process" /\ cursor' = None
        /\ prev_head' = None /\ clock' = 0 /\ prevTick' = 0 /\ remTick' = 0
    BY <1>7 DEF PoolException
  <2>3. Sound(NoTimers)
    BY NoTimersSound
  <2>4. 0 \in Tick /\ 0 \in 0 .. TickMs - 1
    BY TimerAssumption DEF Tick
  <2> QED BY <2>2, <2>3, <2>4 DEF IInv, TypeOK, Sound
<1>8. CASE PassEnds
  <2>1. cursor = None /\ pc' = "process"
        /\ UNCHANGED <<timers, cursor, prev_head, clock, prevTick, remTick>>
    BY <1>8 DEF IInv, PassEnds
  <2> QED BY <1>1, <2>1 DEF IInv, TypeOK
<1>9. CASE ClockTicks
  <2>1. cursor = None /\ clock' = (clock + 1) % TickSpace
        /\ timers' = Aged(timers, 1)
        /\ UNCHANGED <<pc, cursor, prev_head, prevTick, remTick>>
    BY <1>9 DEF IInv, ClockTicks
  <2>2. clock' \in Tick
    BY <1>1, <2>1, TickArithmetic DEF Tick
  <2>3. Sound(timers') /\ timers' \in Timers
    BY <1>1, <2>1, AgedFacts DEF Sound
  <2> QED BY <1>1, <2>1, <2>2, <2>3 DEF IInv, TypeOK
<1>10. CASE Sleep
  BY <1>10, SleepStep
<1>11. CASE UNCHANGED vars
  BY <1>11 DEF IInv, TypeOK, vars
<1> QED BY <1>2, <1>3, <1>4, <1>5, <1>6, <1>7, <1>8, <1>9, <1>10, <1>11 DEF Next, Pass

LEMMA IInvImplies == IInv => PoolAgrees /\ HandlesNameTimers /\ CursorIsScheduled
  BY DEF IInv, Sound, Agrees, Injective, Named, PoolAgrees, HandlesNameTimers,
         CursorIsScheduled

LEMMA Invariance == Spec => []IInv
  BY InitIInv, NextIInv, PTL DEF Spec

-----------------------------------------------------------------------------
(* Time.  Whole milliseconds, and ticks on a counter that wraps.           *)
LEMMA DivMod ==
  ASSUME NEW n \in Nat
  PROVE  /\ n \div TickMs \in Nat
         /\ n % TickMs \in 0 .. TickMs - 1
         /\ n = (n \div TickMs) * TickMs + (n % TickMs)
         /\ (n \div TickMs) * TickMs <= n
  BY TimerAssumption

LEMMA Monotone ==
  ASSUME NEW a \in Nat, NEW b \in Nat, NEW t \in Nat, a <= b
  PROVE  a * t <= b * t
  OBVIOUS

LEMMA DivBelow ==
  ASSUME NEW n \in Nat, NEW q \in Nat, n <= q * TickMs + TickMs - 1
  PROVE  n \div TickMs <= q
<1>1. n \div TickMs \in Nat /\ (n \div TickMs) * TickMs <= n /\ TickMs \in Nat \ {0}
  BY DivMod, TimerAssumption
<1>2. ASSUME n \div TickMs >= q + 1
      PROVE  FALSE
  <2> DEFINE d == n \div TickMs
  <2>1. d \in Nat /\ d >= q + 1
    BY <1>1, <1>2
  <2> HIDE DEF d
  <2>2. (q + 1) * TickMs <= d * TickMs
    BY <1>1, <2>1, Monotone
  <2>3. (q + 1) * TickMs = q * TickMs + TickMs
    BY <1>1
  <2>4. q * TickMs \in Nat
    BY <1>1
  <2> QED BY <1>1, <2>2, <2>3, <2>4 DEF d
<1> QED BY <1>1, <1>2

LEMMA DivAbove ==
  ASSUME NEW n \in Nat, NEW q \in Nat, q * TickMs <= n
  PROVE  q <= n \div TickMs
<1> DEFINE d == n \div TickMs
<1>1. d \in Nat /\ n <= d * TickMs + TickMs - 1 /\ TickMs \in Nat \ {0}
  BY DivMod, TimerAssumption
<1> HIDE DEF d
<1>2. ASSUME q >= d + 1
      PROVE  FALSE
  <2>1. (d + 1) * TickMs <= q * TickMs
    BY <1>1, <1>2, Monotone
  <2>2. (d + 1) * TickMs = d * TickMs + TickMs /\ d * TickMs \in Nat
    BY <1>1
  <2> QED BY <1>1, <2>1, <2>2
<1>3. q <= d
  BY <1>1, <1>2
<1> QED BY <1>3 DEF d

LEMMA ElapsedIs ==
  ASSUME NEW from \in Tick, NEW to \in Tick
  PROVE  Elapsed(from, to) = IF from <= to THEN to - from ELSE to + TickSpace - from
<1>1. CASE from <= to
  BY <1>1, TimerAssumption DEF Elapsed, Tick
<1>2. CASE from > to
  BY <1>2, TimerAssumption DEF Elapsed, Tick
<1> QED BY <1>1, <1>2 DEF Tick

LEMMA ElapsedTick ==
  ASSUME NEW from \in Tick, NEW to \in Tick
  PROVE  Elapsed(from, to) \in Tick /\ Elapsed(from, to) \in Nat
<1>1. from \in Nat /\ from <= TickSpace
  BY TimerAssumption DEF Tick
<1>2. Elapsed(from, to) \in Tick
  BY <1>1, ElapsedType
<1> QED BY <1>2 DEF Tick

LEMMA Wrap ==
  ASSUME NEW n \in Nat
  PROVE  /\ n % TickSpace \in Tick
         /\ n < TickSpace => n % TickSpace = n
         /\ n >= TickSpace => (n % TickSpace) + TickSpace <= n
         /\ n >= TickSpace /\ n < 2 * TickSpace => (n % TickSpace) + TickSpace = n
<1> DEFINE q == n \div TickSpace
           r == n % TickSpace
<1>1. /\ q \in Nat /\ r \in Nat /\ r < TickSpace
      /\ n = q * TickSpace + r /\ TickSpace \in Nat
  BY TimerAssumption
<1>2. r \in Tick
  BY <1>1 DEF Tick
<1> HIDE DEF q, r
<1>3. q = 0 => n = r
  BY <1>1
<1>4. q >= 1 => TickSpace <= q * TickSpace
  BY <1>1
<1>5. q >= 2 => 2 * TickSpace <= q * TickSpace
  BY <1>1
<1>6. q = 1 => n = TickSpace + r
  BY <1>1
<1>7. q = 0 \/ q = 1 \/ q >= 2
  BY <1>1
<1>8. /\ r \in Tick
      /\ n < TickSpace => r = n
      /\ n >= TickSpace => r + TickSpace <= n
      /\ n >= TickSpace /\ n < 2 * TickSpace => r + TickSpace = n
  <2> DEFINE qs == q * TickSpace
  <2>1. qs \in Nat /\ n = qs + r
    BY <1>1
  <2> HIDE DEF qs
  <2>2. (q >= 1 => TickSpace <= qs) /\ (q >= 2 => 2 * TickSpace <= qs)
    BY <1>4, <1>5 DEF qs
  <2> QED BY <1>1, <1>2, <1>3, <1>6, <1>7, <2>1, <2>2
<1> QED BY <1>8 DEF r

LEMMA ElapsedLater ==
  ASSUME NEW from \in Tick, NEW to \in Tick, NEW k \in Nat
  PROVE  /\ (to + k) % TickSpace \in Tick
         /\ Elapsed(from, (to + k) % TickSpace) <= Elapsed(from, to) + k
         /\ Elapsed(from, to) + k < TickSpace =>
              Elapsed(from, (to + k) % TickSpace) = Elapsed(from, to) + k
<1> DEFINE r == (to + k) % TickSpace
<1>1. from \in Nat /\ to \in Nat /\ from < TickSpace /\ to < TickSpace /\ to + k \in Nat /\ TickSpace \in Nat
  BY TimerAssumption DEF Tick
<1>2. /\ r \in Tick
      /\ to + k < TickSpace => r = to + k
      /\ to + k >= TickSpace => r + TickSpace <= to + k
      /\ to + k >= TickSpace /\ to + k < 2 * TickSpace => r + TickSpace = to + k
  BY <1>1, Wrap
<1> HIDE DEF r
<1>3. /\ Elapsed(from, to) = IF from <= to THEN to - from ELSE to + TickSpace - from
      /\ Elapsed(from, r) = IF from <= r THEN r - from ELSE r + TickSpace - from
  BY <1>2, ElapsedIs
<1>4. r \in Nat /\ r < TickSpace
  BY <1>1, <1>2 DEF Tick
<1>5. /\ Elapsed(from, r) <= Elapsed(from, to) + k
      /\ Elapsed(from, to) + k < TickSpace => Elapsed(from, r) = Elapsed(from, to) + k
  <2>1. CASE to + k < TickSpace
    BY <1>1, <1>2, <1>3, <2>1
  <2>2. CASE to + k >= TickSpace
    BY <1>1, <1>2, <1>3, <1>4, <2>2
  <2> QED BY <1>1, <2>1, <2>2
<1> QED BY <1>2, <1>5 DEF r

LEMMA ChargedUpToIs ==
  ASSUME NEW r \in 0 .. TickMs - 1, NEW now \in Tick
  PROVE  Elapsed(Elapsed(r, now), now) = r
<1>1. r \in Tick
  BY TimerAssumption DEF Tick
<1>2. Elapsed(r, now) = IF r <= now THEN now - r ELSE now + TickSpace - r
  BY <1>1, ElapsedIs
<1>3. Elapsed(r, now) \in Tick
  BY <1>1, <1>2, TimerAssumption DEF Tick
<1> QED BY <1>1, <1>2, <1>3, TimerAssumption, ElapsedIs DEF Tick
-----------------------------------------------------------------------------
(* What a timer has been charged against its age, in ticks: never two      *)
(* milliseconds more, with what is still to be charged to it.  An age that *)
(* has come to the period stays there.                                     *)
Grown(tm) == tm.age = tm.period * TickMs

Owes(tm, ticks) ==
  /\ tm.timeout <= tm.period
  /\ tm.period # 0
  /\ \/ Grown(tm)
     \/ (tm.period - tm.timeout) * TickMs + ticks <= tm.age + 2 * (TickMs - 1)

(* A timer that was not charged yet is as old as its tick says, which lies *)
(* at most lag before what has not made up a millisecond for the others.   *)
Counted(tm, rem, behind, lag, now) ==
  IF tm.isRunning THEN Owes(tm, rem + behind)
  ELSE /\ tm.timeout = tm.period
       /\ tm.period # 0
       /\ Grown(tm) \/ Elapsed(tm.curSysTick, now) <= tm.age
       /\ Elapsed(tm.curSysTick, now) <= rem * (MaxGap + 1) + behind + lag

LEMMA FreshCounted ==
  ASSUME NEW tm, Fresh(tm), clock \in Tick,
         NEW rem \in Nat, NEW behind \in Nat, NEW lag \in Nat
  PROVE  Counted(tm, rem, behind, lag, clock)
<1>1. tm.timeout = tm.period /\ tm.period # 0 /\ ~tm.isRunning
  BY TimerAssumption DEF Fresh
<1>2. Elapsed(tm.curSysTick, clock) = 0
  BY ElapsedIs DEF Fresh, Tick
<1>3. rem * (MaxGap + 1) \in Nat
  BY TimerAssumption
<1>4. 0 <= tm.age
  BY DEF Fresh
<1> QED BY <1>1, <1>2, <1>3, <1>4 DEF Counted

LEMMA OlderOwes ==
  ASSUME NEW tm \in Event, NEW ticks \in Nat, NEW k \in Nat, Owes(tm, ticks)
  PROVE  Owes(Older(tm, k), ticks + k)
<1> DEFINE o == Older(tm, k)
<1>1. /\ tm.age \in Nat /\ tm.period \in Nat /\ tm.timeout \in Nat
      /\ tm.period * TickMs \in Nat /\ TickMs \in Nat
  BY TimerAssumption DEF Event
<1>2. /\ o.period = tm.period /\ o.timeout = tm.timeout
      /\ o.age = IF tm.age + k < tm.period * TickMs THEN tm.age + k
                 ELSE tm.period * TickMs
  BY DEF Older, Event
<1> HIDE DEF o
<1>3. CASE Grown(tm)
  <2>1. Grown(o)
    BY <1>1, <1>2, <1>3 DEF Grown
  <2> QED BY <1>2, <2>1 DEF Owes, o
<1>4. CASE ~Grown(tm)
  <2> DEFINE c == (tm.period - tm.timeout) * TickMs
  <2>1. c + ticks <= tm.age + 2 * (TickMs - 1) /\ c \in Nat
    BY <1>1, <1>4 DEF Owes
  <2> HIDE DEF c
  <2>2. Grown(o) \/ c + (ticks + k) <= o.age + 2 * (TickMs - 1)
    BY <1>1, <1>2, <2>1 DEF Grown
  <2> QED BY <1>2, <2>2 DEF Owes, c, o
<1> QED BY <1>3, <1>4

(* A charge takes from what is owed; the first one leaves what it cannot.  *)
LEMMA RunningOwes ==
  ASSUME NEW tm \in Event, NEW ms \in Nat, NEW now \in Tick, NEW before \in Nat,
         NEW after \in Nat,
         \/ tm.isRunning /\ Owes(tm, before) /\ ms * TickMs + after <= before
         \/ /\ ~tm.isRunning /\ tm.timeout = tm.period /\ tm.period # 0
            /\ Grown(tm) \/ Elapsed(tm.curSysTick, now) <= tm.age
            /\ after <= 2 * (TickMs - 1)
  PROVE  Owes(Running(tm, ms, now), after)
<1> DEFINE r == Running(tm, ms, now)
           c == Charged(tm, ms, now)
<1>1. /\ tm.age \in Nat /\ tm.period \in Nat /\ tm.timeout \in Nat
      /\ tm.curSysTick \in Tick /\ TickMs \in Nat \ {0}
  BY TimerAssumption DEF Event
<1>2. Elapsed(tm.curSysTick, now) \in Nat
  BY <1>1, ElapsedIs, TimerAssumption DEF Tick
<1>3. c \in Nat
  BY <1>2, DivMod DEF Charged
<1>4. /\ r.period = tm.period /\ r.age = tm.age
      /\ r.timeout = IF tm.timeout > c THEN tm.timeout - c ELSE 0
  BY DEF Running, Left, Event
<1> HIDE DEF r
<1>5. tm.timeout <= tm.period /\ tm.period # 0
  BY <1>1 DEF Owes
<1>6. CASE Grown(tm)
  BY <1>1, <1>3, <1>4, <1>5, <1>6 DEF Owes, Grown, r
<1>7. CASE ~Grown(tm)
  <2> DEFINE p == tm.period - tm.timeout
  <2>1. p \in Nat
    BY <1>1, <1>5
  <2>2. (p + c) * TickMs + after <= tm.age + 2 * (TickMs - 1)
    <3>1. (p + c) * TickMs = p * TickMs + c * TickMs /\ p * TickMs \in Nat /\ c * TickMs \in Nat
      BY <1>1, <1>3, <2>1
    <3>2. CASE tm.isRunning
      <4>1. c = ms /\ Owes(tm, before) /\ ms * TickMs + after <= before
        BY <3>2 DEF Charged
      <4>2. p * TickMs + before <= tm.age + 2 * (TickMs - 1)
        BY <1>7, <4>1 DEF Owes
      <4> HIDE DEF c, p
      <4> QED BY <1>1, <3>1, <4>1, <4>2
    <3>3. CASE ~tm.isRunning
      <4>1. p = 0 /\ p * TickMs = 0
        BY <1>1, <3>3
      <4>2. c = Elapsed(tm.curSysTick, now) \div TickMs
        BY <3>3 DEF Charged
      <4>3. c * TickMs <= Elapsed(tm.curSysTick, now)
        <5> HIDE DEF c
        <5> QED BY <1>2, <4>2, DivMod
      <4>4. Elapsed(tm.curSysTick, now) <= tm.age /\ after <= 2 * (TickMs - 1)
        BY <1>7, <3>3
      <4> HIDE DEF c, p
      <4> QED BY <1>1, <1>2, <3>1, <4>1, <4>3, <4>4
    <3> QED BY <3>2, <3>3
  <2>3. r.period - r.timeout \in Nat /\ r.period - r.timeout <= p + c
    BY <1>1, <1>3, <1>4, <1>5
  <2>4. (r.period - r.timeout) * TickMs <= (p + c) * TickMs
    <3> DEFINE a == r.period - r.timeout
               b == p + c
    <3>1. a \in Nat /\ b \in Nat /\ a <= b
      BY <1>3, <2>1, <2>3
    <3> HIDE DEF a, b
    <3>2. a * TickMs <= b * TickMs
      BY <1>1, <3>1, Monotone
    <3> QED BY <3>2 DEF a, b
  <2>5. (r.period - r.timeout) * TickMs + after <= tm.age + 2 * (TickMs - 1)
    <3> DEFINE a == (r.period - r.timeout) * TickMs
               b == (p + c) * TickMs
    <3>1. a \in Nat /\ b \in Nat /\ a <= b /\ b + after <= tm.age + 2 * (TickMs - 1)
      BY <1>1, <1>3, <2>1, <2>2, <2>3, <2>4
    <3> HIDE DEF a, b
    <3>2. a + after <= tm.age + 2 * (TickMs - 1)
      BY <1>1, <3>1
    <3> QED BY <3>2 DEF a
  <2> QED BY <1>1, <1>3, <1>4, <1>5, <2>5 DEF Owes, r
<1> QED BY <1>6, <1>7

(* The lag a new timer may have before the next pass has begun. *)
Lag(place, behind) == IF place = "process" /\ behind # 0 THEN MaxGap ELSE 0

LEMMA LagType ==
  ASSUME NEW place, NEW behind
  PROVE  Lag(place, behind) \in Nat /\ Lag(place, behind) <= MaxGap
  BY TimerAssumption DEF Lag

(* A pass that is shorter than a millisecond with what was left before. *)
LEMMA CountedIdle ==
  ASSUME NEW tm \in Event, NEW rem \in Nat, NEW behind \in Nat, NEW now \in Tick,
         Counted(tm, rem, behind, Lag("process", behind), now)
  PROVE  Counted(tm, rem + behind, 0, 0, now)
<1>1. MaxGap \in Nat
  BY TimerAssumption
<1>2. (rem + behind) * (MaxGap + 1) = rem * (MaxGap + 1) + behind * MaxGap + behind
  BY <1>1
<1>3. behind # 0 => MaxGap <= behind * MaxGap
  <2>1. behind # 0 => 1 * MaxGap <= behind * MaxGap
    BY <1>1, Monotone
  <2> QED BY <1>1, <2>1
<1>4. rem * (MaxGap + 1) \in Nat /\ behind * MaxGap \in Nat
  BY <1>1
<1>5. Elapsed(tm.curSysTick, now) \in Nat
  <2>1. tm.curSysTick \in Tick
    BY DEF Event
  <2> QED BY <2>1, ElapsedTick
<1>6. rem * (MaxGap + 1) + behind + Lag("process", behind)
        <= (rem + behind) * (MaxGap + 1) + 0 + 0
  <2> DEFINE a == rem * (MaxGap + 1)
             b == behind * MaxGap
             c == (rem + behind) * (MaxGap + 1)
  <2>1. a \in Nat /\ b \in Nat /\ c = a + b + behind /\ (behind # 0 => MaxGap <= b)
    BY <1>2, <1>3, <1>4
  <2> HIDE DEF a, b, c
  <2>2. a + behind + Lag("process", behind) <= c + 0 + 0
    BY <1>1, <2>1 DEF Lag
  <2> QED BY <2>2 DEF a, c
<1>7. CASE tm.isRunning
  BY <1>7 DEF Counted
<1>8. CASE ~tm.isRunning
  <2> DEFINE x == rem * (MaxGap + 1) + behind + Lag("process", behind)
             y == (rem + behind) * (MaxGap + 1) + 0 + 0
  <2>1. x \in Nat /\ y \in Nat /\ x <= y
    BY <1>1, <1>2, <1>4, <1>6, LagType
  <2>2. Elapsed(tm.curSysTick, now) <= x
    BY <1>8 DEF Counted
  <2> HIDE DEF x, y
  <2>3. Elapsed(tm.curSysTick, now) <= y
    BY <1>5, <2>1, <2>2
  <2> QED BY <1>8, <2>3 DEF Counted, y
<1> QED BY <1>7, <1>8

(* Time goes on, up to the next charge: awake, or asleep for less than a   *)
(* millisecond, when the time since the last pass is lost.                 *)
LEMMA CountedOlder ==
  ASSUME NEW tm \in Event, NEW rem \in Nat, NEW behind \in Nat, NEW now \in Tick,
         NEW ticks \in Nat, NEW late \in Nat, NEW lag \in Nat, NEW lag2 \in Nat,
         Counted(tm, rem, behind, lag, now),
         late <= behind + ticks, behind + ticks + lag <= late + lag2
  PROVE  Counted(Older(tm, ticks), rem, late, lag2, (now + ticks) % TickSpace)
<1> DEFINE o == Older(tm, ticks)
           later == (now + ticks) % TickSpace
<1>1. /\ tm.age \in Nat /\ tm.period \in Nat /\ tm.timeout \in Nat
      /\ tm.period * TickMs \in Nat /\ tm.curSysTick \in Tick
  BY TimerAssumption DEF Event
<1>2. /\ o.period = tm.period /\ o.timeout = tm.timeout
      /\ o.isRunning = tm.isRunning /\ o.curSysTick = tm.curSysTick
      /\ o.age = IF tm.age + ticks < tm.period * TickMs THEN tm.age + ticks
                 ELSE tm.period * TickMs
  BY DEF Older, Event
<1>3. CASE tm.isRunning
  <2>1. Owes(o, rem + behind + ticks)
    BY <1>3, OlderOwes DEF Counted
  <2>2. Owes(o, rem + late)
    <3> DEFINE c == (o.period - o.timeout) * TickMs
    <3>1. o.timeout <= o.period
      BY <2>1 DEF Owes
    <3>2. o.period - o.timeout \in Nat
      BY <1>1, <1>2, <3>1
    <3>3. c \in Nat
      BY <3>2, TimerAssumption
    <3>4. Grown(o) \/ c + (rem + behind + ticks) <= o.age + 2 * (TickMs - 1)
      BY <2>1 DEF Owes
    <3>5. o.age \in Nat /\ TickMs \in Nat
      BY <1>1, <1>2, TimerAssumption
    <3> HIDE DEF c, o
    <3>6. Grown(o) \/ c + (rem + late) <= o.age + 2 * (TickMs - 1)
      BY <3>3, <3>4, <3>5
    <3> QED BY <2>1, <3>6 DEF Owes, c
  <2> QED BY <1>2, <1>3, <2>2 DEF Counted
<1>4. CASE ~tm.isRunning
  <2> DEFINE d == Elapsed(tm.curSysTick, now)
             d2 == Elapsed(tm.curSysTick, later)
             x == rem * (MaxGap + 1)
  <2>1. d2 <= d + ticks /\ later \in Tick
    BY <1>1, ElapsedLater
  <2>2. d \in Nat /\ d2 \in Nat /\ x \in Nat
    <3>1. x \in Nat
      BY TimerAssumption
    <3> HIDE DEF later
    <3> QED BY <1>1, <2>1, <3>1, ElapsedTick
  <2>3. /\ tm.timeout = tm.period /\ tm.period # 0
        /\ Grown(tm) \/ d <= tm.age
        /\ d <= x + behind + lag
    BY <1>4 DEF Counted
  <2> HIDE DEF d, d2, x, o
  <2>4. Grown(o) \/ d2 <= o.age
    <3>1. CASE Grown(tm)
      BY <1>1, <1>2, <3>1 DEF Grown
    <3>2. CASE d <= tm.age
      BY <1>1, <1>2, <2>1, <2>2, <3>2 DEF Grown
    <3> QED BY <2>3, <3>1, <3>2
  <2>5. d2 <= x + late + lag2
    BY <2>1, <2>2, <2>3
  <2> HIDE DEF later
  <2>6. Counted(o, rem, late, lag2, later)
    BY <1>2, <1>4, <2>3, <2>4, <2>5 DEF Counted, d2, x
  <2> QED BY <2>6 DEF o, later
<1> QED BY <1>3, <1>4

(* What is charged runs from then on. *)
LEMMA CountedRunning ==
  ASSUME NEW tm \in Event, NEW ms \in Nat, NEW now \in Tick,
         NEW rem \in Nat, NEW behind \in Nat, NEW lag,
         NEW rem2 \in 0 .. TickMs - 1, NEW behind2 \in 0 .. TickMs - 1, NEW lag2,
         Counted(tm, rem, behind, lag, now),
         ms * TickMs + (rem2 + behind2) <= rem + behind
  PROVE  Counted(Running(tm, ms, now), rem2, behind2, lag2, now)
<1>1. rem2 + behind2 \in Nat /\ rem2 + behind2 <= 2 * (TickMs - 1) /\ rem + behind \in Nat
  BY TimerAssumption
<1>2. Owes(Running(tm, ms, now), rem2 + behind2)
  <2>1. CASE tm.isRunning
    BY <1>1, <2>1, RunningOwes DEF Counted
  <2>2. CASE ~tm.isRunning
    BY <1>1, <2>2, RunningOwes DEF Counted
  <2> QED BY <2>1, <2>2
<1>3. Running(tm, ms, now).isRunning
  BY DEF Running, Event
<1> QED BY <1>2, <1>3 DEF Counted

(* A callback that goes on. *)
LEMMA RepeatedCounted ==
  ASSUME NEW tm \in Event, clock \in Tick, tm.timeout = 0 \/ Fresh(tm),
         NEW rem \in 0 .. TickMs - 1, Counted(tm, rem, 0, 0, clock),
         NEW ms \in Periods \union {tm.period}
  PROVE  Counted(Repeated(tm, ms), rem, 0, 0, clock)
<1> DEFINE r == Repeated(tm, ms)
<1>1. /\ r.period = ms /\ r.timeout = ms /\ r.age = 0
      /\ r.isRunning = tm.isRunning /\ r.curSysTick = tm.curSysTick
  BY DEF Repeated, Event
<1>2. tm.period \in Nat /\ tm.period # 0
  BY DEF Counted, Owes, Event
<1>3. ms \in Nat /\ ms # 0
  BY <1>2, TimerAssumption
<1> HIDE DEF r
<1>4. CASE tm.isRunning
  <2>1. ms - ms = 0 /\ 0 * TickMs = 0 /\ rem + 0 <= 0 + 2 * (TickMs - 1)
    BY <1>3, TimerAssumption
  <2>2. (r.period - r.timeout) * TickMs + (rem + 0) <= r.age + 2 * (TickMs - 1)
    BY <1>1, <1>3, <2>1, TimerAssumption
  <2> QED BY <1>1, <1>3, <1>4, <2>2 DEF Counted, Owes, r
<1>5. CASE ~tm.isRunning
  <2>1. Fresh(tm)
    BY <1>2, <1>5 DEF Counted
  <2>2. Elapsed(r.curSysTick, clock) = 0
    BY <1>1, <2>1, ElapsedIs DEF Fresh, Tick
  <2>3. rem * (MaxGap + 1) \in Nat
    BY TimerAssumption
  <2> QED BY <1>1, <1>3, <1>5, <2>2, <2>3 DEF Counted, r
<1> QED BY <1>4, <1>5

-----------------------------------------------------------------------------
(* What a sleep charges to the timers: to a short one that it was set up   *)
(* for not less than its milliseconds, and to another at most MaxGap more, *)
(* unless the next pass charges a millisecond and looks at all timers.     *)
LEMMA SleepCharges ==
  ASSUME NEW tm \in Event, NEW rem \in 0 .. TickMs - 1, NEW behind \in 0 .. MaxGap,
         NEW now \in Tick, NEW ticks \in Nat, Counted(tm, rem, behind, 0, now)
  PROVE  LET c == Charged(Older(tm, ticks), ticks \div TickMs, (now + ticks) % TickSpace)
         IN /\ c \in Nat
            /\ Short(tm) /\ ticks <= tm.timeout * TickMs => ticks \div TickMs <= c
            /\ rem + (ticks % TickMs) < TickMs => c <= ticks \div TickMs + MaxGap
<1> DEFINE later == (now + ticks) % TickSpace
           q == ticks \div TickMs
           r == ticks % TickMs
           o == Older(tm, ticks)
           c == Charged(o, q, later)
           d == Elapsed(tm.curSysTick, now)
           d2 == Elapsed(tm.curSysTick, later)
<1>1. /\ tm.curSysTick \in Tick /\ tm.timeout \in Nat /\ tm.period \in Nat
      /\ MaxGap \in Nat /\ TickMs \in Nat \ {0} /\ TickSpace \in Nat
      /\ rem \in Nat /\ behind \in Nat /\ behind <= MaxGap /\ rem <= TickMs - 1
  BY TimerAssumption DEF Event
<1>2. o.isRunning = tm.isRunning /\ o.curSysTick = tm.curSysTick
  BY DEF Older, Event
<1>3. q \in Nat /\ r \in Nat /\ r <= TickMs - 1 /\ ticks = q * TickMs + r
  BY <1>1, DivMod
<1>4. CASE tm.isRunning
  <2>1. c = q
    BY <1>2, <1>4 DEF Charged
  <2> HIDE DEF c, q
  <2>2. c \in Nat /\ q <= c /\ c <= q + MaxGap
    BY <1>1, <1>3, <2>1
  <2> QED BY <2>2 DEF c, q, o, later
<1>5. CASE ~tm.isRunning
  <2>1. c = d2 \div TickMs
    BY <1>2, <1>5 DEF Charged
  <2>2. /\ later \in Tick /\ d2 <= d + ticks
        /\ d + ticks < TickSpace => d2 = d + ticks
    BY <1>1, ElapsedLater
  <2>3. d \in Nat /\ d2 \in Nat
    <3> HIDE DEF later
    <3> QED BY <1>1, <2>2, ElapsedTick
  <2>4. tm.timeout = tm.period /\ d <= rem * (MaxGap + 1) + behind + 0
    BY <1>5 DEF Counted
  <2> HIDE DEF d, d2, later
  <2>5. c \in Nat
    BY <2>1, <2>3, DivMod
  <2>6. ASSUME Short(tm), ticks <= tm.timeout * TickMs
        PROVE  q <= c
    <3> DEFINE a == rem * (MaxGap + 1)
               b == (TickMs - 1) * (MaxGap + 1)
               p == tm.period * TickMs
               g == (MaxGap + 1) * TickMs
    <3>1. a <= b
      <4>1. TickMs - 1 \in Nat /\ MaxGap + 1 \in Nat
        BY <1>1
      <4> QED BY <1>1, <4>1, Monotone
    <3>2. a \in Nat /\ b \in Nat /\ p \in Nat /\ g \in Nat
      BY <1>1
    <3>3. b + MaxGap + 1 = g
      BY <1>1
    <3>4. p + g <= TickSpace
      BY <1>1, <2>6 DEF Short
    <3>5. d <= a + behind /\ ticks <= p
      <4>1. d <= a + behind + 0 /\ ticks <= p
        BY <2>4, <2>6
      <4> HIDE DEF a
      <4> QED BY <1>1, <3>2, <4>1
    <3> HIDE DEF a, b, p, g
    <3>6. d + ticks < TickSpace
      BY <1>1, <2>3, <3>1, <3>2, <3>3, <3>4, <3>5
    <3>7. ticks <= d2
      BY <2>2, <2>3, <3>6
    <3>8. q * TickMs <= d2
      <4> DEFINE qt == q * TickMs
      <4>1. qt \in Nat /\ ticks = qt + r
        BY <1>1, <1>3
      <4> HIDE DEF qt, q, r
      <4>2. qt <= d2
        BY <1>3, <2>3, <3>7, <4>1
      <4> QED BY <4>2 DEF qt
    <3> HIDE DEF q
    <3> QED BY <1>3, <2>1, <2>3, <3>8, DivAbove
  <2>7. ASSUME rem + r < TickMs
        PROVE  c <= q + MaxGap
    <3> DEFINE a == rem * MaxGap
               b == (TickMs - 1) * MaxGap
               qt == q * TickMs
               top == (q + MaxGap) * TickMs
    <3>1. a <= b
      <4>1. TickMs - 1 \in Nat
        BY <1>1
      <4> QED BY <1>1, <4>1, Monotone
    <3>2. a \in Nat /\ b \in Nat /\ qt \in Nat
      BY <1>1, <1>3
    <3>3. d <= a + rem + behind
      BY <1>1, <2>4
    <3> HIDE DEF q, r
    <3>4. top = qt + b + MaxGap
      BY <1>1, <1>3
    <3>5. ticks = qt + r
      BY <1>3
    <3>6. top \in Nat
      BY <1>1, <1>3
    <3> HIDE DEF a, b, qt, top
    <3>7. d2 <= top + TickMs - 1
      BY <1>1, <1>3, <2>2, <2>3, <2>7, <3>1, <3>2, <3>3, <3>4, <3>5, <3>6
    <3>8. q + MaxGap \in Nat
      BY <1>1, <1>3
    <3> QED BY <2>1, <2>3, <3>7, <3>8, DivBelow DEF top
  <2> HIDE DEF c, q, r
  <2>8. /\ c \in Nat
        /\ Short(tm) /\ ticks <= tm.timeout * TickMs => q <= c
        /\ rem + r < TickMs => c <= q + MaxGap
    BY <2>5, <2>6, <2>7
  <2> QED BY <2>8 DEF c, q, r, o, later
<1> QED BY <1>4, <1>5

(* After a sleep in which something was charged. *)
Close(e, place, rem, behind) ==
  /\ \A s \in Listed(e) : e.evt[s].isRunning
  /\ \/ ~Short(e.evt[e.nearest])
     \/ place = "process" /\ rem + behind >= TickMs
     \/ \A s \in Listed(e) :
          e.evt[e.nearest].timeout <= e.evt[s].timeout + MaxGap

LEMMA SleepKeepsClose ==
  ASSUME NEW e, Sound(e), NearestListed(e),
         NEW rem \in 0 .. TickMs - 1, NEW behind \in 0 .. MaxGap, NEW now \in Tick,
         NEW ticks \in Nat, ticks <= e.evt[e.nearest].timeout * TickMs,
         \A s \in DOMAIN e.evt : Counted(e.evt[s], rem, behind, 0, now),
         Exact(e) \/ Close(e, "tasks", rem, behind),
         NEW u, Sound(u), Listed(u) = Listed(e), u.nearest = e.nearest,
         u.evt = [s \in DOMAIN e.evt |->
                    Running(Older(e.evt[s], ticks), ticks \div TickMs,
                            (now + ticks) % TickSpace)]
  PROVE  Close(u, "process", rem, ticks % TickMs)
<1> DEFINE later == (now + ticks) % TickSpace
           q == ticks \div TickMs
           n == e.nearest
           c(s) == Charged(Older(e.evt[s], ticks), q, later)
<1>1. /\ Listed(e) = DOMAIN e.evt /\ e.evt \in [DOMAIN e.evt -> Event]
      /\ q \in Nat /\ MaxGap \in Nat
  BY DivMod, EventFacts, TimerAssumption DEF Sound, Agrees
<1>2. CASE Listed(e) = {}
  BY <1>2 DEF Close
<1>3. CASE Listed(e) # {}
  <2>1. n \in DOMAIN e.evt
    <3>1. e.list # <<>>
      BY <1>3 DEF Listed
    <3> QED BY <1>1, <3>1 DEF NearestListed
  <2>2. ASSUME NEW s \in DOMAIN e.evt
        PROVE  /\ e.evt[s].timeout \in Nat /\ c(s) \in Nat
               /\ s = n /\ Short(e.evt[n]) => q <= c(n)
               /\ rem + (ticks % TickMs) < TickMs => c(s) <= q + MaxGap
               /\ e.evt[s].isRunning => c(s) = q
               /\ u.evt[s].timeout =
                    (IF e.evt[s].timeout > c(s) THEN e.evt[s].timeout - c(s) ELSE 0)
               /\ u.evt[s].isRunning
               /\ u.evt[s].period = e.evt[s].period
    <3>1. e.evt[s] \in Event /\ Counted(e.evt[s], rem, behind, 0, now)
      BY <1>1
    <3>2. /\ c(s) \in Nat
          /\ Short(e.evt[s]) /\ ticks <= e.evt[s].timeout * TickMs => q <= c(s)
          /\ rem + (ticks % TickMs) < TickMs => c(s) <= q + MaxGap
      BY <3>1, SleepCharges
    <3>3. e.evt[s].isRunning => c(s) = q
      BY <3>1 DEF Charged, Older, Event
    <3> HIDE DEF q
    <3>4. u.evt[s] = Running(Older(e.evt[s], ticks), q, later)
      BY DEF q
    <3> HIDE DEF later
    <3>5. /\ u.evt[s].timeout =
                (IF e.evt[s].timeout > c(s) THEN e.evt[s].timeout - c(s) ELSE 0)
          /\ u.evt[s].isRunning
          /\ u.evt[s].period = e.evt[s].period
      BY <3>1, <3>4 DEF Running, Left, Older, Event
    <3>6. e.evt[s].timeout \in Nat
      BY <3>1 DEF Event
    <3> HIDE DEF c
    <3> QED BY <3>2, <3>3, <3>5, <3>6
  <2>3. \A s \in Listed(u) : u.evt[s].isRunning
    BY <1>1, <2>2
  <2>4. ASSUME Short(u.evt[n]), rem + (ticks % TickMs) < TickMs,
               NEW s \in Listed(u)
        PROVE  u.evt[n].timeout <= u.evt[s].timeout + MaxGap
    <3>1. s \in DOMAIN e.evt
      BY <1>1
    <3>2. Short(e.evt[n])
      BY <2>1, <2>2, <2>4 DEF Short
    <3> DEFINE tn == e.evt[n].timeout
               ts == e.evt[s].timeout
    <3>3. /\ tn \in Nat /\ ts \in Nat /\ c(n) \in Nat /\ c(s) \in Nat /\ q <= c(n)
          /\ c(s) <= q + MaxGap
          /\ u.evt[n].timeout = (IF tn > c(n) THEN tn - c(n) ELSE 0)
          /\ u.evt[s].timeout = (IF ts > c(s) THEN ts - c(s) ELSE 0)
      <4> HIDE DEF c, q
      <4> QED BY <2>1, <2>2, <2>4, <3>1, <3>2
    <3>4. CASE Exact(e)
      <4>1. tn <= ts
        BY <1>1, <3>1, <3>4 DEF Exact
      <4> HIDE DEF c, q, tn, ts
      <4> QED BY <1>1, <3>3, <4>1
    <3>5. CASE Close(e, "tasks", rem, behind)
      <4>1. tn <= ts + MaxGap
        BY <1>1, <3>1, <3>2, <3>5 DEF Close
      <4>2. c(n) = q /\ c(s) = q
        <5>1. e.evt[n].isRunning /\ e.evt[s].isRunning
          BY <1>1, <2>1, <3>1, <3>5 DEF Close
        <5> HIDE DEF c, q
        <5> QED BY <2>1, <2>2, <3>1, <5>1
      <4> HIDE DEF c, q, tn, ts
      <4> QED BY <1>1, <3>3, <4>1, <4>2
    <3> QED BY <3>4, <3>5
  <2>5. rem + (ticks % TickMs) >= TickMs \/ rem + (ticks % TickMs) < TickMs
    <3>1. ticks % TickMs \in Nat
      BY DivMod
    <3> QED BY <3>1, TimerAssumption
  <2> QED BY <2>3, <2>4, <2>5 DEF Close
<1> QED BY <1>2, <1>3

-----------------------------------------------------------------------------
(* What the timers have been charged, at every step: the last pass lies    *)
(* behind by the ticks of Behind, and the nearest timer is the one that is *)
(* due first, but for what sleeps have charged more to others.             *)
Behind == Elapsed(prevTick, clock)

AllCounted(e, rem, behind, lag, now) ==
  \A s \in DOMAIN e.evt : Counted(e.evt[s], rem, behind, lag, now)

TimeInv ==
  /\ pc = "execute" => Behind = 0
  /\ pc = "tasks" => Behind <= MaxGap
  /\ AllCounted(timers, remTick, Behind, Lag(pc, Behind), clock)
  /\ NearestListed(timers)
  /\ pc # "execute" => Exact(timers) \/ Close(timers, pc, remTick, Behind)

LEMMA InheritsCounted ==
  ASSUME NEW e, NEW u, Inherits(u, e), clock \in Tick,
         NEW rem \in Nat, NEW behind \in Nat, NEW lag \in Nat,
         AllCounted(e, rem, behind, lag, clock)
  PROVE  AllCounted(u, rem, behind, lag, clock)
  BY FreshCounted DEF AllCounted, Inherits

(* Where every pass starts. *)
LEMMA NoTimersTimed ==
  ASSUME NEW rem, NEW behind, NEW lag, NEW now
  PROVE  /\ AllCounted(NoTimers, rem, behind, lag, now)
         /\ NearestListed(NoTimers) /\ Exact(NoTimers)
<1>1. NoTimers.evt = <<>> /\ NoTimers.list = <<>> /\ DOMAIN <<>> = {} /\ Len(<<>>) = 0
  BY DEF NoTimers
<1>2. Listed(NoTimers) = {}
  BY <1>1 DEF Listed
<1> QED BY <1>1, <1>2 DEF AllCounted, NearestListed, Exact

LEMMA TimeTypes ==
  ASSUME IInv
  PROVE  /\ TypeOK /\ Sound(timers) /\ timers \in Timers
         /\ clock \in Tick /\ prevTick \in Tick
         /\ remTick \in 0 .. TickMs - 1 /\ remTick \in Nat
         /\ Behind \in Tick /\ Behind \in Nat
         /\ timers.evt \in [DOMAIN timers.evt -> Event]
         /\ Listed(timers) = DOMAIN timers.evt
         /\ TickMs \in Nat \ {0} /\ MaxGap \in Nat /\ MaxGap < TickSpace
         /\ TickSpace \in Nat
<1>1. TypeOK /\ Sound(timers) /\ timers \in Timers
  BY DEF IInv, TypeOK
<1>2. clock \in Tick /\ prevTick \in Tick /\ remTick \in 0 .. TickMs - 1
  BY <1>1 DEF TypeOK
<1>3. Behind \in Tick /\ Behind \in Nat
  BY <1>2, ElapsedTick DEF Behind
<1> QED BY <1>1, <1>2, <1>3, EventFacts, TimerAssumption DEF Sound, Agrees

LEMMA ElapsedSame ==
  ASSUME NEW now \in Tick
  PROVE  Elapsed(now, now) = 0
  BY ElapsedIs DEF Tick

LEMMA TimeInit == Init => TimeInv
<1> SUFFICES ASSUME Init
             PROVE  TimeInv
  OBVIOUS
<1>1. timers = NoTimers /\ pc = "process"
  BY DEF Init
<1> QED BY <1>1, NoTimersTimed DEF TimeInv

(* What a pass charges is what it counted, and the rest is kept. *)
LEMMA TimeProcess ==
  ASSUME IInv, TimeInv, Process
  PROVE  TimeInv'
<1> DEFINE q == Behind \div TickMs
           r == Behind % TickMs
           w == remTick + r
           q2 == w \div TickMs
           rem2 == w % TickMs
           ms == q + q2
<1>1. /\ clock \in Tick /\ remTick \in 0 .. TickMs - 1 /\ remTick \in Nat
      /\ Behind \in Nat /\ TickMs \in Nat \ {0} /\ Sound(timers)
      /\ timers.evt \in [DOMAIN timers.evt -> Event]
      /\ Listed(timers) = DOMAIN timers.evt
  BY TimeTypes
<1>2. q \in Nat /\ r \in 0 .. TickMs - 1 /\ Behind = q * TickMs + r
  BY <1>1, DivMod
<1>3. q2 \in Nat /\ rem2 \in 0 .. TickMs - 1 /\ w = q2 * TickMs + rem2
  <2>1. w \in Nat
    BY <1>1, <1>2
  <2> HIDE DEF w
  <2> QED BY <2>1, DivMod
<1>4. /\ pc = "process" /\ prevTick' = clock /\ clock' = clock /\ remTick' = rem2
      /\ IF ms = 0
         THEN pc' = "tasks" /\ timers' = timers
         ELSE timers' = Update(timers, ms, clock) /\ pc' = "execute"
  BY DEF Process, Behind, Remainder
<1>5. Behind' = 0
  <2>1. Behind' = Elapsed(prevTick', clock')
    BY DEF Behind
  <2> QED BY <1>1, <1>4, <2>1, ElapsedSame
<1>6. AllCounted(timers, remTick, Behind, Lag("process", Behind), clock)
  BY <1>4 DEF TimeInv
<1> HIDE DEF q, r, q2, rem2
<1>7. CASE ms = 0
  <2>1. q = 0 /\ q2 = 0
    BY <1>2, <1>3, <1>7
  <2>2. rem2 = remTick + Behind
    BY <1>1, <1>2, <1>3, <2>1
  <2>3. ASSUME NEW s \in DOMAIN timers.evt
        PROVE  Counted(timers.evt[s], rem2, 0, 0, clock)
    <3>1. timers.evt[s] \in Event
      BY <1>1
    <3>2. Counted(timers.evt[s], remTick, Behind, Lag("process", Behind), clock)
      BY <1>6 DEF AllCounted
    <3> QED BY <1>1, <2>2, <3>1, <3>2, CountedIdle
  <2>4. pc' = "tasks" /\ timers' = timers
    BY <1>4, <1>7
  <2>5. Lag(pc', Behind') = 0
    BY <1>5 DEF Lag
  <2>6. AllCounted(timers', remTick', Behind', Lag(pc', Behind'), clock')
    BY <1>4, <1>5, <2>3, <2>4, <2>5 DEF AllCounted
  <2>7. NearestListed(timers')
    BY <2>4 DEF TimeInv
  <2>8. Exact(timers') \/ Close(timers', pc', remTick', Behind')
    <3>1. Exact(timers) \/ Close(timers, "process", remTick, Behind)
      BY <1>4 DEF TimeInv
    <3>2. ~(remTick + Behind >= TickMs)
      BY <1>1, <1>3, <2>2
    <3> QED BY <2>4, <3>1, <3>2 DEF Close
  <2>9. Behind' <= MaxGap
    BY <1>5, TimerAssumption
  <2> QED BY <2>4, <2>6, <2>7, <2>8, <2>9 DEF TimeInv
<1>8. CASE ms # 0
  <2>1. pc' = "execute" /\ timers' = Update(timers, ms, clock)
    BY <1>4, <1>8
  <2>2. ms \in Nat /\ ms * TickMs + (rem2 + 0) <= remTick + Behind
    <3>1. ms * TickMs = q * TickMs + q2 * TickMs
      BY <1>1, <1>2, <1>3
    <3>2. q * TickMs \in Nat /\ q2 * TickMs \in Nat
      BY <1>1, <1>2, <1>3
    <3> QED BY <1>1, <1>2, <1>3, <3>1, <3>2
  <2> HIDE DEF ms
  <2>3. /\ Update(timers, ms, clock).evt =
             [s \in DOMAIN timers.evt |-> Running(timers.evt[s], ms, clock)]
        /\ Update(timers, ms, clock).list = timers.list
        /\ Update(timers, ms, clock).nearest = timers.nearest
        /\ Listed(Update(timers, ms, clock)) = Listed(timers)
    BY <1>1, <2>2, Updated
  <2>4. ASSUME NEW s \in DOMAIN timers.evt
        PROVE  Counted(Running(timers.evt[s], ms, clock), rem2, 0, 0, clock)
    <3>1. timers.evt[s] \in Event
      BY <1>1
    <3>2. Counted(timers.evt[s], remTick, Behind, Lag("process", Behind), clock)
      BY <1>6 DEF AllCounted
    <3>3. 0 \in 0 .. TickMs - 1
      BY <1>1
    <3> QED BY <1>1, <1>3, <2>2, <3>1, <3>2, <3>3, CountedRunning
  <2>5. Lag(pc', Behind') = 0
    BY <2>1 DEF Lag
  <2>6. AllCounted(timers', remTick', Behind', Lag(pc', Behind'), clock')
    BY <1>4, <1>5, <2>1, <2>3, <2>4, <2>5 DEF AllCounted
  <2>7. NearestListed(timers')
    BY <2>1, <2>3 DEF TimeInv, NearestListed
  <2> QED BY <1>5, <2>1, <2>6, <2>7 DEF TimeInv
<1> QED BY <1>7, <1>8

LEMMA TimeCallback ==
  ASSUME IInv, TimeInv, Callback
  PROVE  TimeInv'
<1>1. /\ clock \in Tick /\ remTick \in 0 .. TickMs - 1 /\ remTick \in Nat
      /\ Sound(timers) /\ timers.evt \in [DOMAIN timers.evt -> Event]
      /\ Listed(timers) = DOMAIN timers.evt
  BY TimeTypes
<1>2. /\ pc = "execute" /\ cursor \in Listed(timers)
      /\ timers.evt[cursor].timeout = 0
  BY DEF IInv, Callback, Examine
<1>3. /\ pc' = pc /\ clock' = clock /\ prevTick' = prevTick /\ remTick' = remTick
  BY DEF Callback
<1>4. Behind = 0 /\ Behind' = 0 /\ Lag(pc, Behind) = 0 /\ Lag(pc', Behind') = 0
  <2>1. Behind = 0 /\ Behind' = Behind
    BY <1>2, <1>3 DEF TimeInv, Behind
  <2> QED BY <1>2, <1>3, <2>1 DEF Lag
<1>5. PICK body \in Bodies(timers, cursor) : timers' \in Returns(body, cursor)
  BY DEF Callback
<1>6. /\ Sound(body) /\ cursor \in DOMAIN body.evt
      /\ body = timers \/ Renewed(body, timers)
  BY <1>1, <1>2, BodyKeeps
<1>7. /\ NearestListed(body) => NearestListed(timers')
      /\ \A t \in DOMAIN timers'.evt :
           /\ t \in DOMAIN body.evt
           /\ \/ timers'.evt[t] = body.evt[t]
              \/ t = cursor /\ \E ms \in Periods \union {body.evt[cursor].period} :
                                 timers'.evt[t] = Repeated(body.evt[cursor], ms)
  BY <1>5, <1>6, Returned
<1>8. AllCounted(timers, remTick, 0, 0, clock)
  BY <1>4 DEF TimeInv
<1>9. AllCounted(body, remTick, 0, 0, clock)
  BY <1>1, <1>6, <1>8, InheritsCounted DEF Renewed
<1>10. body.evt[cursor].timeout = 0 \/ Fresh(body.evt[cursor])
  BY <1>2, <1>6 DEF Renewed, Inherits
<1>11. body.evt[cursor] \in Event
  BY <1>6, EventFacts DEF Sound
<1>12. AllCounted(timers', remTick, 0, 0, clock)
  <2> SUFFICES ASSUME NEW t \in DOMAIN timers'.evt
               PROVE  Counted(timers'.evt[t], remTick, 0, 0, clock)
    BY DEF AllCounted
  <2>1. CASE timers'.evt[t] = body.evt[t]
    BY <1>7, <1>9, <2>1 DEF AllCounted
  <2>2. ASSUME NEW ms \in Periods \union {body.evt[cursor].period},
               timers'.evt[t] = Repeated(body.evt[cursor], ms)
        PROVE  Counted(timers'.evt[t], remTick, 0, 0, clock)
    <3>1. Counted(body.evt[cursor], remTick, 0, 0, clock)
      BY <1>6, <1>9 DEF AllCounted
    <3> QED BY <1>1, <1>10, <1>11, <2>2, <3>1, RepeatedCounted
  <2> QED BY <1>7, <2>1, <2>2
<1>13. NearestListed(timers')
  BY <1>6, <1>7 DEF TimeInv, Renewed
<1> QED BY <1>2, <1>3, <1>4, <1>12, <1>13 DEF TimeInv

LEMMA TimeUse ==
  ASSUME IInv, TimeInv, Use
  PROVE  TimeInv'
<1>1. clock \in Tick /\ remTick \in Nat /\ Behind \in Nat /\ Sound(timers)
  BY TimeTypes
<1>2. pc = "tasks" /\ UNCHANGED <<pc, clock, prevTick, remTick>>
  BY DEF Use
<1>3. PICK o \in Owner : timers' \in Uses(timers, o)
  BY DEF Use
<1>4. timers' = timers \/ Renewed(timers', timers)
  BY <1>1, <1>3, Used
<1>5. Behind' = Behind /\ Lag(pc, Behind) = 0
  BY <1>2 DEF Behind, Lag
<1>6. CASE timers' = timers
  BY <1>2, <1>5, <1>6 DEF TimeInv
<1>7. CASE Renewed(timers', timers)
  <2>1. AllCounted(timers', remTick, Behind, 0, clock)
    BY <1>1, <1>5, <1>7, InheritsCounted DEF TimeInv, Renewed
  <2> QED BY <1>2, <1>5, <1>7, <2>1 DEF TimeInv, Renewed
<1> QED BY <1>4, <1>6, <1>7

(* Time that passes for all timers changes nothing that SleepEndsInTime    *)
(* looks at.                                                               *)
LEMMA AgedOrder ==
  ASSUME NEW e, Sound(e), NEW ticks \in Nat
  PROVE  /\ NearestListed(e) => NearestListed(Aged(e, ticks))
         /\ NearestListed(e) /\ Exact(e) => Exact(Aged(e, ticks))
         /\ NearestListed(e) => \A place, rem, behind, place2, behind2 :
              /\ Close(e, place, rem, behind)
              /\ place = "process" /\ rem + behind >= TickMs =>
                   place2 = "process" /\ rem + behind2 >= TickMs
              => Close(Aged(e, ticks), place2, rem, behind2)
<1> DEFINE a == Aged(e, ticks)
<1>1. /\ a.evt = [s \in DOMAIN e.evt |-> Older(e.evt[s], ticks)]
      /\ a.list = e.list /\ a.nearest = e.nearest /\ Listed(a) = Listed(e)
  BY AgedFacts
<1>2. Listed(e) = DOMAIN e.evt /\ e.evt \in [DOMAIN e.evt -> Event]
  BY EventFacts DEF Sound, Agrees
<1> HIDE DEF a
<1>3. \A s \in DOMAIN e.evt :
        /\ a.evt[s].timeout = e.evt[s].timeout
        /\ a.evt[s].period = e.evt[s].period
        /\ a.evt[s].isRunning = e.evt[s].isRunning
  BY <1>1, <1>2 DEF Older, Event
<1>4. NearestListed(e) => NearestListed(a)
  BY <1>1 DEF NearestListed
<1>5. CASE Listed(e) = {}
  <2>1. Exact(a)
    BY <1>1, <1>5 DEF Exact
  <2>2. \A place, rem, behind : Close(a, place, rem, behind)
    BY <1>1, <1>5 DEF Close
  <2> QED BY <1>4, <2>1, <2>2 DEF a
<1>6. CASE Listed(e) # {} /\ NearestListed(e)
  <2>1. e.nearest \in DOMAIN e.evt
    <3>1. e.list # <<>>
      BY <1>6 DEF Listed
    <3> QED BY <1>2, <1>6, <3>1 DEF NearestListed
  <2>2. Exact(e) => Exact(a)
    <3> SUFFICES ASSUME Exact(e), NEW s \in Listed(a)
                 PROVE  a.evt[a.nearest].timeout <= a.evt[s].timeout
      BY DEF Exact
    <3>1. s \in Listed(e) /\ s \in DOMAIN e.evt
      BY <1>1, <1>2
    <3>2. e.evt[e.nearest].timeout <= e.evt[s].timeout
      BY <3>1 DEF Exact
    <3> QED BY <1>1, <1>3, <2>1, <3>1, <3>2
  <2>3. ASSUME NEW place, NEW rem, NEW behind, NEW place2, NEW behind2,
               Close(e, place, rem, behind),
               place = "process" /\ rem + behind >= TickMs =>
                 place2 = "process" /\ rem + behind2 >= TickMs
        PROVE  Close(a, place2, rem, behind2)
    <3>1. Short(a.evt[a.nearest]) <=> Short(e.evt[e.nearest])
      BY <1>1, <1>3, <2>1 DEF Short
    <3>2. /\ a.nearest = e.nearest /\ Listed(a) = Listed(e)
          /\ \A s \in Listed(e) : /\ a.evt[s].timeout = e.evt[s].timeout
                                  /\ a.evt[s].isRunning = e.evt[s].isRunning
          /\ a.evt[e.nearest].timeout = e.evt[e.nearest].timeout
      BY <1>1, <1>2, <1>3, <2>1
    <3> QED BY <2>3, <3>1, <3>2 DEF Close
  <2> QED BY <1>4, <2>2, <2>3 DEF a
<1> QED BY <1>4, <1>5, <1>6 DEF a

LEMMA AgedCounted ==
  ASSUME NEW e, Sound(e), NEW rem \in Nat, NEW behind \in Nat, NEW now \in Tick,
         NEW ticks \in Nat, NEW late \in Nat, NEW lag \in Nat, NEW lag2 \in Nat,
         AllCounted(e, rem, behind, lag, now),
         late <= behind + ticks, behind + ticks + lag <= late + lag2
  PROVE  AllCounted(Aged(e, ticks), rem, late, lag2, (now + ticks) % TickSpace)
<1>1. Aged(e, ticks).evt = [s \in DOMAIN e.evt |-> Older(e.evt[s], ticks)]
  BY AgedFacts
<1>2. \A s \in DOMAIN e.evt : e.evt[s] \in Event
  BY EventFacts DEF Sound
<1>3. ASSUME NEW s \in DOMAIN e.evt
      PROVE  Counted(Older(e.evt[s], ticks), rem, late, lag2, (now + ticks) % TickSpace)
  <2>1. Counted(e.evt[s], rem, behind, lag, now)
    BY DEF AllCounted
  <2> QED BY <1>2, <2>1, CountedOlder
<1> QED BY <1>1, <1>3 DEF AllCounted

LEMMA TimeClockTicks ==
  ASSUME IInv, TimeInv, ClockTicks
  PROVE  TimeInv'
<1>1. /\ clock \in Tick /\ prevTick \in Tick /\ remTick \in Nat /\ Behind \in Nat
      /\ Sound(timers) /\ MaxGap \in Nat /\ MaxGap < TickSpace /\ TickSpace \in Nat
      /\ TickMs \in Nat
  BY TimeTypes
<1>2. /\ pc # "execute" /\ Behind < MaxGap
      /\ clock' = (clock + 1) % TickSpace /\ timers' = Aged(timers, 1)
      /\ UNCHANGED <<pc, prevTick, remTick>>
  BY DEF ClockTicks, Behind
<1>3. Behind' = Behind + 1
  <2>1. Behind' = Elapsed(prevTick, (clock + 1) % TickSpace)
    BY <1>2 DEF Behind
  <2>2. Elapsed(prevTick, clock) + 1 < TickSpace
    BY <1>1, <1>2 DEF Behind
  <2> QED BY <1>1, <2>1, <2>2, ElapsedLater DEF Behind
<1>4. AllCounted(timers', remTick', Behind', Lag(pc', Behind'), clock')
  <2> DEFINE lag == Lag(pc, Behind)
             lag2 == Lag(pc, Behind + 1)
  <2>1. lag \in Nat /\ lag2 \in Nat /\ lag <= lag2
    BY <1>1 DEF Lag
  <2>2. AllCounted(timers, remTick, Behind, lag, clock)
    BY DEF TimeInv
  <2> HIDE DEF lag, lag2
  <2>3. AllCounted(Aged(timers, 1), remTick, Behind + 1, lag2, (clock + 1) % TickSpace)
    <3> DEFINE late == Behind + 1
    <3>1. late \in Nat /\ late <= Behind + 1 /\ Behind + 1 + lag <= late + lag2
      BY <1>1, <2>1
    <3> HIDE DEF late
    <3>2. AllCounted(Aged(timers, 1), remTick, late, lag2, (clock + 1) % TickSpace)
      BY <1>1, <2>1, <2>2, <3>1, AgedCounted
    <3> QED BY <3>2 DEF late
  <2> QED BY <1>2, <1>3, <2>3 DEF lag2
<1>5. NearestListed(timers')
  BY <1>1, <1>2, AgedOrder DEF TimeInv
<1>6. Exact(timers') \/ Close(timers', pc', remTick', Behind')
  <2>1. NearestListed(timers) /\ (Exact(timers) \/ Close(timers, pc, remTick, Behind))
    BY <1>2 DEF TimeInv
  <2>2. CASE Exact(timers)
    BY <1>1, <1>2, <2>1, <2>2, AgedOrder
  <2>3. CASE Close(timers, pc, remTick, Behind)
    <3>1. remTick + Behind >= TickMs => remTick + (Behind + 1) >= TickMs
      BY <1>1
    <3>2. Close(Aged(timers, 1), pc, remTick, Behind + 1)
      BY <1>1, <2>1, <2>3, <3>1, AgedOrder
    <3> QED BY <1>2, <1>3, <3>2
  <2> QED BY <2>1, <2>2, <2>3
<1>7. pc = "tasks" => Behind' <= MaxGap
  BY <1>1, <1>2, <1>3
<1> QED BY <1>2, <1>4, <1>5, <1>6, <1>7 DEF TimeInv

LEMMA TimeSleep ==
  ASSUME IInv, TimeInv, Sleep
  PROVE  TimeInv'
<1>1. /\ clock \in Tick /\ remTick \in 0 .. TickMs - 1 /\ remTick \in Nat
      /\ Behind \in Nat /\ Sound(timers) /\ MaxGap \in Nat /\ TickMs \in Nat \ {0}
      /\ timers.evt \in [DOMAIN timers.evt -> Event]
      /\ Listed(timers) = DOMAIN timers.evt
  BY TimeTypes
<1>2. pc = "tasks" /\ pc' = "process" /\ remTick' = remTick
  BY DEF Sleep
<1>3. PICK ticks \in 1 .. timers.evt[timers.nearest].timeout * TickMs :
        /\ clock' = (clock + ticks) % TickSpace
        /\ timers' = IF ticks \div TickMs = 0 THEN Aged(timers, ticks)
                     ELSE Update(Aged(timers, ticks), ticks \div TickMs,
                                 (clock + ticks) % TickSpace)
        /\ prevTick' = Elapsed(ticks % TickMs, (clock + ticks) % TickSpace)
  BY DEF Sleep, ChargedUpTo
<1> DEFINE later == (clock + ticks) % TickSpace
           q == ticks \div TickMs
           r == ticks % TickMs
<1>4. /\ ticks \in Nat /\ ticks # 0
      /\ ticks <= timers.evt[timers.nearest].timeout * TickMs
  BY <1>3
<1>5. q \in Nat /\ r \in 0 .. TickMs - 1 /\ r \in Nat /\ ticks = q * TickMs + r
  <2>1. q \in Nat /\ r \in 0 .. TickMs - 1 /\ ticks = q * TickMs + r
    BY <1>4, DivMod
  <2> QED BY <2>1
<1>6. later \in Tick
  BY <1>1, <1>4, ElapsedLater
<1>7. Behind' = r
  <2>1. Behind' = Elapsed(prevTick', clock')
    BY DEF Behind
  <2> HIDE DEF later, r
  <2>2. prevTick' = Elapsed(r, later) /\ clock' = later
    BY <1>3 DEF r, later
  <2> QED BY <1>5, <1>6, <2>1, <2>2, ChargedUpToIs
<1>8. Behind <= MaxGap /\ Behind \in 0 .. MaxGap /\ Lag(pc, Behind) = 0
  BY <1>1, <1>2 DEF TimeInv, Lag
<1>9. AllCounted(timers, remTick, Behind, 0, clock)
  BY <1>8 DEF TimeInv
<1>10. NearestListed(timers) /\ (Exact(timers) \/ Close(timers, "tasks", remTick, Behind))
  BY <1>2 DEF TimeInv
<1>11. CASE q = 0
  <2>1. timers' = Aged(timers, ticks) /\ r = ticks
    <3> HIDE DEF r
    <3>1. timers' = Aged(timers, ticks)
      BY <1>3, <1>11
    <3>2. r = ticks
      <4> HIDE DEF q
      <4> QED BY <1>1, <1>4, <1>5, <1>11
    <3> QED BY <3>1, <3>2
  <2>2. Lag("process", ticks) = MaxGap
    BY <1>4 DEF Lag
  <2>3. ticks <= Behind + ticks /\ Behind + ticks + 0 <= ticks + MaxGap
    BY <1>1, <1>4, <1>8
  <2> HIDE DEF r, q
  <2>4. AllCounted(Aged(timers, ticks), remTick, ticks, MaxGap, later)
    BY <1>1, <1>4, <1>9, <2>3, AgedCounted
  <2> HIDE DEF later
  <2>5. AllCounted(timers', remTick', Behind', Lag(pc', Behind'), clock')
    BY <1>2, <1>3, <1>7, <2>1, <2>2, <2>4 DEF later
  <2>6. NearestListed(timers')
    BY <1>1, <1>4, <1>10, <2>1, AgedOrder
  <2>7. Exact(timers') \/ Close(timers', pc', remTick', Behind')
    <3>1. CASE Exact(timers)
      BY <1>1, <1>4, <1>10, <2>1, <3>1, AgedOrder
    <3>2. CASE Close(timers, "tasks", remTick, Behind)
      <4>1. Close(Aged(timers, ticks), "process", remTick, ticks)
        BY <1>1, <1>4, <1>10, <3>2, AgedOrder
      <4> QED BY <1>2, <1>7, <2>1, <4>1
    <3> QED BY <1>10, <3>1, <3>2
  <2> QED BY <1>2, <2>5, <2>6, <2>7 DEF TimeInv
<1>12. CASE q # 0
  <2> DEFINE a == Aged(timers, ticks)
  <2>1. timers' = Update(a, q, later)
    BY <1>3, <1>12
  <2> HIDE DEF later, q, r
  <2>2. /\ Sound(a) /\ a.evt = [s \in DOMAIN timers.evt |-> Older(timers.evt[s], ticks)]
        /\ a.list = timers.list /\ a.nearest = timers.nearest
        /\ Listed(a) = Listed(timers)
    BY <1>1, <1>4, AgedFacts
  <2> HIDE DEF a
  <2>3. /\ Sound(timers') /\ timers'.evt = [s \in DOMAIN a.evt |-> Running(a.evt[s], q, later)]
        /\ timers'.list = a.list /\ timers'.nearest = a.nearest
        /\ Listed(timers') = Listed(a)
    <3>1. Sound(a) /\ q \in Nat /\ later \in Tick
      BY <1>5, <1>6, <2>2
    <3> QED BY <2>1, <3>1, Updated
  <2>4. timers'.evt = [s \in DOMAIN timers.evt |->
                         Running(Older(timers.evt[s], ticks), q, later)]
    BY <2>2, <2>3
  <2>5. AllCounted(timers', remTick', Behind', Lag(pc', Behind'), clock')
    <3>1. Behind + ticks \in Nat /\ Behind + ticks + 0 <= (Behind + ticks) + 0
      BY <1>1, <1>4
    <3>2. AllCounted(a, remTick, Behind + ticks, 0, later)
      BY <1>1, <1>4, <1>9, <3>1, AgedCounted DEF a, later
    <3>3. q * TickMs + (remTick + r) <= remTick + (Behind + ticks)
      <4> DEFINE qt == q * TickMs
      <4>1. qt \in Nat /\ ticks = qt + r
        BY <1>1, <1>5
      <4> HIDE DEF qt
      <4>2. qt + (remTick + r) <= remTick + (Behind + ticks)
        BY <1>1, <1>5, <4>1
      <4> QED BY <4>2 DEF qt
    <3>4. ASSUME NEW s \in DOMAIN a.evt
          PROVE  Counted(Running(a.evt[s], q, later), remTick, r, Lag("process", r), later)
      <4>1. a.evt[s] \in Event
        BY <2>2, EventFacts DEF Sound
      <4>2. Counted(a.evt[s], remTick, Behind + ticks, 0, later)
        BY <3>2 DEF AllCounted
      <4> QED BY <1>1, <1>5, <1>6, <3>1, <3>3, <4>1, <4>2, CountedRunning
    <3>5. AllCounted(timers', remTick, r, Lag("process", r), later)
      BY <2>3, <3>4 DEF AllCounted
    <3> QED BY <1>2, <1>3, <1>7, <3>5 DEF later
  <2>6. NearestListed(timers')
    BY <1>10, <2>2, <2>3 DEF NearestListed
  <2>7. Close(timers', pc', remTick', Behind')
    <3>1. Close(timers', "process", remTick, ticks % TickMs)
      BY <1>1, <1>4, <1>8, <1>9, <1>10, <2>2, <2>3, <2>4, SleepKeepsClose
         DEF AllCounted, q, later
    <3> QED BY <1>2, <1>7, <3>1 DEF r
  <2> QED BY <1>2, <2>5, <2>6, <2>7 DEF TimeInv
<1> QED BY <1>11, <1>12

LEMMA TimeStep == IInv /\ TimeInv /\ [Next]_vars => TimeInv'
<1> SUFFICES ASSUME IInv, TimeInv, [Next]_vars
             PROVE  TimeInv'
  OBVIOUS
<1>1. CASE Process
  BY <1>1, TimeProcess
<1>2. CASE NotDue
  BY <1>2 DEF NotDue, Examine, TimeInv, Behind
<1>3. CASE Callback
  BY <1>3, TimeCallback
<1>4. CASE AllExamined
  <2>1. /\ pc = "execute" /\ pc' = "tasks" /\ timers' = NearestUpdate(timers)
        /\ UNCHANGED <<clock, prevTick, remTick>>
    BY <1>4 DEF AllExamined
  <2>2. Behind = 0 /\ Behind' = 0 /\ Lag(pc, Behind) = 0 /\ Lag(pc', Behind') = 0
    <3>1. Behind = 0 /\ Behind' = Behind
      BY <2>1 DEF TimeInv, Behind
    <3> QED BY <2>1, <3>1 DEF Lag
  <2>3. timers'.evt = timers.evt /\ NearestListed(timers') /\ Exact(timers')
    BY <2>1, TimeTypes, Nearest
  <2>4. AllCounted(timers', remTick', Behind', Lag(pc', Behind'), clock')
    BY <2>1, <2>2, <2>3 DEF TimeInv, AllCounted
  <2>5. Behind' <= MaxGap
    BY <2>2, TimerAssumption
  <2> QED BY <2>1, <2>3, <2>4, <2>5 DEF TimeInv
<1>5. CASE Use
  BY <1>5, TimeUse
<1>6. CASE PoolException
  <2>1. timers' = NoTimers /\ pc' = "process"
    BY <1>6 DEF PoolException
  <2> QED BY <2>1, NoTimersTimed DEF TimeInv
<1>7. CASE PassEnds
  <2>1. /\ pc = "tasks" /\ pc' = "process"
        /\ UNCHANGED <<timers, clock, prevTick, remTick>>
    BY <1>7 DEF PassEnds
  <2>2. Behind' = Behind /\ Lag(pc, Behind) = 0
    BY <2>1 DEF Behind, Lag
  <2>3. AllCounted(timers, remTick, Behind, Lag("process", Behind), clock)
    <3> DEFINE lag == Lag("process", Behind)
    <3>1. ASSUME NEW s \in DOMAIN timers.evt
          PROVE  Counted(timers.evt[s], remTick, Behind, lag, clock)
      <4>1. Counted(timers.evt[s], remTick, Behind, 0, clock)
        BY <2>2 DEF TimeInv, AllCounted
      <4>2. lag \in Nat /\ remTick * (MaxGap + 1) \in Nat /\ Behind \in Nat
        BY TimeTypes, LagType
      <4>3. Elapsed(timers.evt[s].curSysTick, clock) \in Nat
        <5>1. timers.evt[s].curSysTick \in Tick /\ clock \in Tick
          BY TimeTypes DEF Event
        <5> QED BY <5>1, ElapsedTick
      <4> HIDE DEF lag
      <4> QED BY <4>1, <4>2, <4>3 DEF Counted
    <3> QED BY <3>1 DEF AllCounted
  <2>4. Exact(timers) \/ Close(timers, "process", remTick, Behind)
    BY <2>1 DEF TimeInv, Close
  <2> QED BY <2>1, <2>2, <2>3, <2>4 DEF TimeInv
<1>8. CASE ClockTicks
  BY <1>8, TimeClockTicks
<1>9. CASE Sleep
  BY <1>9, TimeSleep
<1>10. CASE UNCHANGED vars
  BY <1>10 DEF TimeInv, Behind, vars
<1> QED BY <1>1, <1>2, <1>3, <1>4, <1>5, <1>6, <1>7, <1>8, <1>9, <1>10 DEF Next, Pass

LEMMA TimeInvariance == Spec => [](IInv /\ TimeInv)
<1>1. Init => IInv /\ TimeInv
  BY InitIInv, TimeInit
<1>2. (IInv /\ TimeInv) /\ [Next]_vars => (IInv /\ TimeInv)'
  BY NextIInv, TimeStep
<1> QED BY <1>1, <1>2, PTL DEF Spec

LEMMA TimeInTime == IInv /\ TimeInv => SleepEndsInTime
<1> SUFFICES ASSUME IInv, TimeInv
             PROVE  SleepEndsInTime
  OBVIOUS
<1>1. /\ timers.evt \in [DOMAIN timers.evt -> Event] /\ MaxGap \in Nat
      /\ Listed(timers) = DOMAIN timers.evt
  BY TimeTypes
<1>2. timers.list # <<>> => timers.nearest \in Listed(timers)
  BY DEF TimeInv, NearestListed
<1>3. ASSUME pc = "tasks", NEW s \in Listed(timers), Short(timers.evt[timers.nearest])
      PROVE  timers.evt[timers.nearest].timeout <= timers.evt[s].timeout + MaxGap
  <2>1. timers.nearest \in DOMAIN timers.evt
    <3>1. timers.list # <<>>
      BY <1>3 DEF Listed
    <3> QED BY <1>1, <1>2, <3>1
  <2>2. timers.evt[s].timeout \in Nat /\ timers.evt[timers.nearest].timeout \in Nat
    BY <1>1, <2>1 DEF Event
  <2>3. CASE Exact(timers)
    BY <1>1, <1>3, <2>2, <2>3 DEF Exact
  <2>4. CASE Close(timers, pc, remTick, Behind)
    BY <1>3, <2>4 DEF Close
  <2> QED BY <1>3, <2>3, <2>4 DEF TimeInv
<1> QED BY <1>2, <1>3 DEF SleepEndsInTime

LEMMA TimeNotEarly == IInv /\ TimeInv => NeverEarly
<1> SUFFICES ASSUME IInv, TimeInv, NEW s \in DOMAIN timers.evt
             PROVE  (timers.evt[s].period - timers.evt[s].timeout) * TickMs
                      < timers.evt[s].age + 2 * TickMs
  BY DEF NeverEarly
<1> DEFINE tm == timers.evt[s]
           c == (tm.period - tm.timeout) * TickMs
<1>1. /\ tm.period \in Nat /\ tm.timeout \in Nat /\ tm.age \in Nat
      /\ TickMs \in Nat \ {0} /\ remTick \in Nat /\ Behind \in Nat
  BY TimeTypes DEF Event
<1>2. Counted(tm, remTick, Behind, Lag(pc, Behind), clock)
  BY DEF TimeInv, AllCounted
<1>3. CASE tm.isRunning /\ ~Grown(tm)
  <2>1. c + (remTick + Behind) <= tm.age + 2 * (TickMs - 1) /\ tm.timeout <= tm.period
    BY <1>2, <1>3 DEF Counted, Owes
  <2>2. c \in Nat
    BY <1>1, <2>1
  <2> HIDE DEF c, tm
  <2>3. c < tm.age + 2 * TickMs
    BY <1>1, <2>1, <2>2
  <2> QED BY <2>3 DEF c, tm
<1>4. CASE tm.isRunning /\ Grown(tm)
  <2> DEFINE p == tm.period
             d == tm.period - tm.timeout
  <2>1. d \in Nat /\ d <= p
    BY <1>1, <1>2, <1>4 DEF Counted, Owes
  <2> HIDE DEF d, p
  <2>2. p \in Nat
    BY <1>1 DEF p
  <2>3. d * TickMs <= p * TickMs
    BY <1>1, <2>1, <2>2, Monotone
  <2>4. c <= tm.age
    BY <1>4, <2>3 DEF Grown, p, d
  <2>5. c \in Nat
    BY <1>1, <2>1 DEF d
  <2> HIDE DEF c
  <2>6. c < tm.age + 2 * TickMs
    BY <1>1, <2>4, <2>5
  <2> QED BY <2>6 DEF c
<1>5. CASE ~tm.isRunning
  <2>1. c = 0
    BY <1>1, <1>2, <1>5 DEF Counted
  <2> HIDE DEF c
  <2>2. c < tm.age + 2 * TickMs
    BY <1>1, <2>1
  <2> QED BY <2>2 DEF c
<1> QED BY <1>3, <1>4, <1>5

-----------------------------------------------------------------------------
(* Every variable of the timers keeps its type (ev_timer.h:36-63).         *)
THEOREM TimersTypeCorrect == Spec => []TypeOK
<1>1. IInv => TypeOK
  BY DEF IInv
<1> QED BY <1>1, Invariance, PTL

(* List, pool and counter describe the same timers, however callbacks      *)
(* rebuild the list under the loop (ev_timer.c:57-85, 122-173, 256-286).   *)
THEOREM PoolStaysConsistent == Spec => []PoolAgrees
  BY Invariance, IInvImplies, PTL

(* A handle is NULL or names the timer of its own user, and every timer of *)
(* a user with a handle has it (ev_timer.c:191-218).                       *)
THEOREM HandlesAreNeverStale == Spec => []HandlesNameTimers
  BY Invariance, IInvImplies, PTL

(* The loop of a pass stands on a scheduled timer or at its end, whatever  *)
(* its callbacks cancelled and scheduled (ev_timer.c:256-286).             *)
THEOREM LoopStaysInList == Spec => []CursorIsScheduled
  BY Invariance, IInvImplies, PTL

(* Whenever the device may sleep, the nearest timer exists, and no other   *)
(* is due more than MaxGap before a short one, whatever passes, short      *)
(* sleeps and the wrap of the tick counter have charged to whom            *)
(* (ev_timer.c:87-99, 220-254; drv_pm.c:375-379, 416-429).                 *)
THEOREM SleepsAreInTime == Spec => []SleepEndsInTime
  BY TimeInvariance, TimeInTime, PTL

(* No timer is called two full milliseconds before its time, for any       *)
(* period, width of the counter and order of passes and sleeps             *)
(* (ev_timer.c:220-254, 288-312; drv_pm.c:416-429).                        *)
THEOREM TimersAreNeverEarly == Spec => []NeverEarly
  BY TimeInvariance, TimeNotEarly, PTL

=============================================================================
