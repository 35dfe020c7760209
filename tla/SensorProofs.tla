---------------------------- MODULE SensorProofs ----------------------------
(***************************************************************************)
(* Safety of Sensor for every debounce limit, any set of controllers and   *)
(* zone ids, every bound of the radio and every battery reading: the       *)
(* inductive invariant IInv, its preservation by every action, and the     *)
(* properties that follow from it.                                         *)
(*                                                                         *)
(* A handler composes up to two publications, so what a publication does   *)
(* is proved once, of the record a publication maps (Settled, Measuring);  *)
(* SetZoneIO turns it into a fact about the next state (Published).        *)
(***************************************************************************)
EXTENDS Sensor, SequenceTheorems, TLAPS

(* The values of the record ZoneIO. *)
IO == [zone : Zone, joined : BOOLEAN, air : Seq(Notification),
       uninformed : BOOLEAN, level : [Source -> BOOLEAN],
       missed : SUBSET Source]

(* The invariants of the zone, of such a record. *)
Tracks(io) == \A s \in Source \ io.missed :
                (BitOf[s] \in io.zone.status) <=> io.level[s]

EnrolledHasId(io) == io.zone.enrolled <=> io.zone.id # InvalidZoneId

Addressed(io) == \A n \in 1 .. Len(io.air) :
                   (io.air[n].dst = Coordinator) <=> (io.air[n].id = InvalidZoneId)

(* The status that is told when the air is empty, and carried by the       *)
(* newest notification when it is not, is the current one.                 *)
Informs(io, t) ==
  ~io.uninformed =>
    io.zone.status = IF io.air = <<>> THEN t ELSE io.air[Len(io.air)].status

IOInv(io, t) ==
  /\ io \in IO
  /\ Len(io.air) <= MaxAir
  /\ "battery" \notin io.missed
  /\ Tracks(io)
  /\ EnrolledHasId(io)
  /\ Addressed(io)
  /\ Informs(io, t)

(* The counter of an input and the level it last settled at, published or  *)
(* not: a counter on its way says nothing of it (app_smoke.c:93-95,        *)
(* 116-118).                                                               *)
SettledAtTheEnds ==
  \A i \in Input :
    /\ debounce[i] = Debounce => level[i]
    /\ debounce[i] = 1 => ~level[i]

-----------------------------------------------------------------------------
LEMMA BitsDistinct ==
  /\ \A s \in Source : BitOf[s] \in Bit
  /\ \A s, t \in Source : BitOf[s] = BitOf[t] => s = t
  BY DEF BitOf, Source, Bit

(* fillIASAddress picks the coordinator exactly for a zone that is not     *)
(* enrolled (app_smoke.c:71-78).                                           *)
LEMMA Destinations ==
  ASSUME NEW z \in Zone
  PROVE  /\ fillIASAddress(z) \in Destination
         /\ fillIASAddress(z) = Coordinator <=> ~z.enrolled
  BY ZoneAssumption DEF fillIASAddress, Zone, Destination

(* A notification leaves all but the status, the air and the history of    *)
(* the record alone, and keeps what the invariant says of those.           *)
LEMMA Notified ==
  ASSUME NEW io, NEW t, IOInv(io, t), NEW status \in SUBSET Bit
  PROVE  LET n == Notify(io, status)
         IN /\ n \in IO
            /\ Len(n.air) <= MaxAir
            /\ n.zone = [io.zone EXCEPT !.status = status]
            /\ n.joined = io.joined
            /\ n.level = io.level
            /\ n.missed = io.missed
            /\ Addressed(n)
            /\ Informs(n, t)
<1> DEFINE sent == io.joined /\ Len(io.air) < MaxAir
           note == [dst |-> fillIASAddress(io.zone), status |-> status,
                    id |-> io.zone.id]
           air1 == IF sent THEN Append(io.air, note) ELSE io.air
           n == Notify(io, status)
<1>1. io \in IO /\ Len(io.air) <= MaxAir /\ Addressed(io) /\ EnrolledHasId(io)
  BY DEF IOInv
<1>2. note \in Notification
  BY <1>1, Destinations DEF IO, Zone, Notification
<1>3. /\ n.zone = [io.zone EXCEPT !.status = status]
      /\ n.air = air1
      /\ n.uninformed = ~sent
      /\ n.joined = io.joined
      /\ n.level = io.level
      /\ n.missed = io.missed
  BY <1>1 DEF Notify, IO
<1>4. air1 \in Seq(Notification) /\ Len(air1) <= MaxAir
  BY <1>1, <1>2, ZoneAssumption DEF IO
<1>5. n \in IO
  <2> DEFINE z == [io.zone EXCEPT !.status = status]
  <2>1. z \in Zone
    BY <1>1 DEF IO, Zone
  <2>2. n = [io EXCEPT !.zone = z, !.air = air1, !.uninformed = ~sent]
    BY <1>1 DEF Notify, IO
  <2>3. sent \in BOOLEAN
    BY <1>1, ZoneAssumption DEF IO
  <2> HIDE DEF n, z, air1, sent
  <2> QED
    BY <1>1, <1>4, <2>1, <2>2, <2>3 DEF IO
<1>6. Addressed(n)
  <2> SUFFICES ASSUME NEW k \in 1 .. Len(air1)
               PROVE  (air1[k].dst = Coordinator) <=> (air1[k].id = InvalidZoneId)
    BY <1>3 DEF Addressed
  <2>1. CASE sent /\ k = Len(io.air) + 1
    <3>1. air1[k] = note
      BY <1>1, <1>2, <2>1 DEF IO
    <3>2. io.zone \in Zone
      BY <1>1 DEF IO
    <3> QED
      BY <1>1, <3>1, <3>2, Destinations DEF EnrolledHasId
  <2>2. CASE ~(sent /\ k = Len(io.air) + 1)
    <3>1. k \in 1 .. Len(io.air) /\ air1[k] = io.air[k]
      BY <1>1, <1>2, <2>2 DEF IO
    <3> QED
      BY <1>1, <3>1 DEF Addressed
  <2> QED
    BY <2>1, <2>2
<1>7. Informs(n, t)
  <2>1. CASE sent
    <3>1. n.air # <<>> /\ n.air[Len(n.air)] = note
      BY <1>1, <1>2, <1>3, <2>1 DEF IO
    <3>2. n.zone.status = status
      BY <1>1, <1>3 DEF IO, Zone
    <3> QED
      BY <3>1, <3>2 DEF Informs
  <2>2. CASE ~sent
    BY <1>3, <2>2 DEF Informs
  <2> QED
    BY <2>1, <2>2
<1> QED
  BY <1>3, <1>4, <1>5, <1>6, <1>7

(* Settling one source keeps what is known of the others: its bit is the   *)
(* only one that changes (app_smoke.c:106,129,161,183; app_button.c:70,100;*)
(* app_battery.c:129,141).                                                 *)
LEMMA Settled ==
  ASSUME NEW io, NEW t, IOInv(io, t), NEW s \in Source, NEW on \in BOOLEAN
  PROVE  /\ IOInv(Settle(io, s, on), t)
         /\ Settle(io, s, on).level = [io.level EXCEPT ![s] = on]
         /\ Settle(io, s, on).joined = io.joined
<1> DEFINE status == WithBit(io.zone.status, BitOf[s], on)
           n == Notify(io, status)
           m == Settle(io, s, on)
<1>1. io \in IO /\ Tracks(io)
  BY DEF IOInv
<1>2. status \in SUBSET Bit
  BY <1>1, BitsDistinct DEF WithBit, IO, Zone
<1>3. CASE io.joined \/ s = "battery"
  <2>1. /\ n \in IO
        /\ Len(n.air) <= MaxAir
        /\ n.zone = [io.zone EXCEPT !.status = status]
        /\ n.joined = io.joined
        /\ n.level = io.level
        /\ n.missed = io.missed
        /\ Addressed(n)
        /\ Informs(n, t)
    BY <1>2, Notified
  <2>2. m = [n EXCEPT !.level = [io.level EXCEPT ![s] = on],
                      !.missed = io.missed \ {s}]
    <3> HIDE DEF n
    <3>1. m = [n EXCEPT !.level[s] = on, !.missed = @ \ {s}]
      BY <1>3 DEF Settle, n
    <3> QED
      BY <2>1, <3>1 DEF IO
  <2> HIDE DEF n, m
  <2>3. /\ m.zone = n.zone
        /\ m.air = n.air
        /\ m.uninformed = n.uninformed
        /\ m.joined = n.joined
        /\ m.level = [io.level EXCEPT ![s] = on]
        /\ m.missed = io.missed \ {s}
    BY <2>1, <2>2 DEF IO
  <2>4. m \in IO
    BY <1>1, <2>1, <2>2 DEF IO
  <2>5. m.zone.status = status /\ EnrolledHasId(m)
    BY <1>1, <2>1, <2>3 DEF IO, Zone, EnrolledHasId, IOInv
  <2>6. Tracks(m)
    <3> SUFFICES ASSUME NEW r \in Source \ m.missed
                 PROVE  (BitOf[r] \in status) <=> m.level[r]
      BY <2>5 DEF Tracks
    <3>1. CASE r = s
      BY <1>1, <2>3, <3>1 DEF WithBit, IO
    <3>2. CASE r # s
      <4>1. BitOf[r] # BitOf[s] /\ r \in Source \ io.missed
        BY <2>3, <3>2, BitsDistinct
      <4>2. m.level[r] = io.level[r]
        BY <1>1, <2>3, <3>2 DEF IO
      <4> QED
        BY <1>1, <4>1, <4>2 DEF Tracks, WithBit
    <3> QED
      BY <3>1, <3>2
  <2>7. Addressed(m) /\ Informs(m, t)
    BY <2>1, <2>3 DEF Addressed, Informs
  <2> QED
    BY <2>1, <2>3, <2>4, <2>5, <2>6, <2>7 DEF IOInv, m
<1>4. CASE ~(io.joined \/ s = "battery")
  <2>1. m = [io EXCEPT !.level = [io.level EXCEPT ![s] = on],
                       !.missed = io.missed \union {s}]
    BY <1>1, <1>4 DEF Settle, IO
  <2> HIDE DEF m
  <2>2. /\ m.zone = io.zone
        /\ m.air = io.air
        /\ m.uninformed = io.uninformed
        /\ m.joined = io.joined
        /\ m.level = [io.level EXCEPT ![s] = on]
        /\ m.missed = io.missed \union {s}
    BY <1>1, <2>1 DEF IO
  <2>3. m \in IO
    BY <1>1, <2>1 DEF IO
  <2>4. Tracks(m)
    BY <1>1, <2>2 DEF Tracks, IO
  <2> QED
    BY <1>4, <2>2, <2>3, <2>4 DEF IOInv, EnrolledHasId, Addressed, Informs, m
<1> QED
  BY <1>3, <1>4

(* A sample of an input publishes it or nothing. *)
LEMMA Sampling ==
  ASSUME NEW io, NEW t, IOInv(io, t), NEW i \in Input, pin \in [Input -> BOOLEAN]
  PROVE  /\ IOInv(Sampled(io, i), t)
         /\ Sampled(io, i).level =
              IF Settles(i) THEN [io.level EXCEPT ![i] = pin[i]] ELSE io.level
         /\ Sampled(io, i).joined = io.joined
<1>1. i \in Source /\ pin[i] \in BOOLEAN
  BY DEF Input, Source
<1> QED
  BY <1>1, Settled DEF Sampled

(* After a measurement the battery bit is what the reading says, whether   *)
(* it had to be published or not (app_battery.c:125-148).                  *)
LEMMA Measuring ==
  ASSUME NEW io, NEW t, IOInv(io, t), NEW raw, NEW factor
  PROVE  /\ IOInv(Measured(io, raw, factor), t)
         /\ Measured(io, raw, factor).level =
              [io.level EXCEPT !["battery"] = Low(raw, factor)]
         /\ Measured(io, raw, factor).joined = io.joined
<1>1. Low(raw, factor) \in BOOLEAN
  BY DEF Low
<1>2. "battery" \in Source /\ BitOf["battery"] = "BATTERY"
  BY DEF Source, BitOf
<1>3. ("BATTERY" \in io.zone.status) <=> io.level["battery"]
  BY <1>2 DEF IOInv, Tracks
<1>4. io.level \in [Source -> BOOLEAN]
  BY DEF IOInv, IO
<1>5. CASE Low(raw, factor) # ("BATTERY" \in io.zone.status)
  BY <1>1, <1>2, <1>5, Settled DEF Measured
<1>6. CASE Low(raw, factor) = ("BATTERY" \in io.zone.status)
  <2>1. io.level["battery"] = Low(raw, factor)
    BY <1>1, <1>2, <1>3, <1>4, <1>6
  <2>2. [io.level EXCEPT !["battery"] = Low(raw, factor)] = io.level
    BY <1>2, <1>4, <2>1
  <2> QED
    BY <1>6, <2>2 DEF Measured
<1> QED
  BY <1>5, <1>6

(* SetZoneIO assigns the record to the variables. *)
LEMMA Published ==
  ASSUME NEW io, NEW t, IOInv(io, t), SetZoneIO(io)
  PROVE  ZoneIO' = io
<1>1. io \in IO
  BY DEF IOInv
<1> QED
  BY <1>1 DEF SetZoneIO, ZoneIO, IO

-----------------------------------------------------------------------------
LEMMA Fits ==
  /\ \A n \in Nat : n < 65536 => n % 65536 = n
  /\ \A n \in Nat : n < 256 => n % 256 = n
  BY SMTT(20)

LEMMA Scaling ==
  ASSUME NEW raw \in Nat, raw <= 8000, NEW factor \in Nat
  PROVE  Scaled(raw, factor) \in Nat /\ Scaled(raw, factor) <= 24000
<1>1. CASE raw * 3 < factor
  BY <1>1 DEF Scaled
<1>2. CASE ~(raw * 3 < factor)
  <2>1. raw * 3 - factor \in Nat /\ raw * 3 - factor <= 24000
    BY <1>2
  <2>2. (raw * 3 - factor) % 65536 = raw * 3 - factor
    BY <2>1, Fits
  <2> QED
    BY <1>2, <2>1, <2>2 DEF Scaled, U16
<1> QED
  BY <1>1, <1>2

LEMMA Rounding ==
  ASSUME NEW mv \in Nat, mv <= 24000
  PROVE  Tenths(mv) \in Nat /\ Tenths(mv) <= 241
<1>1. mv \div 100 \in Nat /\ mv \div 100 <= 240
  BY SMTT(20)
<1> QED
  BY <1>1 DEF Tenths

(* The percentage of a voltage in tenths is 0 exactly up to the limit. *)
LEMMA Percentage ==
  ASSUME NEW tenths \in Nat
  PROVE  /\ get_battery_level(tenths * 100) \in 0 .. 200
         /\ get_battery_level(tenths * 100) = 0 <=> tenths * 100 <= MIN_VBAT_MV
<1>1. MIN_VBAT_MV = 7000 /\ StepMv = 10
  BY DEF StepMv, MAX_VBAT_MV, MIN_VBAT_MV
<1>2. CASE tenths <= 70
  BY <1>1, <1>2 DEF get_battery_level
<1>3. CASE tenths > 70
  <2>1. (tenths * 100 - 7000) \div 10 = tenths * 10 - 700
    BY <1>3, SMTT(20)
  <2> QED
    BY <1>1, <1>3, <2>1 DEF get_battery_level
<1> QED
  BY <1>2, <1>3

(* For every reading and every calibration nothing overflows its u16 or    *)
(* u8, and the three values of a measurement agree at the limit            *)
(* (app_battery.c:63-72, 91-108, 125).                                     *)
LEMMA Arithmetic ==
  ASSUME NEW raw \in Nat, raw <= 8000, NEW factor \in Nat
  PROVE  /\ VoltageOf(raw, factor) \in 0 .. 255
         /\ PercentageOf(raw, factor) \in 0 .. 200
         /\ Low(raw, factor) <=> VoltageOf(raw, factor) * 100 <= MIN_VBAT_MV
         /\ Low(raw, factor) <=> PercentageOf(raw, factor) = 0
<1>1. Tenths(Scaled(raw, factor)) \in Nat /\ Tenths(Scaled(raw, factor)) <= 241
  BY Scaling, Rounding
<1>2. SUFFICES ASSUME NEW tenths \in Nat, tenths <= 241,
                      tenths = Tenths(Scaled(raw, factor))
               PROVE  /\ VoltageOf(raw, factor) \in 0 .. 255
                      /\ PercentageOf(raw, factor) \in 0 .. 200
                      /\ Low(raw, factor) <=>
                           VoltageOf(raw, factor) * 100 <= MIN_VBAT_MV
                      /\ Low(raw, factor) <=> PercentageOf(raw, factor) = 0
  BY <1>1
<1>3. tenths % 256 = tenths /\ (tenths * 100) % 65536 = tenths * 100
  BY <1>2, Fits
<1>4. VoltageOf(raw, factor) = tenths
  BY <1>2, <1>3 DEF VoltageOf, U8
<1>5. RoundedMv(Scaled(raw, factor)) = tenths * 100
  BY <1>2, <1>3 DEF RoundedMv, U16
<1> QED
  BY <1>2, <1>4, <1>5, Percentage DEF Low, PercentageOf

(* A counter stays in its range and arrives at the upper end only with an  *)
(* active sample, at the lower end only with an inactive one               *)
(* (app_smoke.c:93-95, 116-118).                                           *)
LEMMA Counting ==
  ASSUME NEW c \in 1 .. Debounce, NEW active \in BOOLEAN
  PROVE  /\ Count(c, active) \in 1 .. Debounce
         /\ Count(c, active) # c /\ Count(c, active) = Debounce => active
         /\ Count(c, active) # c /\ Count(c, active) = 1 => ~active
  BY SmokeAssumption DEF Count

-----------------------------------------------------------------------------
(* The measured level of the battery is the one both attributes show. *)
MeasurementStored ==
  /\ level["battery"] <=> batteryVoltage * 100 <= MIN_VBAT_MV
  /\ level["battery"] <=> batteryPercentage = 0

IInv ==
  /\ IOInv(ZoneIO, told)
  /\ told \in SUBSET Bit
  /\ SmokeTypeOK
  /\ BatteryTypeOK
  /\ ButtonTypeOK
  /\ SettledAtTheEnds
  /\ SirenFollowsSmoke
  /\ MeasurementStored
  /\ BusyHasAnEnd

(* ZoneIO shows the variables. *)
LEMMA Shown ==
  /\ ZoneIO.zone = zone
  /\ ZoneIO.joined = joined
  /\ ZoneIO.air = air
  /\ ZoneIO.uninformed = uninformed
  /\ ZoneIO.level = level
  /\ ZoneIO.missed = missed
  BY DEF ZoneIO

(* What the invariant says of the zone, in the words of the modules. *)
LEMMA IInvImplies ==
  ASSUME IInv
  PROVE  /\ TypeOK
         /\ ZoneTracksSources
         /\ ToldWhenQuiet
         /\ NotesAddressedAsEnrolled
         /\ SettledAtTheEnds
         /\ SirenFollowsSmoke
         /\ BatteryAgrees
         /\ BusyHasAnEnd
<1>1. IOInv(ZoneIO, told)
  BY DEF IInv
<1>2. ZoneIO \in IO
  BY <1>1 DEF IOInv
<1>3. ZoneTypeOK
  BY <1>1, <1>2, Shown DEF IInv, IOInv, IO, ZoneTypeOK
<1>4. ZoneTracksSources
  BY <1>1, Shown DEF IOInv, Tracks, ZoneTracksSources
<1>5. ToldWhenQuiet
  BY <1>1, Shown DEF IOInv, Informs, ToldWhenQuiet
<1>6. NotesAddressedAsEnrolled
  BY <1>1, Shown DEF IOInv, Addressed, NotesAddressedAsEnrolled
<1>7. BatteryAgrees
  <2>1. "battery" \in Source \ missed /\ BitOf["battery"] = "BATTERY"
    BY <1>1, Shown DEF IOInv, Source, BitOf
  <2>2. ("BATTERY" \in zone.status) <=> level["battery"]
    BY <1>4, <2>1 DEF ZoneTracksSources
  <2> QED
    BY <2>2 DEF IInv, MeasurementStored, BatteryAgrees
<1> QED
  BY <1>3, <1>4, <1>5, <1>6, <1>7 DEF IInv, TypeOK

-----------------------------------------------------------------------------
(* Two facts that every step needs: an unchanged part of the state keeps   *)
(* its part of the invariant, and a published record replaces ZoneIO.      *)
LEMMA ZoneUnchanged ==
  ASSUME UNCHANGED <<zone, joined, air, uninformed, level, missed>>
  PROVE  ZoneIO' = ZoneIO
  BY DEF ZoneIO

LEMMA LevelType ==
  ASSUME IInv
  PROVE  level \in [Source -> BOOLEAN] /\ Input \subseteq Source
  BY DEF IInv, IOInv, IO, ZoneIO, Input, Source

(* The zone of a device that has just started, whatever it has told. *)
LEMMA AtReset ==
  ASSUME NEW stale \in BOOLEAN, NEW t, ~stale => t = InitialZone.status
  PROVE  IOInv(ResetIO(stale), t)
<1>1. InitialZone \in Zone
  BY DEF InitialZone, Zone, Bit
<1>2. ResetIO(stale) \in IO
  BY <1>1 DEF ResetIO, IO
<1>3. Tracks(ResetIO(stale))
  BY DEF Tracks, ResetIO, InitialZone, BitOf, Source
<1>4. Len(ResetIO(stale).air) <= MaxAir /\ "battery" \notin ResetIO(stale).missed
  BY ZoneAssumption DEF ResetIO
<1>5. EnrolledHasId(ResetIO(stale)) /\ Addressed(ResetIO(stale))
  BY DEF EnrolledHasId, Addressed, ResetIO, InitialZone
<1>6. Informs(ResetIO(stale), t)
  <2>1. /\ ResetIO(stale).uninformed = stale
        /\ ResetIO(stale).air = <<>>
        /\ ResetIO(stale).zone = InitialZone
    BY DEF ResetIO
  <2> QED
    BY <2>1 DEF Informs
<1> QED
  BY <1>2, <1>3, <1>4, <1>5, <1>6 DEF IOInv

LEMMA Initially == Init => IInv
<1> SUFFICES ASSUME Init
             PROVE  IInv
  OBVIOUS
<1>1. PICK raw \in Readings :
        /\ BatteryInit(raw)
        /\ ZoneIs(Measured(ResetIO(FALSE), raw, voltage_factor))
  BY DEF Init
<1>2. raw \in Nat /\ raw <= 8000 /\ voltage_factor \in 0 .. 255
  <2>1. PICK f \in Factors : voltage_factor = FactorFromFlash(f)
    BY <1>1 DEF BatteryInit
  <2>2. f \in 0 .. 255 /\ raw \in 0 .. 8000
    BY BatteryAssumption DEF U8
  <2>3. voltage_factor \in 0 .. 255
    BY <2>1, <2>2 DEF FactorFromFlash
  <2> QED BY <2>2, <2>3
<1>3. told \in SUBSET Bit /\ told = InitialZone.status
  BY DEF Init, InitialZone, Bit
<1>4. IOInv(ResetIO(FALSE), told)
  BY <1>3, AtReset
<1>5. PICK start : start = ResetIO(FALSE)
  OBVIOUS
<1>6. IOInv(start, told)
  BY <1>4, <1>5
<1>7. PICK io : io = Measured(start, raw, voltage_factor)
  OBVIOUS
<1>8. /\ IOInv(io, told)
      /\ io.level = [start.level EXCEPT !["battery"] = Low(raw, voltage_factor)]
  BY <1>6, <1>7, Measuring
<1>9. ZoneIO = io
  BY <1>1, <1>5, <1>7, <1>8 DEF ZoneIs, ZoneIO, IOInv, IO
<1>10. level = [[s \in Source |-> FALSE] EXCEPT !["battery"] = Low(raw, voltage_factor)]
  BY <1>5, <1>8, <1>9, Shown DEF ResetIO
<1>11. level["smoke"] = FALSE /\ level["tamper"] = FALSE
      /\ level["battery"] = Low(raw, voltage_factor)
  BY <1>10 DEF Source
<1>12. SmokeTypeOK
  <2>1. debounce \in [Input -> 1 .. Debounce]
    BY SmokeAssumption DEF Init, SmokeInit, DebounceStart
  <2> QED
    BY <2>1, Zenon DEF Init, SmokeInit, SmokeTypeOK, SwitchInit, SwitchTypeOK
<1>13. SettledAtTheEnds /\ SirenFollowsSmoke
  <2>1. debounce["smoke"] = 1 /\ debounce["tamper"] = 1 /\ Debounce # 1
    BY SmokeAssumption DEF Init, SmokeInit, DebounceStart, Input
  <2>2. SettledAtTheEnds
    BY <1>11, <2>1 DEF SettledAtTheEnds, Input
  <2>3. SirenFollowsSmoke
    BY <1>11 DEF Init, SmokeInit, SirenFollowsSmoke, SirenFor
  <2> QED
    BY <2>2, <2>3
<1>14. BatteryTypeOK
  <2>1. /\ VoltageOf(raw, voltage_factor) \in 0 .. 255
        /\ PercentageOf(raw, voltage_factor) \in 0 .. 200
    BY <1>2, Arithmetic, voltage_factor \in Nat
  <2> QED
    BY <1>1, <1>2, <2>1 DEF BatteryInit, BatteryTypeOK, U8
<1>15. MeasurementStored
  BY <1>1, <1>2, <1>11, Arithmetic DEF BatteryInit, MeasurementStored
<1>16. ButtonTypeOK
  <2>1. ButtonStart \in [state : ButtonState, ctn : 0 .. CtnSize - 1]
    BY ButtonAssumption DEF ButtonStart, ButtonState
  <2> QED
    BY <2>1, Zenon DEF Init, ButtonInit, ButtonTypeOK
<1>17. BusyHasAnEnd
  BY DEF Init, ButtonInit, ButtonStart, BusyHasAnEnd
<1> QED
  BY <1>3, <1>8, <1>9, <1>12, <1>13, <1>14, <1>15, <1>16, <1>17 DEF IInv

(* A measurement stores what the level of the battery then says. *)
LEMMA StoredByMeasurement ==
  ASSUME IInv, NEW raw \in Readings, StoreMeasurement(raw),
         level'["battery"] = Low(raw, voltage_factor)
  PROVE  BatteryTypeOK' /\ MeasurementStored'
<1>1. raw \in Nat /\ raw <= 8000 /\ voltage_factor \in Nat /\ voltage_factor <= 255
  <2>1. raw \in 0 .. 8000
    BY BatteryAssumption
  <2>2. BatteryTypeOK
    BY DEF IInv
  <2>3. voltage_factor \in 0 .. 255
    BY <2>2 DEF BatteryTypeOK, U8
  <2> QED
    BY <2>1, <2>3
<1>2. /\ VoltageOf(raw, voltage_factor) \in 0 .. 255
      /\ PercentageOf(raw, voltage_factor) \in 0 .. 200
  BY <1>1, Arithmetic
<1>3. BatteryTypeOK'
  BY <1>1, <1>2 DEF StoreMeasurement, BatteryTypeOK, U8
<1>4. MeasurementStored'
  BY <1>1, Arithmetic DEF StoreMeasurement, MeasurementStored
<1> QED
  BY <1>3, <1>4

(* A step that only settles other sources leaves the inputs alone. *)
LEMMA InputsUndisturbed ==
  ASSUME IInv, UNCHANGED smokeVars, \A i \in Input : level'[i] = level[i]
  PROVE  SmokeTypeOK' /\ SettledAtTheEnds' /\ SirenFollowsSmoke'
<1>1. SmokeTypeOK'
  BY DEF IInv, SmokeTypeOK, SwitchTypeOK, smokeVars, switchVars
<1>2. SettledAtTheEnds'
  BY DEF IInv, SettledAtTheEnds, smokeVars
<1>3. "smoke" \in Input
  BY DEF Input
<1>4. SirenFollowsSmoke'
  BY <1>3 DEF IInv, SirenFollowsSmoke, smokeVars, switchVars
<1> QED
  BY <1>1, <1>2, <1>4

-----------------------------------------------------------------------------
(* smoke_handler: two samples, published one after the other. *)
LEMMA SampleInputsStep ==
  ASSUME IInv, SampleInputs
  PROVE  IInv'
<1> USE DEF SampleInputs
<1>1. PICK one : one = Sampled(ZoneIO, "smoke")
  OBVIOUS
<1>2. PICK two : two = Sampled(one, "tamper")
  OBVIOUS
<1>3. pin \in [Input -> BOOLEAN] /\ debounce \in [Input -> 1 .. Debounce]
  BY DEF IInv, SmokeTypeOK
<1>4. "smoke" \in Input /\ "tamper" \in Input /\ "smoke" # "tamper"
  BY DEF Input
<1>5. /\ IOInv(one, told)
      /\ one.level = IF Settles("smoke") THEN [level EXCEPT !["smoke"] = pin["smoke"]]
                                         ELSE level
  BY <1>1, <1>3, <1>4, Sampling, Shown DEF IInv
<1>6. /\ IOInv(two, told)
      /\ two.level = IF Settles("tamper")
                       THEN [one.level EXCEPT !["tamper"] = pin["tamper"]]
                       ELSE one.level
  BY <1>2, <1>3, <1>4, <1>5, Sampling
<1>7. ZoneIO' = two
  BY <1>1, <1>2, <1>6, Published DEF smoke_handler
<1>8. level' = two.level
  BY <1>7 DEF ZoneIO
<1>9. /\ level \in [Source -> BOOLEAN]
      /\ Input \subseteq Source
      /\ "battery" \in Source
      /\ "battery" \notin Input
  BY LevelType DEF Input, Source
<1>10. \A i \in Input : level'[i] = IF Settles(i) THEN pin[i] ELSE level[i]
  BY <1>3, <1>5, <1>6, <1>8, <1>9 DEF Input
<1>11. level'["battery"] = level["battery"]
  BY <1>5, <1>6, <1>8, <1>9 DEF Input
<1>12. \A i \in Input : debounce'[i] = Count(debounce[i], pin[i])
  BY DEF smoke_handler
<1>13. SmokeTypeOK'
  <2>1. debounce' \in [Input -> 1 .. Debounce]
    BY <1>3, Counting DEF smoke_handler
  <2>2. siren' \in BOOLEAN /\ sirenSynced' \in BOOLEAN
    <3>1. siren \in BOOLEAN /\ sirenSynced \in BOOLEAN /\ pin["smoke"] \in BOOLEAN
      BY <1>3, <1>4 DEF IInv, SmokeTypeOK
    <3>2. cmdOnOff(pin["smoke"]) \in BOOLEAN
      BY <3>1 DEF cmdOnOff
    <3>3. PICK received \in BOOLEAN : Command(received)
      BY DEF smoke_handler
    <3>4. CASE Settles("smoke") /\ joined /\ received
      <4>1. siren' = cmdOnOff(pin["smoke"]) /\ sirenSynced' = (switchAction \in Explicit)
        BY <3>3, <3>4 DEF Command
      <4>2. (switchAction \in Explicit) \in BOOLEAN
        OBVIOUS
      <4> QED
        BY <3>2, <4>1, <4>2, Zenon
    <3>5. CASE Settles("smoke") /\ ~(joined /\ received)
      BY <3>1, <3>3, <3>5, Zenon DEF Command
    <3>6. CASE ~Settles("smoke")
      BY <3>1, <3>3, <3>6, Zenon DEF Command
    <3> QED
      BY <3>4, <3>5, <3>6
  <2> QED
    BY <2>1, <2>2 DEF smoke_handler, IInv, SmokeTypeOK, SwitchTypeOK, switchVars
<1>14. SettledAtTheEnds'
  <2> SUFFICES ASSUME NEW i \in Input
               PROVE  /\ debounce'[i] = Debounce => level'[i]
                      /\ debounce'[i] = 1 => ~level'[i]
    BY DEF SettledAtTheEnds
  <2>1. CASE Settles(i)
    BY <1>3, <1>10, <1>12, <2>1, Counting DEF Settles
  <2>2. CASE ~Settles(i)
    <3>1. debounce'[i] \in {1, Debounce} => debounce'[i] = debounce[i]
      BY <1>12, <2>2 DEF Settles
    <3> QED
      BY <1>10, <2>2, <3>1 DEF IInv, SettledAtTheEnds
  <2> QED
    BY <2>1, <2>2
<1>15. SirenFollowsSmoke'
  <2>1. CASE Settles("smoke")
    <3> SUFFICES ASSUME sirenSynced'
                 PROVE  siren' = SirenFor(switchAction', level'["smoke"])
      BY DEF SirenFollowsSmoke
    <3>1. switchAction \in Explicit /\ siren' = cmdOnOff(pin["smoke"])
      BY <2>1 DEF smoke_handler, Command
    <3>2. cmdOnOff(pin["smoke"]) = SirenFor(switchAction, pin["smoke"])
      BY <3>1 DEF Explicit, cmdOnOff, SirenFor
    <3> QED
      BY <1>4, <1>10, <2>1, <3>1, <3>2 DEF smoke_handler, switchVars
  <2>2. CASE ~Settles("smoke")
    BY <1>4, <1>10, <2>2
       DEF smoke_handler, switchVars, Command, IInv, SirenFollowsSmoke
  <2> QED
    BY <2>1, <2>2
<1>16. BatteryTypeOK' /\ ButtonTypeOK' /\ BusyHasAnEnd'
  BY DEF IInv, BatteryTypeOK, ButtonTypeOK, BusyHasAnEnd, batteryVars, buttonVars
<1>17. MeasurementStored'
  BY <1>11 DEF IInv, MeasurementStored, batteryVars
<1>18. told' = told
  BY DEF smoke_handler
<1> QED
  BY <1>6, <1>7, <1>13, <1>14, <1>15, <1>16, <1>17, <1>18 DEF IInv

(* batteryCb, from the hourly timer. *)
LEMMA MeasureBatteryStep ==
  ASSUME IInv, MeasureBattery
  PROVE  IInv'
<1>1. PICK raw \in Readings : batteryCb(raw) /\ UNCHANGED <<smokeVars, buttonVars>>
  BY DEF MeasureBattery
<1>2. PICK io : io = Measured(ZoneIO, raw, voltage_factor)
  OBVIOUS
<1>3. /\ IOInv(io, told)
      /\ io.level = [level EXCEPT !["battery"] = Low(raw, voltage_factor)]
  BY <1>2, Measuring, Shown DEF IInv
<1>4. ZoneIO' = io
  BY <1>1, <1>2, <1>3, Published DEF batteryCb
<1>5. level' = [level EXCEPT !["battery"] = Low(raw, voltage_factor)]
  BY <1>3, <1>4 DEF ZoneIO
<1>6. level'["battery"] = Low(raw, voltage_factor)
  BY <1>5, LevelType DEF Source
<1>7. \A i \in Input : level'[i] = level[i]
  BY <1>5, LevelType DEF Input
<1>8. BatteryTypeOK' /\ MeasurementStored'
  BY <1>1, <1>6, StoredByMeasurement DEF batteryCb
<1>9. SmokeTypeOK' /\ SettledAtTheEnds' /\ SirenFollowsSmoke'
  BY <1>1, <1>7, InputsUndisturbed
<1>10. ButtonTypeOK' /\ BusyHasAnEnd'
  BY <1>1 DEF IInv, ButtonTypeOK, BusyHasAnEnd, buttonVars
<1>11. told' = told
  BY <1>1 DEF batteryCb
<1> QED
  BY <1>3, <1>4, <1>8, <1>9, <1>10, <1>11 DEF IInv

(* The states of the button on their own. *)
LEMMA ButtonKept ==
  ASSUME IInv, NEW raw, NEW event, button_handler(raw, event)
  PROVE  ButtonTypeOK' /\ BusyHasAnEnd'
<1>1. /\ button \in [state : ButtonState, ctn : 0 .. CtnSize - 1]
      /\ keyPressed <=> button.state \in {"SET_CHECK", "DOING"}
      /\ button.ctn # 0 => button.state \in {"SET_CHECK", "RELEASE"}
      /\ keyPressed \in BOOLEAN /\ waited \in BOOLEAN
      /\ resetAsked \in BOOLEAN /\ forcedReport \in BOOLEAN
  BY DEF IInv, ButtonTypeOK, BusyHasAnEnd
<1>2. /\ AfterTimes \in [state : ButtonState, ctn : 0 .. CtnSize - 1]
      /\ keyPressed <=> AfterTimes.state \in {"SET_CHECK", "DOING"}
      /\ AfterTimes.ctn # 0 => AfterTimes.state \in {"SET_CHECK", "RELEASE"}
  <2>1. CASE KeepsPressed
    <3>1. AfterTimes = [state |-> "DOING", ctn |-> 0]
      <4>1. ~ChecksCommand
        BY <2>1 DEF KeepsPressed, ChecksCommand
      <4> QED
        BY <2>1, <4>1 DEF AfterTimes
    <3>2. keyPressed
      BY <1>1, <2>1 DEF KeepsPressed
    <3> QED
      BY <3>1, <3>2, ButtonAssumption DEF ButtonState
  <2>2. CASE ~KeepsPressed /\ ChecksCommand
    <3>1. AfterTimes = [state |-> "NORMAL", ctn |-> 0]
      BY <2>2 DEF AfterTimes
    <3>2. ~keyPressed
      BY <1>1, <2>2 DEF ChecksCommand
    <3> QED
      BY <3>1, <3>2, ButtonAssumption DEF ButtonState
  <2>3. CASE ~KeepsPressed /\ ~ChecksCommand
    BY <1>1, <2>3 DEF AfterTimes
  <2> QED
    BY <2>1, <2>2, <2>3
<1>3. event \in {"none", "press", "release"}
  BY DEF button_handler, ScanEvent
<1>4. /\ button' \in [state : ButtonState, ctn : 0 .. CtnSize - 1]
      /\ BusyHasAnEnd'
  <2>1. CASE event = "press"
    <3>1. button'.state = "SET_CHECK" /\ keyPressed' = TRUE
      BY <2>1 DEF button_handler, AfterScan
    <3>2. button' \in [state : ButtonState, ctn : 0 .. CtnSize - 1]
      <4>1. (AfterTimes.ctn + 1) % CtnSize \in 0 .. CtnSize - 1
        BY <1>2, ButtonAssumption
      <4> QED
        BY <2>1, <4>1 DEF button_handler, AfterScan, ButtonState
    <3> QED
      BY <3>1, <3>2 DEF BusyHasAnEnd
  <2>2. CASE event = "release"
    <3>1. button' = [AfterTimes EXCEPT !.state = "RELEASE"] /\ keyPressed' = FALSE
      BY <2>2 DEF button_handler, AfterScan
    <3> QED
      BY <1>2, <3>1 DEF BusyHasAnEnd, ButtonState
  <2>3. CASE event = "none"
    <3>1. button' = AfterTimes /\ keyPressed' = keyPressed
      BY <2>3 DEF button_handler, AfterScan
    <3> QED
      BY <1>2, <3>1 DEF BusyHasAnEnd
  <2> QED
    BY <1>3, <2>1, <2>2, <2>3
<1>5. keyPressed' \in BOOLEAN
  BY <1>1, <1>3 DEF button_handler
<1>6. (waited /\ event = "none" /\ button' = button) \in BOOLEAN
      /\ (resetAsked \/ KeepsPressed) \in BOOLEAN
      /\ (forcedReport \/ SinglePress) \in BOOLEAN
  OBVIOUS
<1>7. waited' \in BOOLEAN /\ resetAsked' \in BOOLEAN /\ forcedReport' \in BOOLEAN
  BY <1>6, Zenon DEF button_handler
<1> QED
  BY <1>4, <1>5, <1>7 DEF ButtonTypeOK

(* button_handler: its times, its measurement, its key scan. *)
LEMMA HandleButtonStep ==
  ASSUME IInv, HandleButton
  PROVE  IInv'
<1>1. PICK raw \in Readings, event \in ScanEvent :
        button_handler(raw, event) /\ UNCHANGED smokeVars
  BY DEF HandleButton
<1>2. event \in {"none", "press", "release"}
  BY DEF ScanEvent
<1>3. PICK one : one = IF SinglePress THEN Measured(ZoneIO, raw, voltage_factor)
                                      ELSE ZoneIO
  OBVIOUS
<1>4. PICK two : two = ButtonZone(ZoneIO, raw, event)
  OBVIOUS
<1>5. /\ IOInv(one, told)
      /\ one.level = IF SinglePress
                       THEN [level EXCEPT !["battery"] = Low(raw, voltage_factor)]
                       ELSE level
  <2>1. CASE SinglePress
    BY <1>3, <2>1, Measuring, Shown DEF IInv
  <2>2. CASE ~SinglePress
    BY <1>3, <2>2, Shown DEF IInv
  <2> QED
    BY <2>1, <2>2
<1>6. "button" \in Source /\ "battery" \in Source /\ "button" \notin Input
      /\ "battery" \notin Input
  BY DEF Source, Input
<1>7. /\ IOInv(two, told)
      /\ \/ two.level = one.level
         \/ \E on \in BOOLEAN : two.level = [one.level EXCEPT !["button"] = on]
  <2>1. CASE event = "press"
    <3>1. two = Settle(one, "button", TRUE)
      BY <1>3, <1>4, <2>1 DEF ButtonZone
    <3> QED
      BY <1>5, <1>6, <3>1, Settled
  <2>2. CASE event = "release"
    <3>1. two = Settle(one, "button", FALSE)
      BY <1>3, <1>4, <2>2 DEF ButtonZone
    <3> QED
      BY <1>5, <1>6, <3>1, Settled
  <2>3. CASE event = "none"
    BY <1>3, <1>4, <1>5, <2>3 DEF ButtonZone
  <2> QED
    BY <1>2, <2>1, <2>2, <2>3
<1>8. ZoneIO' = two
  BY <1>1, <1>4, <1>7, Published DEF button_handler
<1>9. level' = two.level
  BY <1>8 DEF ZoneIO
<1>10. level \in [Source -> BOOLEAN] /\ Input \subseteq Source
  BY LevelType
<1>11. \A i \in Input : level'[i] = level[i]
  BY <1>5, <1>6, <1>7, <1>9, <1>10
<1>12. level'["battery"] = IF SinglePress THEN Low(raw, voltage_factor)
                                          ELSE level["battery"]
  BY <1>5, <1>6, <1>7, <1>9, <1>10
<1>13. BatteryTypeOK' /\ MeasurementStored'
  <2>1. CASE SinglePress
    BY <1>1, <1>12, <2>1, StoredByMeasurement DEF button_handler
  <2>2. CASE ~SinglePress
    BY <1>1, <1>12, <2>2
       DEF button_handler, IInv, BatteryTypeOK, MeasurementStored, batteryVars
  <2> QED
    BY <2>1, <2>2
<1>14. SmokeTypeOK' /\ SettledAtTheEnds' /\ SirenFollowsSmoke'
  BY <1>1, <1>11, InputsUndisturbed
<1>15. ButtonTypeOK' /\ BusyHasAnEnd'
  BY <1>1, ButtonKept
<1>16. told' = told
  BY <1>1 DEF button_handler
<1> QED
  BY <1>7, <1>8, <1>13, <1>14, <1>15, <1>16 DEF IInv

(* The clock and the forced report. *)
LEMMA TimersStep ==
  ASSUME IInv, ButtonTime \/ ForcedReport
  PROVE  IInv'
<1>1. /\ UNCHANGED <<zoneVars, smokeVars, batteryVars>>
      /\ UNCHANGED <<button, keyPressed, resetAsked>>
  BY DEF ButtonTime, ForcedReport, Elapse, forcedReportCb
<1>2. waited' \in BOOLEAN /\ forcedReport' \in BOOLEAN
  <2>1. waited \in BOOLEAN /\ forcedReport \in BOOLEAN
    BY DEF IInv, ButtonTypeOK
  <2> QED
    BY <2>1, Zenon DEF ButtonTime, ForcedReport, Elapse, forcedReportCb
<1>3. IOInv(ZoneIO, told)' /\ (told \in SUBSET Bit)'
  BY <1>1, ZoneUnchanged DEF zoneVars, IInv
<1>4. SmokeTypeOK' /\ SettledAtTheEnds' /\ SirenFollowsSmoke'
  BY <1>1, InputsUndisturbed DEF zoneVars
<1>5. BatteryTypeOK' /\ MeasurementStored'
  BY <1>1 DEF zoneVars, batteryVars, IInv, BatteryTypeOK, MeasurementStored
<1>6. ButtonTypeOK' /\ BusyHasAnEnd'
  BY <1>1, <1>2 DEF IInv, ButtonTypeOK, BusyHasAnEnd
<1> QED
  BY <1>3, <1>4, <1>5, <1>6 DEF IInv

(* A step of the zone alone, of which the sources know nothing. *)
LEMMA ZoneOnly ==
  ASSUME IInv, UNCHANGED <<level, smokeVars, batteryVars, buttonVars>>,
         IOInv(ZoneIO, told)', (told \in SUBSET Bit)'
  PROVE  IInv'
<1>1. SmokeTypeOK' /\ SettledAtTheEnds' /\ SirenFollowsSmoke'
  BY InputsUndisturbed
<1>2. BatteryTypeOK' /\ MeasurementStored'
  BY DEF batteryVars, IInv, BatteryTypeOK, MeasurementStored
<1>3. ButtonTypeOK' /\ BusyHasAnEnd'
  BY DEF buttonVars, IInv, ButtonTypeOK, BusyHasAnEnd
<1> QED
  BY <1>1, <1>2, <1>3 DEF IInv

(* The commands of the controller. *)
LEMMA ControllerStep ==
  ASSUME IInv, Controller
  PROVE  IInv'
<1>1. /\ UNCHANGED <<smokeVars, batteryVars, buttonVars>>
      /\ UNCHANGED <<joined, air, told, uninformed, level, missed>>
  BY DEF Controller, WriteCieAddr, EnrollRsp
<1>2. zone \in Zone /\ EnrolledHasId(ZoneIO)
  BY DEF IInv, IOInv, IO, ZoneIO
<1>3. /\ zone' \in Zone
      /\ zone'.status = zone.status
      /\ zone'.enrolled <=> zone'.id # InvalidZoneId
  <2>1. CASE \E a \in Controllers : WriteCieAddr(a)
    <3>1. PICK a \in Controllers : zone' = [zone EXCEPT !.cie = a]
      BY <2>1 DEF WriteCieAddr
    <3> QED
      BY <1>2, <3>1 DEF Zone, EnrolledHasId, ZoneIO
  <2>2. CASE \E id \in ZoneIds \union {InvalidZoneId} : EnrollRsp(id)
    <3>1. PICK id \in ZoneIds :
            zone' = [zone EXCEPT !.id = id, !.enrolled = TRUE] /\ id # InvalidZoneId
      BY <2>2 DEF EnrollRsp
    <3> QED
      BY <1>2, <3>1 DEF Zone
  <2> QED
    BY <2>1, <2>2 DEF Controller
<1>4. ZoneIO' = [ZoneIO EXCEPT !.zone = zone']
  BY <1>1 DEF ZoneIO
<1>5. IOInv(ZoneIO', told)
  BY <1>3, <1>4, Shown DEF IInv, IOInv, IO, Tracks, EnrolledHasId, Addressed, Informs
<1> QED
  BY <1>1, <1>5, ZoneOnly DEF IInv

(* The stack delivers the oldest notification, or gives up on it. *)
LEMMA RadioStep ==
  ASSUME IInv, Radio
  PROVE  IInv'
<1>1. /\ UNCHANGED <<smokeVars, batteryVars, buttonVars>>
      /\ UNCHANGED <<zone, joined, level, missed>>
      /\ air # <<>> /\ air' = Tail(air)
  BY DEF Radio, Deliver, Lose
<1>2. /\ air \in Seq(Notification) /\ Len(air) <= MaxAir
      /\ uninformed \in BOOLEAN
      /\ told \in SUBSET Bit
      /\ ~uninformed => zone.status = air[Len(air)].status
  BY <1>1, Shown DEF IInv, IOInv, IO, Informs
<1>3. PICK rest : rest = Tail(air)
  OBVIOUS
<1>4. /\ rest \in Seq(Notification)
      /\ Len(air) \in Nat \ {0}
      /\ Len(rest) = Len(air) - 1
      /\ \A k \in 1 .. Len(rest) : rest[k] = air[k + 1]
      /\ (rest = <<>>) <=> (Len(air) = 1)
      /\ air[1] \in Notification
  <2>1. /\ rest \in Seq(Notification)
        /\ Len(rest) = Len(air) - 1
        /\ \A k \in 1 .. Len(rest) : rest[k] = air[k + 1]
    BY <1>1, <1>2, <1>3, HeadTailProperties
  <2>2. Len(air) \in Nat \ {0}
    BY <1>1, <1>2, EmptySeq
  <2>3. (rest = <<>>) <=> (Len(rest) = 0)
    BY <2>1, EmptySeq
  <2>4. air[1] \in Notification
    BY <1>2, <2>2, ElementOfSeq
  <2> QED
    BY <2>1, <2>2, <2>3, <2>4
<1>5. (told \in SUBSET Bit)' /\ uninformed' \in BOOLEAN
  <2>1. Head(air) = air[1]
    OBVIOUS
  <2>2. Head(air).status \in SUBSET Bit
    BY <1>4, <2>1 DEF Notification
  <2>3. (uninformed \/ Len(air) = 1) \in BOOLEAN
    OBVIOUS
  <2> QED
    BY <1>2, <2>2, <2>3, Zenon DEF Radio, Deliver, Lose
<1>6. ~uninformed' =>
        zone.status = IF rest = <<>> THEN told' ELSE rest[Len(rest)].status
  <2>1. /\ uninformed \/ Len(air) = 1 => told' = air[1].status \/ uninformed'
        /\ ~uninformed' => ~uninformed
    <3>1. CASE Deliver
      BY <3>1 DEF Deliver
    <3>2. CASE Lose
      BY <1>2, <3>2 DEF Lose
    <3> QED
      BY <3>1, <3>2 DEF Radio
  <2>2. Len(air) # 1 => rest[Len(rest)] = air[Len(air)]
    BY <1>4
  <2> QED
    BY <1>2, <1>4, <2>1, <2>2
<1>7. \A k \in 1 .. Len(rest) :
        (rest[k].dst = Coordinator) <=> (rest[k].id = InvalidZoneId)
  <2>1. \A k \in 1 .. Len(air) :
          (air[k].dst = Coordinator) <=> (air[k].id = InvalidZoneId)
    BY Shown DEF IInv, IOInv, Addressed
  <2> QED
    BY <1>4, <2>1
<1>8. /\ ZoneIO'.zone = zone /\ ZoneIO'.missed = missed /\ ZoneIO'.level = level
      /\ ZoneIO'.air = rest /\ ZoneIO'.uninformed = uninformed'
  BY <1>1, <1>3 DEF ZoneIO
<1>9. ZoneIO' \in IO
  <2>1. /\ zone \in Zone /\ joined \in BOOLEAN
        /\ level \in [Source -> BOOLEAN] /\ missed \in SUBSET Source
    BY Shown DEF IInv, IOInv, IO
  <2> QED
    BY <1>1, <1>3, <1>4, <1>5, <2>1 DEF ZoneIO, IO
<1>10. IOInv(ZoneIO', told')
  <2>1. Len(ZoneIO'.air) <= MaxAir
    BY <1>2, <1>4, <1>8, ZoneAssumption
  <2>2. Tracks(ZoneIO') /\ EnrolledHasId(ZoneIO') /\ "battery" \notin ZoneIO'.missed
    BY <1>8, Shown DEF IInv, IOInv, Tracks, EnrolledHasId
  <2>3. Addressed(ZoneIO') /\ Informs(ZoneIO', told')
    BY <1>6, <1>7, <1>8 DEF Addressed, Informs
  <2> QED
    BY <1>9, <2>1, <2>2, <2>3 DEF IOInv
<1> QED
  BY <1>1, <1>5, <1>10, ZoneOnly

(* The device joins or leaves: all that the zone knows stays. *)
LEMMA NetworkStep ==
  ASSUME IInv, JoinNetwork \/ LeaveNetwork
  PROVE  IInv'
<1>1. /\ UNCHANGED <<smokeVars, batteryVars>>
      /\ UNCHANGED <<button, keyPressed, waited, forcedReport>>
      /\ UNCHANGED <<zone, air, told, uninformed, level, missed>>
      /\ joined' \in BOOLEAN
      /\ resetAsked' \in BOOLEAN
  <2>1. resetAsked \in BOOLEAN
    BY DEF IInv, ButtonTypeOK
  <2>2. CASE JoinNetwork
    BY <2>1, <2>2, Zenon DEF JoinNetwork, Join, buttonVars
  <2>3. CASE LeaveNetwork
    BY <2>3, Zenon DEF LeaveNetwork, Leave, ResetLeaves
  <2> QED
    BY <2>2, <2>3
<1>2. ZoneIO' = [ZoneIO EXCEPT !.joined = joined']
  BY <1>1 DEF ZoneIO
<1>3. IOInv(ZoneIO', told)
  BY <1>1, <1>2 DEF IInv, IOInv, IO, Tracks, EnrolledHasId, Addressed, Informs
<1>4. SmokeTypeOK' /\ SettledAtTheEnds' /\ SirenFollowsSmoke'
  BY <1>1, InputsUndisturbed
<1>5. BatteryTypeOK' /\ MeasurementStored'
  BY <1>1 DEF batteryVars, IInv, BatteryTypeOK, MeasurementStored
<1>6. ButtonTypeOK' /\ BusyHasAnEnd'
  BY <1>1 DEF IInv, ButtonTypeOK, BusyHasAnEnd
<1> QED
  BY <1>1, <1>3, <1>4, <1>5, <1>6 DEF IInv

(* The steps of the environment and of the configuration. *)
LEMMA SwitchAndPinsStep ==
  ASSUME IInv, ConfigureSwitch \/ InputChanges
  PROVE  IInv'
<1>1. /\ UNCHANGED <<zoneVars, batteryVars, buttonVars>>
      /\ UNCHANGED <<debounce, siren>>
  BY DEF ConfigureSwitch, InputChanges, WriteSwitchAction, PinChange
<1>2. IOInv(ZoneIO, told)' /\ (told \in SUBSET Bit)'
  BY <1>1, ZoneUnchanged DEF zoneVars, IInv
<1>3. BatteryTypeOK' /\ MeasurementStored'
  BY <1>1 DEF zoneVars, batteryVars, IInv, BatteryTypeOK, MeasurementStored
<1>4. ButtonTypeOK' /\ BusyHasAnEnd'
  BY <1>1 DEF buttonVars, IInv, ButtonTypeOK, BusyHasAnEnd
<1>5. SettledAtTheEnds'
  BY <1>1 DEF zoneVars, IInv, SettledAtTheEnds
<1>6. CASE ConfigureSwitch
  <2>1. PICK a \in Action, command \in WriteCommand : WriteSwitchAction(a, command)
    BY <1>6 DEF ConfigureSwitch
  <2>2. SirenFollowsSmoke'
    BY <1>1, <2>1 DEF WriteSwitchAction, StoreAction, SirenFollowsSmoke, zoneVars
  <2>3. (a \in Explicit /\ siren = SirenFor(a, level["smoke"])) \in BOOLEAN
    OBVIOUS
  <2>4. sirenSynced' \in BOOLEAN
    BY <2>1, <2>3, Zenon DEF WriteSwitchAction
  <2>5. SmokeTypeOK'
    BY <1>1, <2>1, <2>4
       DEF WriteSwitchAction, StoreAction, IInv, SmokeTypeOK, SwitchTypeOK
  <2> QED
    BY <1>2, <1>3, <1>4, <1>5, <2>2, <2>5 DEF IInv
<1>7. CASE InputChanges
  <2>1. PICK i \in Input : PinChange(i)
    BY <1>7 DEF InputChanges
  <2>2. SirenFollowsSmoke'
    BY <1>1, <2>1 DEF PinChange, switchVars, SirenFollowsSmoke, zoneVars, IInv
  <2>3. pin' \in [Input -> BOOLEAN]
    BY <2>1 DEF PinChange, IInv, SmokeTypeOK
  <2>4. SmokeTypeOK'
    BY <1>1, <2>1, <2>3 DEF PinChange, switchVars, IInv, SmokeTypeOK, SwitchTypeOK
  <2> QED
    BY <1>2, <1>3, <1>4, <1>5, <2>2, <2>4 DEF IInv
<1> QED
  BY <1>6, <1>7

(* A restart: the zone forgets, the controller does not. *)
LEMMA RestartStep ==
  ASSUME IInv, Restart
  PROVE  IInv'
<1>1. PICK raw \in Readings :
        /\ SetZoneIO(Measured(ResetIO(TRUE), raw, voltage_factor))
        /\ StoreMeasurement(raw)
  BY DEF Restart
<1>2. told' = told /\ told \in SUBSET Bit
  BY DEF Restart, IInv
<1>3. PICK start : start = ResetIO(TRUE)
  OBVIOUS
<1>4. IOInv(start, told)
  BY <1>3, AtReset
<1>5. PICK io : io = Measured(start, raw, voltage_factor)
  OBVIOUS
<1>6. /\ IOInv(io, told)
      /\ io.level = [start.level EXCEPT !["battery"] = Low(raw, voltage_factor)]
  BY <1>4, <1>5, Measuring
<1>7. ZoneIO' = io
  BY <1>1, <1>3, <1>5, <1>6, Published
<1>8. level' = [[s \in Source |-> FALSE] EXCEPT !["battery"] = Low(raw, voltage_factor)]
  BY <1>3, <1>6, <1>7 DEF ZoneIO, ResetIO
<1>9. level'["smoke"] = FALSE /\ level'["tamper"] = FALSE
      /\ level'["battery"] = Low(raw, voltage_factor)
  BY <1>8 DEF Source
<1>10. BatteryTypeOK' /\ MeasurementStored'
  BY <1>1, <1>9, StoredByMeasurement
<1>11. SmokeTypeOK'
  <2>1. debounce' \in [Input -> 1 .. Debounce]
    BY SmokeAssumption DEF Restart, DebounceStart
  <2>2. sirenSynced' \in BOOLEAN
    BY Zenon DEF Restart
  <2> QED
    BY <2>1, <2>2 DEF Restart, RestoreAction, IInv, SmokeTypeOK, SwitchTypeOK
<1>12. SettledAtTheEnds' /\ SirenFollowsSmoke'
  <2>1. /\ debounce'["smoke"] = 1 /\ debounce'["tamper"] = 1 /\ Debounce # 1
        /\ ~sirenSynced'
    BY SmokeAssumption DEF Restart, DebounceStart, Input
  <2> QED
    BY <1>9, <2>1 DEF SettledAtTheEnds, SirenFollowsSmoke, Input
<1>13. ButtonTypeOK'
  <2>1. ButtonStart \in [state : ButtonState, ctn : 0 .. CtnSize - 1]
    BY ButtonAssumption DEF ButtonStart, ButtonState
  <2> QED
    BY <2>1, Zenon DEF Restart, ButtonTypeOK
<1>14. BusyHasAnEnd'
  BY DEF Restart, ButtonStart, BusyHasAnEnd
<1> QED
  BY <1>2, <1>6, <1>7, <1>10, <1>11, <1>12, <1>13, <1>14 DEF IInv

LEMMA Stutter ==
  ASSUME IInv, UNCHANGED vars
  PROVE  IInv'
<1>1. UNCHANGED <<zoneVars, smokeVars, batteryVars, buttonVars>>
  BY DEF vars
<1>2. IOInv(ZoneIO, told)' /\ (told \in SUBSET Bit)' /\ UNCHANGED level
  BY <1>1, ZoneUnchanged DEF zoneVars, IInv
<1> QED
  BY <1>1, <1>2, ZoneOnly

-----------------------------------------------------------------------------
(* Every handler, every event of the network and every restart keeps IInv. *)
LEMMA NextStep ==
  ASSUME IInv, [Next]_vars
  PROVE  IInv'
<1>1. CASE SampleInputs
  BY <1>1, SampleInputsStep
<1>2. CASE MeasureBattery
  BY <1>2, MeasureBatteryStep
<1>3. CASE HandleButton
  BY <1>3, HandleButtonStep
<1>4. CASE ButtonTime \/ ForcedReport
  BY <1>4, TimersStep
<1>5. CASE Controller
  BY <1>5, ControllerStep
<1>6. CASE Radio
  BY <1>6, RadioStep
<1>7. CASE JoinNetwork \/ LeaveNetwork
  BY <1>7, NetworkStep
<1>8. CASE ConfigureSwitch \/ InputChanges
  BY <1>8, SwitchAndPinsStep
<1>9. CASE Restart
  BY <1>9, RestartStep
<1>10. CASE UNCHANGED vars
  BY <1>10, Stutter
<1> QED
  BY <1>1, <1>2, <1>3, <1>4, <1>5, <1>6, <1>7, <1>8, <1>9, <1>10 DEF Next

LEMMA Invariance == Spec => []IInv
<1>1. IInv /\ [Next]_vars => IInv'
  BY NextStep
<1> QED
  BY Initially, <1>1, PTL DEF Spec

(* The variables keep their types. *)
THEOREM TypeCorrect == Spec => []TypeOK
<1>1. IInv => TypeOK
  BY IInvImplies
<1> QED
  BY Invariance, <1>1, PTL

(* No writer of the shared zone status ever disturbs the bit of another,   *)
(* whatever the order of the handlers (app_smoke.c:103-107, 126-130,       *)
(* 158-162, 180-184; app_button.c; app_battery.c:122-146).                 *)
THEOREM ZoneShowsSources == Spec => []ZoneTracksSources
<1>1. IInv => ZoneTracksSources
  BY IInvImplies
<1> QED
  BY Invariance, <1>1, PTL

(* The controller is told the current status by the last notification that *)
(* was not lost (app_smoke.c:101-111).                                     *)
THEOREM ControllerIsTold == Spec => []ToldWhenQuiet
<1>1. IInv => ToldWhenQuiet
  BY IInvImplies
<1> QED
  BY Invariance, <1>1, PTL

(* Whatever order enrollment, address writes and restarts come in, a       *)
(* notification goes to the coordinator exactly if it carries the invalid  *)
(* zone id (app_smoke.c:60-79).                                            *)
THEOREM NotesAreAddressed == Spec => []NotesAddressedAsEnrolled
<1>1. IInv => NotesAddressedAsEnrolled
  BY IInvImplies
<1> QED
  BY Invariance, <1>1, PTL

(* For every debounce limit, an input that settled with a network and is   *)
(* at an end of its counter is what the controller knows, unless the       *)
(* newest notification is under way or was lost (app_smoke.c:93-111,       *)
(* 116-134, 149-166, 171-188).                                             *)
THEOREM InputsAreSeen == Spec => []ControllerSeesInputs
<1>1. IInv => ControllerSeesInputs
  <2> SUFFICES ASSUME IInv, air = <<>>, ~uninformed,
                      NEW i \in Input, i \notin missed
               PROVE  /\ debounce[i] = Debounce => BitOf[i] \in told
                      /\ debounce[i] = 1 => BitOf[i] \notin told
    BY DEF ControllerSeesInputs
  <2>1. told = zone.status
    BY IInvImplies DEF ToldWhenQuiet
  <2>2. BitOf[i] \in zone.status <=> level[i]
    BY IInvImplies DEF ZoneTracksSources, Input, Source
  <2> QED
    BY <2>1, <2>2, IInvImplies DEF SettledAtTheEnds
<1> QED
  BY Invariance, <1>1, PTL

(* With an explicit action a bound device that gets the commands follows   *)
(* the smoke, through glitches, reconfigurations and restarts              *)
(* (app_smoke.c:35-50).                                                    *)
THEOREM SirenInStep == Spec => []SirenFollowsSmoke
<1>1. IInv => SirenFollowsSmoke
  BY IInvImplies
<1> QED
  BY Invariance, <1>1, PTL

(* For every reading of the ADC and every calibration the battery bit, the *)
(* voltage and the percentage agree (app_battery.c:91-148).                *)
THEOREM BatteryConsistent == Spec => []BatteryAgrees
<1>1. IInv => BatteryAgrees
  BY IInvImplies
<1> QED
  BY Invariance, <1>1, PTL

(* What keeps the MCU awake for the button has an end, whatever number of  *)
(* presses wraps the counter (app_button.c:116-129, 146-157).              *)
THEOREM ButtonEnds == Spec => []BusyHasAnEnd
<1>1. IInv => BusyHasAnEnd
  BY IInvImplies
<1> QED
  BY Invariance, <1>1, PTL

(* Only a key whose release no scan has seen asks for the factory reset:   *)
(* the pressed state is left on every release that a scan reports          *)
(* (app_button.c:116-121, 83-91).                                          *)
THEOREM ResetIsDeliberate == Spec => ResetNeedsHeldKey
<1>1. IInv /\ [Next]_vars => [(resetAsked' /\ ~resetAsked) => keyPressed]_<<resetAsked, keyPressed>>
  <2> SUFFICES ASSUME IInv, Next, resetAsked', ~resetAsked
               PROVE  keyPressed
    BY DEF vars, buttonVars
  <2>1. CASE HandleButton
    <3>1. KeepsPressed
      BY <2>1 DEF HandleButton, button_handler
    <3> QED
      BY <3>1 DEF KeepsPressed, IInv, BusyHasAnEnd
  <2>2. CASE ~HandleButton
    BY <2>2
       DEF Next, SampleInputs, MeasureBattery, ButtonTime, Elapse, ForcedReport,
           forcedReportCb, Controller, ConfigureSwitch, Radio, JoinNetwork,
           LeaveNetwork, ResetLeaves, InputChanges, Restart, buttonVars
  <2> QED
    BY <2>1, <2>2
<1> QED
  BY Invariance, <1>1, PTL DEF Spec, ResetNeedsHeldKey
=============================================================================
