------------------------------- MODULE IasZone -------------------------------
(***************************************************************************)
(* The IAS Zone server of endpoint 1: the attributes that every detector   *)
(* of the device shares (g_zcl_iasZoneAttrs), the read-modify-write-notify *)
(* sequence with which a detector publishes a change, the enrollment, and  *)
(* what the radio does with the notifications.                             *)
(*                                                                         *)
(* Four writers share zoneStatus: the smoke input, the tamper input, the   *)
(* button (test bit) and the battery measurement.  Each of them runs to    *)
(* completion in the main loop, so a publication is a single step here.    *)
(*                                                                         *)
(* This module has no next-state relation of its own; the modules of the   *)
(* writers extend it and Sensor composes them.                             *)
(***************************************************************************)
EXTENDS Naturals, Sequences, FiniteSets

CONSTANTS
  ZoneIds,        \* zone ids an enrollment may assign (0 .. 0xFE)
  InvalidZoneId,  \* ZCL_ZONE_ID_INVALID
  Controllers,    \* extended addresses that may be written to IAS_CIE_ADDR
  ZeroAddr,       \* the all-zero initial value of IAS_CIE_ADDR
  Coordinator,    \* short address 0x0000
  MaxAir          \* bound: notifications the stack holds at a time

ASSUME ZoneAssumption ==
  /\ InvalidZoneId \notin ZoneIds
  /\ ZeroAddr \notin Controllers
  /\ Coordinator \notin Controllers \union {ZeroAddr}
  /\ MaxAir \in Nat

VARIABLES
  zone,        \* the attributes of the cluster
  joined,      \* what zb_isDeviceJoinedNwk() answers
  air,         \* notifications handed to the stack, oldest first
  told,        \* the zone status the controller knows of
  uninformed,  \* history: the newest status never left, or was lost on the way
  level,       \* history: the level each source last settled at
  missed       \* history: sources that settled there while not joined

zoneVars == <<zone, joined, air, told, uninformed, level, missed>>

(* The sources of the zone status bits this firmware writes, and the bit   *)
(* each of them owns.                                                      *)
Source == {"smoke", "tamper", "button", "battery"}

BitOf == [smoke |-> "ALARM1", tamper |-> "TAMPER",
          button |-> "TEST", battery |-> "BATTERY"]

Bit == {BitOf[s] : s \in Source} \union {"RESTORE_NOTIFY"}

Destination == Controllers \union {ZeroAddr, Coordinator}

Zone == [enrolled : BOOLEAN, status : SUBSET Bit,
         id : ZoneIds \union {InvalidZoneId},
         cie : Controllers \union {ZeroAddr}]

Notification == [dst : Destination, status : SUBSET Bit,
                 id : ZoneIds \union {InvalidZoneId}]

InitialZone == [enrolled |-> FALSE, status |-> {"RESTORE_NOTIFY"},
                id |-> InvalidZoneId, cie |-> ZeroAddr]

ZoneTypeOK ==
  /\ zone \in Zone
  /\ joined \in BOOLEAN
  /\ air \in Seq(Notification)
  /\ Len(air) <= MaxAir
  /\ told \in SUBSET Bit
  /\ uninformed \in BOOLEAN
  /\ level \in [Source -> BOOLEAN]
  /\ missed \in SUBSET Source

-----------------------------------------------------------------------------
(* Publishing a change.  The operators take and return the part of the     *)
(* state a publication touches, so that a handler that publishes twice in  *)
(* one pass composes them.                                                 *)

ZoneIO == [zone |-> zone, joined |-> joined, air |-> air,
           uninformed |-> uninformed, level |-> level, missed |-> missed]

(* What main() starts from: the attributes are static data, none is in NV. *)
ResetIO(stale) ==
  [zone |-> InitialZone, joined |-> FALSE, air |-> <<>>, uninformed |-> stale,
   level |-> [s \in Source |-> FALSE], missed |-> {}]

ZoneIs(io) ==
  /\ zone = io.zone
  /\ joined = io.joined
  /\ air = io.air
  /\ uninformed = io.uninformed
  /\ level = io.level
  /\ missed = io.missed

SetZoneIO(io) ==
  /\ zone' = io.zone
  /\ joined' = io.joined
  /\ air' = io.air
  /\ uninformed' = io.uninformed
  /\ level' = io.level
  /\ missed' = io.missed

(* Mutant: the zone state is not looked at. *)
AddressUnenrolled(z) == z.cie

(* fillIASAddress: the enrolled controller, or else the coordinator. *)
fillIASAddress(z) == IF z.enrolled THEN z.cie ELSE Coordinator

(* Mutant: the last bit is not cleared but the whole status is. *)
WithBitOnly(status, bit, on) == IF on THEN status \union {bit} ELSE {}

WithBit(status, bit, on) == IF on THEN status \union {bit} ELSE status \ {bit}

(* Mutant: the notification is filled before the bit is changed. *)
NotifyFirst(io, status) ==
  LET sent == io.joined /\ Len(io.air) < MaxAir
      note == [dst |-> fillIASAddress(io.zone), status |-> io.zone.status,
               id |-> io.zone.id]
  IN [io EXCEPT !.zone.status = status,
                !.air = IF sent THEN Append(@, note) ELSE @,
                !.uninformed = ~sent]

(* zcl_setAttrVal(ZONE_STATUS) and zcl_iasZone_statusChangeNotificationCmd *)
(* of one handler.  The handlers ignore the result of the command: without *)
(* a network, or with no room in the stack, the notification is gone.      *)
Notify(io, status) ==
  LET sent == io.joined /\ Len(io.air) < MaxAir
      note == [dst |-> fillIASAddress(io.zone), status |-> status,
               id |-> io.zone.id]
  IN [io EXCEPT !.zone.status = status,
                !.air = IF sent THEN Append(@, note) ELSE @,
                !.uninformed = ~sent]

(* A source settles at a level.  All but the battery look at the network   *)
(* first and do nothing at all, not even set the bit, when not joined.     *)
Settle(io, s, on) ==
  IF io.joined \/ s = "battery"
  THEN [Notify(io, WithBit(io.zone.status, BitOf[s], on))
          EXCEPT !.level[s] = on, !.missed = @ \ {s}]
  ELSE [io EXCEPT !.level[s] = on, !.missed = @ \union {s}]

-----------------------------------------------------------------------------
(* Commands of the controller and events of the network. *)

(* IAS_CIE_ADDR is a writable attribute. *)
WriteCieAddr(a) ==
  /\ joined
  /\ zone' = [zone EXCEPT !.cie = a]
  /\ UNCHANGED <<joined, air, told, uninformed, level, missed>>

(* app_zclIasZoneEnrollRspCmdHandler: the response code is not looked at;  *)
(* any zone id but the invalid one enrolls the device.                     *)
EnrollRsp(id) ==
  /\ joined
  /\ id # InvalidZoneId
  /\ zone' = [zone EXCEPT !.id = id, !.enrolled = TRUE]
  /\ UNCHANGED <<joined, air, told, uninformed, level, missed>>

(* The stack sends in order; the controller takes the notification ... *)
Deliver ==
  /\ air # <<>>
  /\ told' = Head(air).status
  /\ air' = Tail(air)
  /\ UNCHANGED <<zone, joined, uninformed, level, missed>>

(* ... or the stack gives up on it: nobody in the application is told. *)
Lose ==
  /\ air # <<>>
  /\ air' = Tail(air)
  /\ uninformed' = (uninformed \/ Len(air) = 1)
  /\ UNCHANGED <<zone, joined, told, level, missed>>

(* The device gains or loses its network; the zone attributes stay. *)
Join ==
  /\ ~joined
  /\ joined' = TRUE
  /\ UNCHANGED <<zone, air, told, uninformed, level, missed>>

Leave ==
  /\ joined
  /\ joined' = FALSE
  /\ UNCHANGED <<zone, air, told, uninformed, level, missed>>

-----------------------------------------------------------------------------
(* What the shared zone status promises; invariants of every composition.  *)

(* Each bit shows the level its source last settled at, unless the source  *)
(* settled while the device had no network (app_smoke.c:99,122,155,177;    *)
(* app_button.c:64,94): no writer disturbs the bit of another.             *)
ZoneTracksSources ==
  \A s \in Source \ missed : (BitOf[s] \in zone.status) <=> level[s]

(* When the radio is quiet and the newest status was not lost, the         *)
(* controller knows the current status: no handler changes zoneStatus      *)
(* without a notification that carries the new value, and a notification   *)
(* never carries a value that a later one of the same pass overrides.      *)
ToldWhenQuiet ==
  (air = <<>> /\ ~uninformed) => told = zone.status

(* The zone id and the address of a notification are read from three       *)
(* attributes that two commands of the controller write independently      *)
(* (app_smoke.c:60-79, zcl_appCb.c:451-461).  Whatever the order of the    *)
(* commands, the coordinator only gets notifications without a zone id     *)
(* and an enrolled zone never reports to the coordinator.                  *)
NotesAddressedAsEnrolled ==
  \A n \in 1 .. Len(air) :
    (air[n].dst = Coordinator) <=> (air[n].id = InvalidZoneId)
=============================================================================
