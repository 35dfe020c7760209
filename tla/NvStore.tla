------------------------------ MODULE NvStore ------------------------------
(* drv_nv.c: the items of one NV module in two sectors of flash, with a    *)
(* power cut between any two writes to the flash, and within those of an   *)
(* index or an item header.  An entry stands for the index and the item it *)
(* points to; of one that does not hold a valid item only the place counts *)
(* (nv_index_read_op, and the copy of nv_flashWriteNewHandler).  A sector  *)
(* that takes Room entries may be full before for an item that is longer.  *)
(* The flash itself works; a flag and an erase are done or not done.       *)
EXTENDS Naturals, Sequences

CONSTANTS Item, Value, None, Room

ASSUME StoreAssumption == Room \in Nat \ {0} /\ None \notin Item \cup Value

VARIABLES
  flag,       \* usedFlag of each sector
  entries,    \* the index of each sector, with the items
  call,       \* the call the driver works at
  pc,         \* the next thing it does to the flash
  opSect, oldSect,
  next        \* the entry it copies next, or is to set invalid

flash == <<flag, entries>>
ram == <<call, pc, opSect, oldSect, next>>
vars == <<flag, entries, call, pc, opSect, oldSect, next>>

Sectors == {0, 1}
Other(s) == 1 - s
Flags == {"idle", "ready", "valid", "invalid"}
Left(state) == [state |-> state, item |-> None, value |-> None]
Saved(i, v) == [state |-> "valid", item |-> i, value |-> v]
Entry == {Left(s) : s \in {"opened", "torn", "invalid"}}
           \cup [state : {"valid"}, item : Item, value : Value]

Idle == [kind |-> "none", item |-> None, value |-> None]
Read == [kind |-> "read", item |-> None, value |-> None]
Reset == [kind |-> "reset", item |-> None, value |-> None]
Writes == [kind : {"write"}, item : Item, value : Value]
Steps == {"idle", "find", "dedup", "copy", "open", "close", "delete", "flag",
          "retire", "confirm", "erase0", "erase1"}

-----------------------------------------------------------------------------
(* nv_index_read: the last valid entry of an item.                         *)
Holds(es, i, j) == es[j].state = "valid" /\ es[j].item = i
Newest(es, i, j) ==
  /\ j \in 1 .. Len(es)
  /\ Holds(es, i, j)
  /\ \A k \in 1 .. Len(es) : Holds(es, i, k) => k <= j
Kept(es, i) == \E j \in 1 .. Len(es) : Newest(es, i, j)
Index(es, i) == CHOOSE j \in 1 .. Len(es) : Newest(es, i, j)
Lookup(es, i) == IF Kept(es, i) THEN es[Index(es, i)].value ELSE None
Contents(s) == [i \in Item |-> Lookup(entries[s], i)]

(* nv_sector_read takes the first sector that is valid or ready to be.     *)
Usable(s) == flag[s] \in {"ready", "valid"}
HasSector == \E s \in Sectors : Usable(s)
Sector == IF Usable(0) THEN 0 ELSE 1

(* What a read finds, and what waits behind it.                            *)
Stored == IF HasSector THEN Contents(Sector) ELSE [i \in Item |-> None]
Late == IF Usable(0) /\ Usable(1) THEN {Contents(1)} ELSE {}

(* Mutant: one entry more than there is room for. *)
AppendsBehind(s) ==
  /\ Len(entries[s]) <= Room
  /\ entries[s] # <<>> => entries[s][Len(entries[s])].state # "torn"

(* Nothing is appended to a full index, nor behind an index or a header    *)
(* that was cut off: nv_write_item returns NV_ITEM_CHECK_ERROR, and        *)
(* nv_flashWriteNew tries again in the other sector.                       *)
Appends(s) ==
  /\ Len(entries[s]) < Room
  /\ entries[s] # <<>> => entries[s][Len(entries[s])].state # "torn"

Erase(s) ==
  /\ flag' = [flag EXCEPT ![s] = "idle"]
  /\ entries' = [entries EXCEPT ![s] = <<>>]

-----------------------------------------------------------------------------
AtRest ==
  /\ call = Idle /\ pc = "idle"
  /\ opSect = 0 /\ oldSect = 0 /\ next = 0

NvInit ==
  /\ flag = [s \in Sectors |-> "idle"]
  /\ entries = [s \in Sectors |-> <<>>]
  /\ AtRest

Done == call' = Idle /\ pc' = "idle" /\ opSect' = 0 /\ oldSect' = 0 /\ next' = 0

Called ==
  /\ pc = "idle"
  /\ call' \in Writes \cup {Read, Reset}
  /\ pc' = IF call' = Reset THEN "erase0" ELSE "find"
  /\ UNCHANGED <<flash, opSect, oldSect, next>>

(* nv_sector_read of a sector that was ready when the power failed: the    *)
(* other one is set invalid, then this one valid.                          *)
TakesOver ==
  /\ pc = "find" /\ HasSector
  /\ flag[Sector] = "ready"
  /\ flag' = IF flag[Other(Sector)] = "invalid"
               THEN [flag EXCEPT ![Sector] = "valid"]
               ELSE [flag EXCEPT ![Other(Sector)] = "invalid"]
  /\ UNCHANGED <<entries, ram>>

Found == pc = "find" /\ HasSector => flag[Sector] = "valid"

nv_flashReadNew == pc = "find" /\ Found /\ call = Read /\ Done /\ UNCHANGED flash

NoSector ==
  /\ pc = "find" /\ call # Read /\ ~HasSector
  /\ Erase(0)
  /\ opSect' = 0 /\ oldSect' = 0
  /\ pc' = "open"
  /\ UNCHANGED <<call, next>>

SameSector ==
  /\ pc = "find" /\ Found /\ call # Read /\ HasSector
  /\ Appends(Sector)
  /\ opSect' = Sector /\ oldSect' = Sector
  /\ pc' = "open"
  /\ UNCHANGED <<flash, call, next>>

SectorUpdate ==
  /\ pc = "find" /\ Found /\ call # Read /\ HasSector
  /\ entries[Sector] # <<>>
  /\ Erase(Other(Sector))
  /\ opSect' = Other(Sector) /\ oldSect' = Sector
  /\ pc' = "dedup"
  /\ UNCHANGED <<call, next>>

(* nv_exceptionDataHandler: entries with a newer one of their item, which  *)
(* a power cut left, are set invalid one by one, from the last to the      *)
(* first.  Without a buffer none is; here it may end after any.            *)
Shadowed(es) ==
  {j \in 1 .. Len(es) :
     es[j].state = "valid" /\ \E k \in 1 .. Len(es) : k > j /\ Holds(es, es[j].item, k)}

Dedup ==
  /\ pc = "dedup"
  /\ \E j \in Shadowed(entries[oldSect]) :
       /\ \A k \in Shadowed(entries[oldSect]) : k <= j
       /\ entries' = [entries EXCEPT ![oldSect][j] = Left("invalid")]
  /\ UNCHANGED <<flag, ram>>

DedupEnds == pc = "dedup" /\ pc' = "copy" /\ next' = 1 /\ UNCHANGED <<flash, call, opSect, oldSect>>

CopyItem ==
  /\ pc = "copy" /\ next <= Len(entries[oldSect])
  /\ LET e == entries[oldSect][next] IN
       entries' = IF e.state = "valid" /\ e.item # call.item
                    THEN [entries EXCEPT ![opSect] = Append(@, e)] ELSE entries
  /\ next' = next + 1
  /\ UNCHANGED <<flag, call, pc, opSect, oldSect>>

(* The write is refused when the new item does not fit behind the others.   *)
CopyEnds ==
  /\ pc = "copy" /\ next > Len(entries[oldSect])
  /\ \/ /\ Len(entries[opSect]) < Room
        /\ pc' = "open"
        /\ UNCHANGED <<call, opSect, oldSect, next>>
     \/ Done
  /\ UNCHANGED flash

(* nv_write_item: the index with ITEM_FIELD_OPERATION, then item and       *)
(* header, then the state of the index.  The entry it replaces was looked  *)
(* up before.                                                              *)
OpenItem ==
  /\ pc = "open"
  /\ next' = IF Kept(entries[opSect], call.item)
               THEN Index(entries[opSect], call.item) ELSE 0
  /\ entries' = [entries EXCEPT ![opSect] = Append(@, Left("opened"))]
  /\ pc' = "close"
  /\ UNCHANGED <<flag, call, opSect, oldSect>>

CloseItem ==
  /\ pc = "close"
  /\ entries' = [entries EXCEPT ![opSect][Len(entries[opSect])] = Saved(call.item, call.value)]
  /\ pc' = "delete"
  /\ UNCHANGED <<flag, call, opSect, oldSect, next>>

DeleteOld ==
  /\ pc = "delete"
  /\ entries' = IF next = 0 THEN entries
                  ELSE [entries EXCEPT ![opSect][next] = Left("invalid")]
  /\ pc' = "flag"
  /\ UNCHANGED <<flag, call, opSect, oldSect, next>>

(* Mutant: the old sector is set invalid before the new one is ready. *)
RetiresFirst ==
  /\ pc = "flag" /\ opSect # oldSect
  /\ flag' = [flag EXCEPT ![oldSect] = "invalid"]
  /\ pc' = "retire"
  /\ UNCHANGED <<entries, call, opSect, oldSect, next>>

(* A sector that was changed to is ready before the old one is set         *)
(* invalid; the first entry of the first sector makes it valid at once.    *)
SameFlag ==
  /\ pc = "flag" /\ opSect = oldSect
  /\ flag' = IF Len(entries[opSect]) = 1 THEN [flag EXCEPT ![opSect] = "valid"] ELSE flag
  /\ Done
  /\ UNCHANGED entries

ReadyFlag ==
  /\ pc = "flag" /\ opSect # oldSect
  /\ flag' = [flag EXCEPT ![opSect] = "ready"]
  /\ pc' = "retire"
  /\ UNCHANGED <<entries, call, opSect, oldSect, next>>

RetireFlag ==
  /\ pc = "retire"
  /\ flag' = [flag EXCEPT ![oldSect] = "invalid"]
  /\ pc' = "confirm"
  /\ UNCHANGED <<entries, call, opSect, oldSect, next>>

ConfirmFlag ==
  /\ pc = "confirm"
  /\ flag' = [flag EXCEPT ![opSect] = "valid"]
  /\ Done
  /\ UNCHANGED entries

(* nv_resetModule.                                                         *)
EraseFirst ==
  /\ pc = "erase0"
  /\ Erase(0)
  /\ pc' = "erase1"
  /\ UNCHANGED <<call, opSect, oldSect, next>>

EraseSecond == pc = "erase1" /\ Erase(1) /\ Done

(* The power fails, maybe within the write of an index or of a header.     *)
PowerFails ==
  /\ \/ UNCHANGED entries
     \/ /\ pc = "open"
        /\ entries' = [entries EXCEPT ![opSect] = Append(@, Left("torn"))]
     \/ /\ pc = "close"
        /\ entries' = [entries EXCEPT ![opSect][Len(entries[opSect])] = Left("torn")]
  /\ UNCHANGED flag
  /\ Done

NvNext ==
  \/ Called \/ TakesOver \/ nv_flashReadNew
  \/ NoSector \/ SameSector \/ SectorUpdate \/ Dedup \/ DedupEnds
  \/ CopyItem \/ CopyEnds \/ OpenItem \/ CloseItem \/ DeleteOld
  \/ SameFlag \/ ReadyFlag \/ RetireFlag \/ ConfirmFlag
  \/ EraseFirst \/ EraseSecond \/ PowerFails

NvSpec == NvInit /\ [][NvNext]_vars

-----------------------------------------------------------------------------
NvTypeOK ==
  /\ flag \in [Sectors -> Flags]
  /\ entries \in [Sectors -> Seq(Entry)]
  /\ \A s \in Sectors : Len(entries[s]) <= Room
  /\ call \in Writes \cup {Idle, Read, Reset}
  /\ pc \in Steps
  /\ opSect \in Sectors /\ oldSect \in Sectors /\ next \in Nat

(* Whatever was cut off, in whatever order, an item holds the value of its *)
(* last write, or of one that was cut off, and so do all others            *)
(* (drv_nv.c:204-257, 568-780).                                            *)
Items == INSTANCE NvItems WITH
           stored <- Stored,
           busy <- IF call = Read THEN Idle ELSE call,
           late <- Late
ImplementsItems == Items!ItemsSpec
=============================================================================
