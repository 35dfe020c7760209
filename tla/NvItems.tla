------------------------------ MODULE NvItems ------------------------------
(* What the NV driver owes to those who save with it (app_endpoint_cfg.c,  *)
(* zcl_nv.c, ota.c): each item of a module holds the value of its last     *)
(* write, a write cut off by the power happened or did not, and no write   *)
(* touches another item.  Contents of the past may come back: when the     *)
(* power failed one sector was ready to take over from the other, and now  *)
(* a reset of the module is cut off between the two.                       *)
CONSTANTS
  Item,       \* the item ids of one module
  Value,
  None        \* what an item holds that was never written

VARIABLES
  stored,     \* what a read finds, for each item
  busy,       \* the call that is under way
  late        \* at most one contents that waits in the other sector

vars == <<stored, busy, late>>

Idle == [kind |-> "none", item |-> None, value |-> None]
Writes == [kind : {"write"}, item : Item, value : Value]
Reset == [kind |-> "reset", item |-> None, value |-> None]
Empty == [i \in Item |-> None]

(* The contents a call leaves when it is done.                             *)
Applied(m, call) ==
  IF call.kind = "write" THEN [m EXCEPT ![call.item] = call.value] ELSE Empty

ItemsInit == stored = Empty /\ busy = Idle /\ late = {}

Begins ==
  /\ busy = Idle
  /\ busy' \in Writes \cup {Reset}
  /\ UNCHANGED <<stored, late>>

Prepares ==
  /\ busy.kind = "write"
  /\ late' = {Applied(stored, busy)}
  /\ UNCHANGED <<stored, busy>>

Takes ==
  /\ busy # Idle
  /\ stored' = Applied(stored, busy)
  /\ late' \in {late, {}, {stored}}
  /\ UNCHANGED busy

(* What waited in the other sector is dropped, or a reset that is under    *)
(* way comes upon it.                                                      *)
Forgets == late' = {} /\ UNCHANGED <<stored, busy>>

Uncovers ==
  /\ busy = Reset
  /\ stored' \in late
  /\ late' = {}
  /\ UNCHANGED busy

Ends ==
  /\ busy # Idle
  /\ stored' = Applied(stored, busy)
  /\ late' \in {late, {}}
  /\ busy' = Idle

(* No room is left beside what the other items, and copies of them that    *)
(* could not be removed, take.                                             *)
Refused == busy.kind = "write" /\ busy' = Idle /\ UNCHANGED <<stored, late>>

PowerFails == busy' = Idle /\ UNCHANGED <<stored, late>>

ItemsNext ==
  \/ Begins \/ Prepares \/ Takes \/ Forgets \/ Uncovers \/ Ends
  \/ Refused \/ PowerFails

ItemsSpec == ItemsInit /\ [][ItemsNext]_vars
=============================================================================
