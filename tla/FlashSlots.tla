------------------------------ MODULE FlashSlots ------------------------------
(***************************************************************************)
(* What the two slots of the flash promise: the device always has a whole  *)
(* image to boot, and never writes the one it runs from, whatever happens  *)
(* to the other slot and whenever the power fails.  The OTA client (Ota)   *)
(* implements this specification.                                          *)
(***************************************************************************)
EXTENDS Naturals

CONSTANT Image  \* the contents of a slot that are an image of some version

VARIABLES
  flash,     \* of each slot, the start flag and the contents
  booted,    \* the slot the MCU runs from
  resetting  \* the new image is flagged, the old one still is

slots == <<flash, booted, resetting>>

Slot == {0, 1}
Idle == 1 - booted
IsFlash(f) == f = [s \in Slot |-> [start |-> f[s].start, cell |-> f[s].cell]]
Whole(slot) == slot.cell \in Image

(* The boot ROM takes the first slot with a start flag.  *)
BootSlot(f) == IF f[0].start THEN 0 ELSE 1

SlotsInit ==
  /\ IsFlash(flash)
  /\ booted = 0 /\ resetting = FALSE
  /\ flash[0].start /\ Whole(flash[0])
  /\ ~flash[1].start

(* The idle slot is erased or written; it may lose its flag. *)
Write ==
  /\ ~resetting
  /\ flash' = [flash EXCEPT ![Idle] = flash'[Idle]]
  /\ IsFlash(flash')
  /\ flash'[Idle].start => flash[Idle].start
  /\ UNCHANGED <<booted, resetting>>

(* A whole image is flagged ...  *)
Choose ==
  /\ ~resetting /\ Whole(flash[Idle])
  /\ flash' = [flash EXCEPT ![Idle].start = TRUE]
  /\ resetting' = TRUE
  /\ UNCHANGED booted

Restart == booted' = BootSlot(flash') /\ resetting' = FALSE

(* ... the old one is not any more, and the new one boots. *)
Switch ==
  /\ resetting
  /\ flash' = [flash EXCEPT ![booted].start = FALSE]
  /\ booted' = Idle /\ resetting' = FALSE

PowerFails == UNCHANGED flash /\ Restart

SlotsNext == Write \/ Choose \/ Switch \/ PowerFails

SlotsSpec == SlotsInit /\ [][SlotsNext]_slots

-----------------------------------------------------------------------------
Bootable == flash[BootSlot(flash)].start /\ Whole(flash[BootSlot(flash)])

Untouched ==
  [][flash'[BootSlot(flash)].cell = flash[BootSlot(flash)].cell]_slots
=============================================================================
