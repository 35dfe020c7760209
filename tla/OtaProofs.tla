------------------------------- MODULE OtaProofs ------------------------------
(***************************************************************************)
(* For any versions, file sizes, retries and queue of tasks: the OTA       *)
(* client implements FlashSlots, and so the device always has a whole      *)
(* image to boot and never writes the one it runs from.  Nothing of the    *)
(* client's own state matters for this: a handler may do with the idle     *)
(* slot what it likes, as long as the start flag goes on after a whole     *)
(* check.  The second half is about the client itself: what its status,    *)
(* progress and timer have to do with each other (Consistent), and when it *)
(* falls silent (Asks).                                                    *)
(***************************************************************************)
EXTENDS Ota, TLAPS

(* The slot that runs is whole and flagged.  Both are flagged only between *)
(* the two writes, or after a power failure there; then slot 0 runs, or    *)
(* slot 1 runs and the change to slot 0 is under way.                      *)
Sound ==
  /\ booted \in Slot /\ resetting \in BOOLEAN
  /\ Slots!IsFlash(flash)
  /\ flash[booted].start /\ Slots!Whole(flash[booted])
  /\ flash[0].start /\ booted = 1 => resetting
  /\ resetting => flash[Idle].start /\ Slots!Whole(flash[Idle])

LEMMA SoundInit == Slots!SlotsInit => Sound
  BY DEF Slots!SlotsInit, Sound, Slot, Slots!Slot

(* A slot with another flag. *)
Flagged(f, slot, flag) ==
  [s \in Slot |->
     [start |-> IF s = slot THEN flag ELSE f[s].start, cell |-> f[s].cell]]

LEMMA FlagIt ==
  ASSUME NEW f, Slots!IsFlash(f), NEW slot \in Slot, NEW flag
  PROVE  [f EXCEPT ![slot].start = flag] = Flagged(f, slot, flag)
<1> DEFINE rec(s) == [start |-> f[s].start, cell |-> f[s].cell]
           new == [f[slot] EXCEPT !.start = flag]
<1>1. f = [s \in Slot |-> rec(s)]
  BY DEF Slots!IsFlash, Slot
<1>2. \A s \in Slot : f[s] = rec(s)
  BY <1>1, Zenon
<1>3. new = [start |-> flag, cell |-> f[slot].cell]
  <2>1. f[slot] = rec(slot)
    BY <1>2
  <2>2. [rec(slot) EXCEPT !.start = flag] = [start |-> flag, cell |-> f[slot].cell]
    OBVIOUS
  <2> QED BY <2>1, <2>2, Zenon
<1>4. [f EXCEPT ![slot] = new] = [s \in Slot |-> IF s = slot THEN new ELSE rec(s)]
  <2> HIDE DEF new
  <2> QED BY <1>1, <1>2
<1>5. [f EXCEPT ![slot].start = flag] = [f EXCEPT ![slot] = new]
  OBVIOUS
<1>6. \A s \in Slot :
        (IF s = slot THEN new ELSE rec(s))
          = [start |-> IF s = slot THEN flag ELSE f[s].start, cell |-> f[s].cell]
  BY <1>3
<1> HIDE DEF new, rec
<1> QED BY <1>4, <1>5, <1>6 DEF Flagged

LEMMA SoundStep == Sound /\ [Slots!SlotsNext]_Slots!slots => Sound'
<1> SUFFICES ASSUME Sound, [Slots!SlotsNext]_Slots!slots
             PROVE  Sound'
  OBVIOUS
<1>0. /\ Slots!IsFlash(flash)
      /\ booted \in Slot /\ Idle \in Slot /\ Idle # booted
      /\ \A s \in Slot : s = booted \/ s = Idle
  BY DEF Sound, Idle, Slots!Idle, Slot, Slots!Slot
<1>1. CASE Slots!Write
  BY <1>1 DEF Slots!Write, Sound, Slots!IsFlash, Slots!Whole,
              Idle, Slots!Idle, Slot, Slots!Slot
<1>2. CASE Slots!Choose
  <2> DEFINE g == Flagged(flash, Idle, TRUE)
  <2>1. flash' = g
    <3>1. flash' = [flash EXCEPT ![Idle].start = TRUE]
      BY <1>2 DEF Slots!Choose, Idle
    <3> QED BY <1>0, <3>1, FlagIt, Zenon
  <2>2. /\ Slots!IsFlash(g) /\ g[Idle].start = TRUE
        /\ \A s \in Slot : g[s].cell = flash[s].cell
        /\ g[booted].start = flash[booted].start
    <3> USE DEF Flagged
    <3>1. Slots!IsFlash(g)
      BY DEF Slots!IsFlash, Slot
    <3> QED BY <1>0, <3>1
  <2> HIDE DEF g
  <2> QED BY <1>0, <1>2, <2>1, <2>2 DEF Slots!Choose, Sound, Slots!Whole,
              Idle, Slots!Idle, Slot, Slots!Slot
<1>3. CASE Slots!Switch
  <2> DEFINE g == Flagged(flash, booted, FALSE)
  <2>1. flash' = g
    <3>1. flash' = [flash EXCEPT ![booted].start = FALSE]
      BY <1>3 DEF Slots!Switch
    <3> QED BY <1>0, <3>1, FlagIt, Zenon
  <2>2. /\ Slots!IsFlash(g) /\ g[booted].start = FALSE
        /\ \A s \in Slot : g[s].cell = flash[s].cell
        /\ g[Idle].start = flash[Idle].start
    <3> USE DEF Flagged
    <3>1. Slots!IsFlash(g)
      BY DEF Slots!IsFlash, Slot
    <3> QED BY <1>0, <3>1
  <2> HIDE DEF g
  <2> QED BY <1>0, <1>3, <2>1, <2>2 DEF Slots!Switch, Sound, Slots!Whole,
              Idle, Slots!Idle, Slot, Slots!Slot
<1>4. CASE Slots!PowerFails
  <2>1. /\ flash' = flash /\ resetting' = FALSE
        /\ flash[0].start => booted' = 0
        /\ ~flash[0].start => booted' = 1
    BY <1>4 DEF Slots!PowerFails, Slots!Restart, Slots!BootSlot
  <2>2. Slots!IsFlash(flash')
    BY <1>0, <2>1, Zenon DEF Slots!IsFlash, Slots!Slot
  <2>3. booted' \in Slot /\ resetting' \in BOOLEAN /\ ~resetting'
    BY <2>1 DEF Slot, Slots!Slot
  <2>4. flash[0].start /\ booted = 1 => Slots!Whole(flash[0])
    BY DEF Sound, Idle, Slots!Idle
  <2>5. flash'[booted'].start /\ Slots!Whole(flash'[booted'])
    BY <1>0, <2>1, <2>4 DEF Sound, Slots!Whole, Slot, Slots!Slot
  <2>6. ~(flash'[0].start /\ booted' = 1)
    BY <2>1
  <2> QED BY <2>2, <2>3, <2>5, <2>6 DEF Sound
<1>5. CASE UNCHANGED Slots!slots
  <2>1. Slots!IsFlash(flash') /\ Idle' = Idle
    BY <1>0, <1>5 DEF Slots!slots, Slots!IsFlash, Idle, Slots!Idle, Slot, Slots!Slot
  <2> QED BY <1>5, <2>1 DEF Slots!slots, Sound, Slots!Whole
<1> QED BY <1>1, <1>2, <1>3, <1>4, <1>5 DEF Slots!SlotsNext

LEMMA SoundBoots == Sound => AlwaysBootable
  BY DEF Sound, AlwaysBootable, Slots!Bootable, Slots!BootSlot,
         Slot, Slots!Slot, Idle, Slots!Idle

LEMMA SoundKeeps ==
  Sound /\ [Slots!SlotsNext]_Slots!slots
    => [flash'[Slots!BootSlot(flash)].cell = flash[Slots!BootSlot(flash)].cell]_Slots!slots
<1> SUFFICES ASSUME Sound, Slots!SlotsNext
             PROVE  flash'[Slots!BootSlot(flash)].cell = flash[Slots!BootSlot(flash)].cell
  OBVIOUS
<1> USE DEF Slot, Slots!Slot, Idle, Slots!Idle
<1> USE DEF Sound, Slots!IsFlash, Slots!BootSlot
<1>1. CASE Slots!Write
  BY <1>1 DEF Slots!Write
<1>2. CASE Slots!Choose
  BY <1>2 DEF Slots!Choose
<1>3. CASE Slots!Switch
  BY <1>3 DEF Slots!Switch
<1>4. CASE Slots!PowerFails
  BY <1>4 DEF Slots!PowerFails
<1> QED BY <1>1, <1>2, <1>3, <1>4 DEF Slots!SlotsNext

-----------------------------------------------------------------------------
(* Steps of the client as steps of the slots. *)

(* Whatever becomes of the idle slot, as long as it gets no flag. *)
LEMMA IdleStep ==
  ASSUME Sound, ~resetting,
         NEW rec, rec = [start |-> rec.start, cell |-> rec.cell],
         rec.start => flash[Idle].start,
         flash' = [flash EXCEPT ![Idle] = rec],
         UNCHANGED <<booted, resetting>>
  PROVE  [Slots!SlotsNext]_Slots!slots
<1>1. Idle \in Slot /\ Slots!IsFlash(flash)
  BY DEF Sound, Idle, Slots!Idle, Slot, Slots!Slot
<1>2. flash = [s \in Slot |-> [start |-> flash[s].start, cell |-> flash[s].cell]]
  BY <1>1 DEF Slots!IsFlash, Slot
<1>3. /\ flash'[Idle] = rec
      /\ \A s \in Slot : flash'[s] = IF s = Idle THEN rec ELSE flash[s]
  <2>1. DOMAIN flash = Slot
    BY <1>2, Zenon
  <2> QED BY <1>1, <2>1
<1>4. flash' = [s \in Slot |-> [start |-> flash'[s].start, cell |-> flash'[s].cell]]
  <2>1. \A s \in Slot : flash'[s] = [start |-> flash'[s].start, cell |-> flash'[s].cell]
    BY <1>1, <1>2, <1>3
  <2>2. flash' = [s \in Slot |-> flash'[s]]
    BY <1>1, <1>2
  <2> QED BY <2>1, <2>2
<1>5. Slots!Write
  BY <1>1, <1>3, <1>4 DEF Slots!Write, Slots!IsFlash, Idle, Slot
<1> QED BY <1>5 DEF Slots!SlotsNext

LEMMA WrittenStep ==
  ASSUME Sound, ~resetting, NEW c,
         flash' = Written(c, flash), UNCHANGED <<booted, resetting>>
  PROVE  [Slots!SlotsNext]_Slots!slots
<1> DEFINE i == c.info.pos + 1
           v == IF flash[Idle].cell[i] \in {"erased", Due(c)} THEN Due(c) ELSE "garbled"
           cell == [flash[Idle].cell EXCEPT ![i] = v]
<1>1. flash' = [flash EXCEPT ![Idle].cell[i] = v]
  BY DEF Written
<1> HIDE DEF i, v
<1>2. Idle \in Slot /\ Slots!IsFlash(flash)
  BY DEF Sound, Idle, Slots!Idle, Slot, Slots!Slot
<1>3. flash[Idle] = [start |-> flash[Idle].start, cell |-> flash[Idle].cell]
  BY <1>2 DEF Slots!IsFlash, Slot
<1> DEFINE rec == [start |-> flash[Idle].start, cell |-> cell]
<1>4. [flash[Idle] EXCEPT !.cell[i] = v] = rec
  BY <1>3
<1>5. flash' = [flash EXCEPT ![Idle] = rec]
  BY <1>1, <1>4
<1>6. rec = [start |-> rec.start, cell |-> rec.cell] /\ rec.start = flash[Idle].start
  OBVIOUS
<1> HIDE DEF rec
<1> QED BY <1>5, <1>6, IdleStep

(* The end of a download that succeeds: nothing but the flag. *)
LEMMA SuccessStep ==
  ASSUME Sound, ~resetting, Completes(flash, "SUCCESS")
  PROVE  [Slots!SlotsNext]_Slots!slots
<1>1. PICK flagged \in BOOLEAN :
        /\ flagged => ota_newImageValid(flash)
        /\ flash' = IF flagged THEN [flash EXCEPT ![Idle].start = TRUE] ELSE flash
        /\ resetting' = flagged /\ booted' = booted
  BY Zenon DEF Completes
<1>2. CASE flagged
  <2>1. /\ ota_newImageValid(flash)
        /\ flash' = [flash EXCEPT ![Idle].start = TRUE]
        /\ resetting' = TRUE /\ booted' = booted
    BY <1>1, <1>2, Zenon
  <2> QED BY <2>1, Zenon
          DEF ota_newImageValid, Slots!SlotsNext, Slots!Choose, Idle
<1>3. CASE ~flagged
  BY <1>1, <1>3 DEF Sound, Slots!slots
<1> QED BY <1>2, <1>3

(* ... and of one that fails: what its handler wrote.  *)
LEMMA FailureStep ==
  ASSUME Sound, ~resetting,
         NEW f, NEW status \in {"ABORT", "INVALID"}, Completes(f, status)
  PROVE  flash' = f /\ UNCHANGED <<booted, resetting>>
<1>1. flash' = f /\ resetting' = FALSE /\ booted' = booted
  BY Zenon DEF Completes
<1> QED BY <1>1 DEF Sound

LEMMA KeptStep ==
  ASSUME UNCHANGED <<flash, booted, resetting>>
  PROVE  [Slots!SlotsNext]_Slots!slots
  BY DEF Slots!slots

LEMMA OnlyStep ==
  ASSUME NEW c, Only(c)
  PROVE  [Slots!SlotsNext]_Slots!slots
  BY KeptStep DEF Only, theRest, kept

(* What comes with a block. *)
LEMMA BlockStep ==
  ASSUME Sound, ~resetting, NEW ok, BlockRsp(ok)
  PROVE  [Slots!SlotsNext]_Slots!slots
<1> USE KeptStep
<1>1. ASSUME NEW c, Element(c, ok) PROVE [Slots!SlotsNext]_Slots!slots
  <2>1. CASE flash' = Written(c, flash) /\ UNCHANGED <<booted, resetting>>
    BY <2>1, WrittenStep
  <2>2. CASE Completes(Written(c, flash), "INVALID")
    BY <2>1, <2>2, FailureStep
  <2> QED BY <1>1, <2>1, <2>2 DEF Element, ota_upgradeComplete
<1>2. CASE HeaderBegins
  BY <1>2 DEF HeaderBegins, theRest, kept
<1>3. CASE HeaderEnds(ok)
  BY <1>1, <1>3 DEF HeaderEnds
<1>4. CASE ElementGoesOn(ok)
  BY <1>1, <1>4 DEF ElementGoesOn
<1>5. CASE PassedOver
  BY <1>5 DEF PassedOver, theRest, kept
<1>6. CASE Rejected
  BY <1>6, FailureStep DEF Rejected, ota_upgradeComplete
<1> QED BY <1>2, <1>3, <1>4, <1>5, <1>6 DEF BlockRsp

(* The restart in the middle boots the new image. *)
LEMMA SwitchBoots ==
  ASSUME Sound, Reboot
  PROVE  booted' = Slots!Idle
<1>1. /\ resetting /\ flash[Idle].start
      /\ flash' = [flash EXCEPT ![booted].start = FALSE]
      /\ booted' = mcuBootAddrGet(flash')
  BY DEF Reboot, OtaRestart, Sound
<1>2. /\ booted \in Slot /\ Idle \in Slot /\ Idle # booted
      /\ Slots!IsFlash(flash)
  BY DEF Sound, Idle, Slots!Idle, Slot, Slots!Slot
<1>3. flash' = Flagged(flash, booted, FALSE)
  BY <1>1, <1>2, FlagIt, Zenon
<1>4. flash'[booted].start = FALSE /\ flash'[Idle].start = flash[Idle].start
  BY <1>2, <1>3 DEF Flagged
<1> QED BY <1>1, <1>2, <1>4 DEF mcuBootAddrGet, Idle, Slots!Idle, Slot, Slots!Slot

(* The answers of the server. *)
LEMMA ServerStep ==
  ASSUME Sound, Server
  PROVE  [Slots!SlotsNext]_Slots!slots
<1> USE KeptStep, SuccessStep, FailureStep DEF kept, theRest
<1>0. ~resetting
  BY DEF Server, QueryNextImageRsp, OfferedAgain, Resume, StartOver, Offered,
         NoOffer, ImageBlockRsp, UpgradeEndRsp, NwkAddrRsp, IeeeAddrRsp, Hears, Runs
<1>1. ASSUME NEW v, OfferedAgain(v) PROVE [Slots!SlotsNext]_Slots!slots
  BY <1>0, <1>1 DEF OfferedAgain, ota_upgradeComplete
<1>2. ASSUME NEW v, Resume(v) PROVE [Slots!SlotsNext]_Slots!slots
  BY <1>2 DEF Resume
<1>3. ASSUME NEW v, NEW buffer, StartOver(v, buffer) PROVE [Slots!SlotsNext]_Slots!slots
  <2>1. flash' = [flash EXCEPT ![Idle] = Erased] /\ UNCHANGED <<booted, resetting>>
    BY <1>3 DEF StartOver
  <2>2. Erased = [start |-> Erased.start, cell |-> Erased.cell] /\ ~Erased.start
    BY DEF Erased
  <2> QED BY <1>0, <2>1, <2>2, IdleStep
<1>4. CASE NoOffer
  BY <1>4 DEF NoOffer
<1>5. CASE ImageBlockRsp
  <2>1. CASE ForeignBlock
    BY <2>1 DEF ForeignBlock
  <2>2. CASE WaitForData
    BY <2>2 DEF WaitForData
  <2>3. CASE ServerAborts
    BY <1>0, <2>3 DEF ServerAborts, ota_upgradeComplete
  <2>4. ASSUME NEW ok, BlockRsp(ok) PROVE [Slots!SlotsNext]_Slots!slots
    BY <1>0, <2>4, BlockStep
  <2> QED BY <1>5, <2>1, <2>2, <2>3, <2>4 DEF ImageBlockRsp
<1>6. CASE UpgradeEndRsp
  BY <1>0, <1>6 DEF UpgradeEndRsp, ImageDone, ota_upgradeComplete
<1>7. CASE NwkAddrRsp
  BY <1>7 DEF NwkAddrRsp
<1>8. ASSUME NEW ok, IeeeAddrRsp(ok) PROVE [Slots!SlotsNext]_Slots!slots
  BY <1>0, <1>8 DEF IeeeAddrRsp, ota_upgradeComplete
<1> QED BY <1>1, <1>2, <1>3, <1>4, <1>5, <1>6, <1>7, <1>8 DEF Server, QueryNextImageRsp

LEMMA TimerStep ==
  ASSUME Sound, TimerExpires
  PROVE  [Slots!SlotsNext]_Slots!slots
<1> USE OnlyStep, SuccessStep, FailureStep, KeptStep
<1>0. ~resetting
  BY DEF TimerExpires, ota_periodicQueryServerCb, ota_ieeeAddrRspWait,
         ota_imageBlockRspWait, ota_sendImageBlockReqDelay, ota_imageBlockWaitCb,
         ota_upgradeWaitCb, Expires, Runs
<1>1. CASE ota_periodicQueryServerCb
  BY <1>1 DEF ota_periodicQueryServerCb
<1>2. CASE ota_ieeeAddrRspWait
  BY <1>0, <1>2 DEF ota_ieeeAddrRspWait
<1>3. CASE ota_imageBlockRspWait
  BY <1>3 DEF ota_imageBlockRspWait
<1>4. CASE ota_sendImageBlockReqDelay
  BY <1>4 DEF ota_sendImageBlockReqDelay
<1>5. CASE ota_imageBlockWaitCb
  BY <1>5 DEF ota_imageBlockWaitCb
<1>6. CASE ota_upgradeWaitCb
  BY <1>0, <1>6 DEF ota_upgradeWaitCb, ota_upgradeComplete
<1> QED BY <1>1, <1>2, <1>3, <1>4, <1>5, <1>6 DEF TimerExpires

LEMMA TaskStep ==
  ASSUME Sound, TaskRuns
  PROVE  [Slots!SlotsNext]_Slots!slots
<1> USE OnlyStep, FailureStep, KeptStep
<1>1. CASE SendBlockReq
  BY <1>1 DEF SendBlockReq
<1>2. CASE AskAddress \/ ota_upgradeWithWait
  BY <1>2 DEF AskAddress, ota_upgradeWithWait
<1>3. CASE ota_imageBlockRspTimeout
  BY <1>3 DEF ota_imageBlockRspTimeout, ota_upgradeComplete, Runnable, Runs
<1>4. CASE ota_saveUpdateInfo2NV
  BY <1>4 DEF ota_saveUpdateInfo2NV
<1> QED BY <1>1, <1>2, <1>3, <1>4 DEF TaskRuns

LEMMA OtaStep ==
  ASSUME Sound, [OtaNext]_otaVars
  PROVE  [Slots!SlotsNext]_Slots!slots
<1> USE KeptStep DEF kept
<1>1. CASE Joined \/ KeyPressed \/ PollTimer
  BY <1>1 DEF Joined, KeyPressed, PollTimer
<1>2. CASE Reboot
  <2>1. Slots!Switch
    BY <1>2, SwitchBoots DEF Reboot, OtaRestart, Slots!Switch
  <2> QED BY <2>1 DEF Slots!SlotsNext
<1>3. CASE PowerCut
  <2>1. Slots!PowerFails
    BY <1>3 DEF PowerCut, OtaRestart, mcuBootAddrGet, Slots!PowerFails,
                Slots!Restart, Slots!BootSlot
  <2> QED BY <2>1 DEF Slots!SlotsNext
<1>4. CASE UNCHANGED otaVars
  BY <1>4 DEF otaVars, theRest
<1> QED BY <1>1, <1>2, <1>3, <1>4, ServerStep, TimerStep, TaskStep DEF OtaNext

-----------------------------------------------------------------------------
LEMMA OtaStart == OtaInit => Slots!SlotsInit
<1> SUFFICES ASSUME OtaInit PROVE Slots!SlotsInit
  OBVIOUS
<1> DEFINE made == [i \in 1 .. Blocks |-> Shipped]
<1>1. made \in Image
  BY OtaAssumption DEF Image
<1>2. flash = [s \in Slot |-> IF s = 0 THEN [start |-> TRUE, cell |-> made]
                                         ELSE Erased]
  BY DEF OtaInit
<1> HIDE DEF made
<1>3. /\ flash[0] = [start |-> TRUE, cell |-> made]
      /\ flash[1] = Erased
      /\ \A s \in Slot : flash[s] = [start |-> flash[s].start, cell |-> flash[s].cell]
  <2>1. flash[0] = [start |-> TRUE, cell |-> made] /\ flash[1] = Erased
    BY <1>2 DEF Slot, Slots!Slot
  <2>2. Erased = [start |-> Erased.start, cell |-> Erased.cell]
    BY DEF Erased
  <2>3. flash[0] = [start |-> flash[0].start, cell |-> flash[0].cell]
    BY <2>1
  <2> QED BY <2>1, <2>2, <2>3 DEF Slot, Slots!Slot
<1>4. Slots!IsFlash(flash)
  <2>1. flash = [s \in Slot |-> flash[s]]
    BY <1>2
  <2> QED BY <1>3, <2>1 DEF Slots!IsFlash, Slot
<1>5. flash[0].start /\ Slots!Whole(flash[0]) /\ ~flash[1].start
  BY <1>1, <1>3 DEF Slots!Whole, Erased
<1> QED BY <1>4, <1>5 DEF OtaInit, Slots!SlotsInit

(* In every run of the client the slot that runs holds a flagged whole     *)
(* image, and so does the other one between the writes of the two flags    *)
(* (ota.c:207-222).                                                        *)
THEOREM SlotsSound == OtaSpec => []Sound
<1>1. OtaInit => Sound
  BY OtaStart, SoundInit
<1>2. Sound /\ [OtaNext]_otaVars => Sound'
  BY OtaStep, SoundStep
<1> QED BY <1>1, <1>2, PTL DEF OtaSpec

(* The client implements the specification of the slots (ota.c:138-231).   *)
THEOREM OtaImplementsSlots == OtaSpec => ImplementsSlots
<1>1. Sound /\ [OtaNext]_otaVars => [Slots!SlotsNext]_Slots!slots
  BY OtaStep
<1> QED BY <1>1, OtaStart, SlotsSound, PTL DEF OtaSpec, ImplementsSlots, Slots!SlotsSpec

(* Whatever the server answers and whenever the power fails, the slot the  *)
(* boot ROM takes holds a whole image (ota.c:138-231, 1404-1480).          *)
THEOREM OtaAlwaysBootable == OtaSpec => []AlwaysBootable
  BY SlotsSound, SoundBoots, PTL

(* No step of the client writes the slot the boot ROM would take           *)
(* (ota.c:126-135, 1044, 1452).                                            *)
THEOREM OtaRunningUntouched == OtaSpec => RunningUntouched
<1>1. Sound /\ [OtaNext]_otaVars
        => [flash'[Slots!BootSlot(flash)].cell = flash[Slots!BootSlot(flash)].cell]_Slots!slots
  BY OtaStep, SoundKeeps
<1> QED BY <1>1, SlotsSound, PTL DEF OtaSpec, RunningUntouched, Slots!Untouched
-----------------------------------------------------------------------------
(* The state of the client between two steps.  A download knows its        *)
(* version and is never ahead of what it has stored; what follows on it    *)
(* has the whole image; and only a download pauses.                        *)
Clients ==
  [status : Status, info : Info, offset : 0 .. Size,
   ver : Version \union {None}, header : BOOLEAN,
   server : BOOLEAN, period : BOOLEAN, asked : BOOLEAN,
   timer : Timer, tasks : Seq(Task),
   blockRetry : 0 .. BlockRetries, endRetry : 0 .. EndRetries,
   addrCnt : 0 .. AddrRetries - 1, saveCnt : 0 .. SaveEvery - 1]

Consistent(c) ==
  /\ c.status = "IN_PROGRESS" \/ c.info.flag # "INIT_DONE" => c.ver \in Version
  /\ c.info.flag = "ELEMENT" => c.offset <= c.info.pos + 1
  /\ c.status \in {"COMPLETE", "WAITING", "COUNT_DOWN"} => c.info.pos = Blocks
  /\ c.timer = "wait" => c.status \in {"IN_PROGRESS", "NORMAL"}

Good(c) == c \in Clients /\ Consistent(c)

LEMMA Bounds ==
  /\ Blocks \in Nat \ {0} /\ SaveEvery \in Nat \ {0} /\ BlockRetries \in Nat \ {0}
  /\ EndRetries \in Nat \ {0} /\ AddrRetries \in Nat \ {0}
  /\ Size = Blocks + 1
  BY OtaAssumption DEF Size

LEMMA NoneTimer == \A t \in {"query", "addr", "block", "delay", "wait", "upgrade"} :
                     t \in Timer /\ t # None
  BY DEF Timer, None

(* The pieces of the handlers. *)
LEMMA PostGood ==
  ASSUME NEW c, Good(c), NEW task \in Task
  PROVE  Good(Post(c, task))
<1> DEFINE tasks == Append(c.tasks, task)
<1>1. tasks \in Seq(Task)
  BY DEF Good, Clients
<1>2. Post(c, task) = [c EXCEPT !.tasks = tasks]
  BY DEF Post
<1> HIDE DEF tasks
<1>3. [c EXCEPT !.tasks = tasks] \in Clients
  BY <1>1 DEF Good, Clients
<1>4. Consistent([c EXCEPT !.tasks = tasks])
  BY DEF Good, Clients, Consistent
<1> QED BY <1>2, <1>3, <1>4 DEF Good

LEMMA TimerGood ==
  ASSUME NEW c, Good(c), NEW t \in Timer, t # "wait"
  PROVE  /\ Good([c EXCEPT !.timer = t])
         /\ [c EXCEPT !.timer = t].timer = t
  BY DEF Good, Clients, Consistent

LEMMA SendGood ==
  ASSUME NEW c, Good(c)
  PROVE  /\ Good(sendImageBlockReq(c)) /\ Good(ota_sendImageBlockReq(c))
         /\ sendImageBlockReq(c).timer = "block"
         /\ ota_sendImageBlockReq(c).timer \in {"block", "delay"}
<1>1. "block" \in Timer /\ "delay" \in Timer
  BY DEF Timer
<1> QED BY <1>1, TimerGood DEF sendImageBlockReq, ota_sendImageBlockReq

LEMMA QueryGood ==
  ASSUME NEW c, Good(c)
  PROVE  Good(ota_queryStart(c)) /\ ota_queryStart(c).timer # None
<1>1. "query" \in Timer
  BY DEF Timer
<1> QED BY <1>1, TimerGood DEF ota_queryStart, None

(* The end of a download, and after it the next query. *)
LEMMA CompletedGood ==
  ASSUME NEW c, Good(c)
  PROVE  /\ Good(Completed(c, "SUCCESS"))
         /\ Good(Completed(c, "ABORT"))
         /\ Completed(c, "SUCCESS").timer = c.timer
         /\ Completed(c, "SUCCESS").tasks = c.tasks
         /\ Completed(c, "ABORT").timer # None
<1> DEFINE done == [c EXCEPT !.header = FALSE, !.status = "NORMAL"]
<1>1. Good(done) /\ done.timer = c.timer /\ done.tasks = c.tasks
  BY DEF Good, Clients, Consistent, Status
<1>2. Completed(c, "SUCCESS") = done /\ Completed(c, "ABORT") = ota_queryStart(done)
  BY DEF Completed
<1> HIDE DEF done
<1> QED BY <1>1, <1>2, QueryGood

(* The parser of an invalid image starts anew, whatever it had come to. *)
LEMMA RefusedGood ==
  ASSUME NEW c \in Clients, client' = Completed(Advanced(c), "INVALID")
  PROVE  Good(client') /\ client'.timer # None /\ client'.status = "NORMAL"
<1> DEFINE n == [c EXCEPT !.info = Fresh, !.offset = 0, !.header = FALSE,
                          !.blockRetry = 0, !.timer = "query", !.status = "NORMAL",
                          !.ver = None]
<1>1. Fresh \in Info /\ Fresh.flag = "INIT_DONE"
  BY Bounds DEF Fresh, Info, Flag
<1>2. Good(n) /\ n.timer = "query" /\ n.status = "NORMAL"
  <2>1. /\ "NORMAL" \in Status /\ "query" \in Timer /\ None \in Version \union {None}
        /\ 0 \in 0 .. Size /\ 0 \in 0 .. BlockRetries
    BY Bounds DEF Status, Timer
  <2>2. n \in Clients
    <3> HIDE DEF Fresh
    <3> QED BY <1>1, <2>1 DEF Clients
  <2>3. /\ n.info.flag = "INIT_DONE" /\ n.timer = "query" /\ n.status = "NORMAL"
    <3> HIDE DEF Fresh
    <3> QED BY <1>1 DEF Clients
  <2> HIDE DEF n
  <2> QED BY <2>2, <2>3 DEF Good, Consistent
<1>3. Completed(Advanced(c), "INVALID") = n
  BY DEF Completed, Advanced, ota_queryStart, Clients, None
<1> QED BY <1>2, <1>3, NoneTimer

(* What a step may leave of the client's asking (AskingGoesOn). *)
Asks ==
  Silent(client') =>
    \/ Silent(client) \/ resetting'
    \/ Overtaken \/ EndsInPlace
    \/ client.timer = "addr" /\ client.addrCnt + 1 = AddrRetries
    \/ client'.status = "IN_PROGRESS" /\ client'.offset = 0 /\ ~client'.header

LEMMA TimerAsks ==
  ASSUME client'.timer # None
  PROVE  Asks
  BY DEF Asks, Silent

LEMMA SameAsks ==
  ASSUME client'.timer = client.timer, client'.tasks = client.tasks
  PROVE  Asks
  BY DEF Asks, Silent

LEMMA PostAsks ==
  ASSUME NEW c, Good(c), NEW task \in Task \ {"save"}, client' = Post(c, task)
  PROVE  Asks
<1> DEFINE n == Len(c.tasks) + 1
<1>1. c \in Clients /\ c.tasks \in Seq(Task) /\ client'.tasks = Append(c.tasks, task)
  BY DEF Good, Clients, Post
<1>2. n \in DOMAIN client'.tasks /\ client'.tasks[n] = task
  BY <1>1
<1> QED BY <1>2 DEF Asks, Silent

(* An end with success: NORMAL, nothing saved, and the client keeps what   *)
(* it knows of the image.                                                  *)
LEMMA SuccessEnds ==
  ASSUME NEW c, Good(c), client' = Completed(c, "SUCCESS"), Completes(flash, "SUCCESS")
  PROVE  client'.status = "NORMAL" /\ nv' = NvEmpty /\ client'.info = c.info
<1>1. nv' = NvEmpty
  BY Zenon DEF Completes
<1>2. client' = [c EXCEPT !.header = FALSE, !.status = "NORMAL"]
  BY DEF Completed
<1>3. c \in Clients
  BY DEF Good
<1> QED BY <1>1, <1>2, <1>3 DEF Clients

-----------------------------------------------------------------------------
(* Offers. *)
LEMMA OfferSeenGood ==
  ASSUME Good(client), client.ver \in Version
  PROVE  /\ Good(OfferSeen) /\ OfferSeen.timer = None
         /\ OfferSeen.info = client.info
<1>1. 0 \in 0 .. BlockRetries /\ "IN_PROGRESS" \in Status /\ None \in Timer
  BY Bounds DEF Status, Timer
<1>2. OfferSeen \in Clients /\ OfferSeen.timer = None /\ OfferSeen.info = client.info
  BY <1>1 DEF OfferSeen, Good, Clients
<1>3. Consistent(OfferSeen)
  BY <1>1 DEF OfferSeen, Good, Clients, Consistent, None
<1> QED BY <1>2, <1>3 DEF Good

LEMMA OfferedAgainGood ==
  ASSUME Good(client), NEW v \in Offers, OfferedAgain(v)
  PROVE  Good(client') /\ Asks
<1>1. client.ver \in Version /\ client.info.pos = Blocks
  BY OtaAssumption DEF OfferedAgain, Resumes
<1>2. client' = Completed(OfferSeen, "SUCCESS") /\ Completes(flash, "SUCCESS")
  BY DEF OfferedAgain, ota_upgradeComplete
<1>3. Good(client')
  BY <1>1, <1>2, OfferSeenGood, CompletedGood
<1>4. /\ client'.status = "NORMAL" /\ nv' = NvEmpty
      /\ client'.info = client.info
  BY <1>1, <1>2, OfferSeenGood, SuccessEnds
<1> QED BY <1>1, <1>3, <1>4 DEF Asks, EndsInPlace

LEMMA ResumeGood ==
  ASSUME Good(client), NEW v \in Offers, Resume(v)
  PROVE  Good(client') /\ Asks
<1>1. client.ver \in Version /\ client' = ota_sendImageBlockReq(OfferSeen)
  BY OtaAssumption DEF Resume, Resumes
<1> QED BY <1>1, OfferSeenGood, SendGood, NoneTimer, TimerAsks

(* A download that knows its version may look for its beginning. *)
LEMMA FlagGood ==
  ASSUME NEW c, Good(c), c.ver \in Version, NEW flag \in {"MAGIC_0", "CONT_HDR"}
  PROVE  /\ Good([c EXCEPT !.info.flag = flag])
         /\ [c EXCEPT !.info.flag = flag].timer = c.timer
<1> DEFINE info == [c.info EXCEPT !.flag = flag]
<1>1. c \in Clients /\ c.info \in Info
  BY DEF Good, Clients
<1>2. info \in Info /\ info.flag = flag /\ info.pos = c.info.pos
  BY <1>1 DEF Info, Flag
<1>3. [c EXCEPT !.info.flag = flag] = [c EXCEPT !.info = info]
  BY <1>1 DEF Clients
<1> HIDE DEF info
<1>4. [c EXCEPT !.info = info] \in Clients /\ [c EXCEPT !.info = info].timer = c.timer
  BY <1>1, <1>2 DEF Clients
<1>5. Consistent([c EXCEPT !.info = info])
  BY <1>1, <1>2 DEF Clients, Good, Consistent
<1> QED BY <1>3, <1>4, <1>5 DEF Good

LEMMA StartOverGood ==
  ASSUME Good(client), NEW v \in Offers, NEW buffer \in BOOLEAN, StartOver(v, buffer)
  PROVE  Good(client') /\ Asks
<1> DEFINE begun == [OfferSeen EXCEPT !.offset = 0, !.info.crc = <<>>, !.ver = v,
                                      !.header = buffer]
           info == [client.info EXCEPT !.crc = <<>>]
           b == [client EXCEPT !.blockRetry = 0, !.status = "IN_PROGRESS",
                               !.timer = None, !.offset = 0, !.info = info,
                               !.ver = v, !.header = buffer]
<1>1. client \in Clients /\ client.info \in Info /\ Consistent(client)
  BY DEF Good, Clients
<1>2. info \in Info /\ info.pos \in Nat
  <2>1. <<>> \in Seq(Cell)
    OBVIOUS
  <2>2. client.info.pos \in Nat
    BY <1>1, Bounds DEF Info
  <2>3. info \in Info /\ info.pos = client.info.pos
    BY <1>1, <2>1 DEF Info
  <2> QED BY <2>2, <2>3
<1>3. begun = b
  BY <1>1 DEF OfferSeen, Clients
<1> HIDE DEF info
<1>4. /\ 0 \in 0 .. BlockRetries /\ "IN_PROGRESS" \in Status /\ None \in Timer
      /\ 0 \in 0 .. Size /\ v \in Version
  BY Bounds, OtaAssumption DEF Status, Timer
<1>5. /\ b \in Clients /\ b.ver = v /\ b.status = "IN_PROGRESS" /\ b.offset = 0
      /\ b.header = buffer /\ b.info = info /\ b.timer = None
  BY <1>1, <1>2, <1>4 DEF Clients
<1> HIDE DEF b
<1>6. Good(b)
  BY <1>2, <1>4, <1>5 DEF Good, Consistent, None
<1> HIDE DEF begun
<1>7. CASE ~buffer
  <2>1. client' = b
    BY <1>3, <1>7 DEF StartOver, begun
  <2> QED BY <1>5, <1>6, <1>7, <2>1 DEF Asks
<1>8. CASE buffer /\ ~client.server
  <2>1. client' = Post(b, "addr")
    BY <1>3, <1>8 DEF StartOver, begun
  <2>2. "addr" \in Task \ {"save"}
    BY DEF Task
  <2> QED BY <1>6, <2>1, <2>2, PostGood, PostAsks
<1>9. CASE buffer /\ client.server
  <2>1. client' = [ota_sendImageBlockReq(b) EXCEPT !.info.flag = "MAGIC_0"]
    BY <1>3, <1>9 DEF StartOver, begun
  <2>2. /\ Good(ota_sendImageBlockReq(b))
        /\ ota_sendImageBlockReq(b).timer \in {"block", "delay"}
    BY <1>6, SendGood
  <2>3. ota_sendImageBlockReq(b).ver \in Version
    BY <1>4, <1>5 DEF ota_sendImageBlockReq, sendImageBlockReq, Clients
  <2>4. Good(client') /\ client'.timer \in {"block", "delay"}
    BY <2>1, <2>2, <2>3, FlagGood
  <2> QED BY <2>4, NoneTimer, TimerAsks
<1> QED BY <1>7, <1>8, <1>9

LEMMA QueryRspGood ==
  ASSUME Good(client), QueryNextImageRsp
  PROVE  Good(client') /\ Asks
<1>1. CASE NoOffer
  <2>1. client' = [client EXCEPT !.blockRetry = 0]
    BY <1>1 DEF NoOffer
  <2>2. 0 \in 0 .. BlockRetries
    BY Bounds
  <2>3. /\ client' \in Clients /\ Consistent(client')
        /\ client'.timer = client.timer /\ client'.tasks = client.tasks
    BY <2>1, <2>2 DEF Good, Clients, Consistent
  <2> QED BY <2>3, SameAsks DEF Good
<1> QED BY <1>1, OfferedAgainGood, ResumeGood, StartOverGood DEF QueryNextImageRsp

-----------------------------------------------------------------------------
(* Blocks. *)
LEMMA AdvancedGood ==
  ASSUME NEW c, Good(c), c.offset < Size,
         c.info.flag = "ELEMENT" => c.offset <= c.info.pos
  PROVE  /\ Good(Advanced(c)) /\ Advanced(c).ver = c.ver
         /\ Advanced(c).info = c.info
<1> DEFINE offset == c.offset + 1
<1>1. c \in Clients /\ c.offset \in Nat /\ c.info.pos \in Nat /\ Consistent(c)
  BY Bounds DEF Good, Clients, Info
<1>2. offset \in 0 .. Size /\ (c.info.flag = "ELEMENT" => offset <= c.info.pos + 1)
  BY <1>1, Bounds
<1>3. Advanced(c) = [c EXCEPT !.offset = offset, !.blockRetry = 0, !.timer = None]
  BY DEF Advanced
<1> HIDE DEF offset
<1>4. 0 \in 0 .. BlockRetries /\ None \in Timer
  BY Bounds DEF Timer
<1>5. /\ Advanced(c) \in Clients /\ Advanced(c).ver = c.ver /\ Advanced(c).info = c.info
      /\ Advanced(c).offset = offset /\ Advanced(c).timer = None
      /\ Advanced(c).status = c.status
  BY <1>1, <1>2, <1>3, <1>4 DEF Clients
<1> QED BY <1>1, <1>2, <1>5 DEF Good, Consistent, None

LEMMA SaveAndSendGood ==
  ASSUME NEW c, Good(c), client' = ota_sendImageBlockReq(Post(c, "save"))
  PROVE  Good(client') /\ client'.timer # None
<1>1. "save" \in Task
  BY DEF Task
<1> QED BY <1>1, PostGood, SendGood, NoneTimer

(* A cell is stored: the download stays as far as what is stored.          *)
LEMMA StoredGood ==
  ASSUME NEW c, Good(c), c.info.flag = "ELEMENT", c.info.pos < Blocks,
         c.status = "IN_PROGRESS"
  PROVE  /\ Good(Stored(c)) /\ Stored(c).offset = c.offset
         /\ Stored(c).info.pos = c.info.pos + 1
         /\ Stored(c).info.flag = "ELEMENT"
         /\ Due(c) \in Cell
<1> DEFINE info == [c.info EXCEPT !.crc = Append(@, Due(c)), !.pos = @ + 1]
<1>1. c \in Clients /\ c.info \in Info /\ Consistent(c) /\ c.ver \in Version
  BY DEF Good, Clients, Consistent
<1>2. Due(c) \in Cell
  BY <1>1 DEF Due, Cell
<1>3. /\ info \in Info /\ info.pos = c.info.pos + 1 /\ info.flag = "ELEMENT"
  <2>1. Append(c.info.crc, Due(c)) \in Seq(Cell)
    BY <1>1, <1>2 DEF Info
  <2>2. c.info.pos + 1 \in 0 .. Blocks
    BY <1>1, Bounds DEF Info
  <2> QED BY <1>1, <2>1, <2>2 DEF Info
<1>4. Stored(c) = [c EXCEPT !.info = info]
  BY <1>1 DEF Stored, Clients
<1> HIDE DEF info
<1>5. /\ Stored(c) \in Clients /\ Stored(c).info = info
      /\ Stored(c).offset = c.offset /\ Stored(c).status = c.status
      /\ Stored(c).ver = c.ver /\ Stored(c).timer = c.timer
  BY <1>1, <1>3, <1>4 DEF Clients
<1>6. c.offset <= c.info.pos + 1 /\ c.offset \in Nat /\ c.info.pos \in Nat
  BY <1>1, Bounds DEF Consistent, Clients, Info
<1>7. Consistent(Stored(c))
  BY <1>1, <1>3, <1>5, <1>6 DEF Consistent
<1> QED BY <1>2, <1>3, <1>5, <1>7 DEF Good

LEMMA ElementGood ==
  ASSUME NEW c, Good(c), c.info.flag = "ELEMENT", c.info.pos < Blocks,
         c.status = "IN_PROGRESS", NEW ok, Element(c, ok)
  PROVE  Good(client') /\ client'.timer # None
<1> DEFINE stored == Stored(c)
           a == Advanced(stored)
<1>1. /\ Good(stored) /\ stored.offset = c.offset /\ stored.info.pos = c.info.pos + 1
      /\ stored.info.flag = "ELEMENT"
  BY StoredGood
<1>2. c.offset <= c.info.pos + 1 /\ c.info.pos \in Nat /\ c.offset \in Nat
  BY Bounds DEF Good, Consistent, Clients, Info
<1> HIDE DEF stored
<1>3. Good(a) /\ a.info = stored.info
  BY <1>1, <1>2, AdvancedGood, Bounds
<1> HIDE DEF a
<1>4. CASE client' = ota_sendImageBlockReq(Post(a, "save"))
  BY <1>3, <1>4, SaveAndSendGood
<1>5. CASE /\ stored.info.pos = Blocks
           /\ client' = [Post(a, "save") EXCEPT
                           !.status = "COMPLETE", !.endRetry = 0, !.timer = "upgrade"]
  <2>1. "save" \in Task /\ "COMPLETE" \in Status /\ "upgrade" \in Timer
        /\ 0 \in 0 .. EndRetries
    BY Bounds DEF Task, Status, Timer
  <2> DEFINE p == Post(a, "save")
  <2>2. Good(p) /\ p.info.pos = Blocks
    <3>1. p.info = a.info
      BY <1>3 DEF Post, Good, Clients
    <3> QED BY <1>3, <1>5, <2>1, <3>1, PostGood
  <2> HIDE DEF p
  <2>3. client' = [p EXCEPT !.status = "COMPLETE", !.endRetry = 0, !.timer = "upgrade"]
    BY <1>5 DEF p
  <2>4. client' \in Clients /\ client'.timer = "upgrade" /\ client'.status = "COMPLETE"
        /\ client'.info = p.info /\ client'.offset = p.offset /\ client'.ver = p.ver
    BY <2>1, <2>2, <2>3 DEF Good, Clients
  <2>5. Consistent(client')
    BY <2>2, <2>4 DEF Good, Consistent
  <2> QED BY <2>4, <2>5, NoneTimer DEF Good
<1>6. CASE client' = Completed(a, "INVALID")
  BY <1>1, <1>6, RefusedGood DEF a, Good
<1> QED BY <1>4, <1>5, <1>6 DEF Element, ota_upgradeComplete, stored, a

(* The header ends with the beginning of the element. *)
LEMMA HeadedGood ==
  ASSUME Good(client), client.status = "IN_PROGRESS", client.offset = 1
  PROVE  /\ Good(Headed(client)) /\ Headed(client).info.flag = "ELEMENT"
         /\ Headed(client).info.pos < Blocks
         /\ Headed(client).status = "IN_PROGRESS"
<1> DEFINE h == Headed(client)
           info == [client.info EXCEPT !.flag = "ELEMENT", !.pos = 0]
<1>1. client \in Clients /\ client.info \in Info /\ Consistent(client)
  BY DEF Good, Clients
<1>2. info \in Info /\ info.flag = "ELEMENT" /\ info.pos = 0
  <2>1. "ELEMENT" \in Flag /\ 0 \in 0 .. Blocks
    BY Bounds DEF Flag
  <2> QED BY <1>1, <2>1 DEF Info
<1>3. h = [client EXCEPT !.header = FALSE, !.info = info]
  BY <1>1 DEF Headed, Clients
<1> HIDE DEF h, info
<1>4. /\ h \in Clients /\ h.info = info /\ h.status = "IN_PROGRESS" /\ h.offset = 1
      /\ h.ver = client.ver /\ h.timer = client.timer
  <2> DEFINE g == [client EXCEPT !.info = info]
  <2>1. h \in Clients
    <3>1. g \in Clients
      BY <1>1, <1>2 DEF Clients
    <3>2. h = [g EXCEPT !.header = FALSE]
      BY <1>1, <1>3 DEF Clients
    <3> HIDE DEF g
    <3> QED BY <3>1, <3>2 DEF Clients
  <2>2. h.info = info /\ h.status = client.status /\ h.offset = client.offset
    BY <1>1, <1>3 DEF Clients
  <2>3. h.ver = client.ver /\ h.timer = client.timer
    BY <1>1, <1>3 DEF Clients
  <2> QED BY <2>1, <2>2, <2>3
<1>5. Good(h)
  BY <1>1, <1>2, <1>4 DEF Good, Consistent
<1>6. h.info.pos < Blocks
  BY <1>2, <1>4, Bounds
<1> QED BY <1>2, <1>4, <1>5, <1>6 DEF h

LEMMA BlockGood ==
  ASSUME Good(client), NEW ok, BlockRsp(ok)
  PROVE  Good(client') /\ Asks
<1>1. /\ client \in Clients /\ client.info \in Info /\ Consistent(client)
      /\ client.offset \in Nat /\ client.info.pos \in Nat
  BY Bounds DEF Good, Clients, Info
<1>2. CASE HeaderBegins
  <2> DEFINE a == Advanced(client)
  <2>1. /\ client.offset = 0 /\ client.info.flag = "MAGIC_0"
        /\ client' = ota_sendImageBlockReq(Post(
                       [a EXCEPT !.info.flag = "CONT_HDR"], "save"))
    BY <1>2 DEF HeaderBegins, Expects
  <2>2. client.ver \in Version
    BY <1>1, <2>1 DEF Consistent
  <2>3. Good(a) /\ a.ver = client.ver
    BY <2>1, Bounds, AdvancedGood
  <2> HIDE DEF a
  <2>4. Good([a EXCEPT !.info.flag = "CONT_HDR"])
    BY <2>2, <2>3, FlagGood
  <2> QED BY <2>1, <2>4, SaveAndSendGood, TimerAsks
<1>3. CASE HeaderEnds(ok)
  <2>1. /\ client.status = "IN_PROGRESS" /\ client.offset = 1
        /\ Element(Headed(client), ok)
    BY <1>3 DEF HeaderEnds, Expects
  <2> QED BY <2>1, HeadedGood, ElementGood, TimerAsks
<1>4. CASE ElementGoesOn(ok)
  BY <1>4, ElementGood, TimerAsks DEF ElementGoesOn
<1>5. CASE PassedOver
  <2> DEFINE a == Advanced(client)
  <2>1. /\ client.offset \in 0 .. Blocks - 1 /\ client.info.flag = "INIT_DONE"
        /\ client' = ota_sendImageBlockReq(Post(a, "save"))
    BY <1>5 DEF PassedOver, Expects
  <2>2. Good(a)
    BY <1>1, <2>1, Bounds, AdvancedGood
  <2> HIDE DEF a
  <2> QED BY <2>1, <2>2, SaveAndSendGood, TimerAsks
<1>6. CASE Rejected
  BY <1>1, <1>6, RefusedGood, TimerAsks DEF Rejected, ota_upgradeComplete
<1> QED BY <1>2, <1>3, <1>4, <1>5, <1>6 DEF BlockRsp

LEMMA ImageBlockRspGood ==
  ASSUME Good(client), ImageBlockRsp
  PROVE  Good(client') /\ Asks
<1>1. client \in Clients /\ Consistent(client)
  BY DEF Good
<1>2. CASE ForeignBlock
  <2>1. client' = [client EXCEPT !.status = "NORMAL"]
    BY <1>2 DEF ForeignBlock
  <2>2. /\ client' \in Clients /\ Consistent(client')
        /\ client'.timer = client.timer /\ client'.tasks = client.tasks
    BY <1>1, <2>1 DEF Clients, Consistent, Status
  <2> QED BY <2>2, SameAsks DEF Good
<1>3. CASE WaitForData
  <2>1. client.status = "IN_PROGRESS"
    BY <1>3 DEF WaitForData
  <2>2. CASE client' = [client EXCEPT !.timer = "wait", !.blockRetry = 0]
    <3>1. "wait" \in Timer /\ 0 \in 0 .. BlockRetries
      BY Bounds DEF Timer
    <3>2. client' \in Clients /\ Consistent(client') /\ client'.timer = "wait"
      BY <1>1, <2>1, <2>2, <3>1 DEF Clients, Consistent
    <3> QED BY <3>2, NoneTimer, TimerAsks DEF Good
  <2>3. ASSUME NEW p \in BOOLEAN,
               client' = ota_sendImageBlockReq([client EXCEPT !.period = p])
        PROVE  Good(client') /\ Asks
    <3>1. Good([client EXCEPT !.period = p])
      BY <1>1 DEF Good, Clients, Consistent
    <3> QED BY <2>3, <3>1, SendGood, NoneTimer, TimerAsks
  <2> QED BY <1>3, <2>2, <2>3 DEF WaitForData
<1>4. CASE ServerAborts
  <2> DEFINE c == [client EXCEPT !.timer = None, !.blockRetry = 0]
  <2>1. client' = Completed(c, "ABORT")
    BY <1>4 DEF ServerAborts, ota_upgradeComplete
  <2>2. None \in Timer /\ 0 \in 0 .. BlockRetries
    BY Bounds DEF Timer
  <2>3. Good(c)
    BY <1>1, <2>2 DEF Good, Clients, Consistent, None
  <2> HIDE DEF c
  <2> QED BY <2>1, <2>3, CompletedGood, TimerAsks
<1>5. ASSUME NEW ok, BlockRsp(ok)
      PROVE  Good(client') /\ Asks
  BY <1>5, BlockGood
<1> QED BY <1>2, <1>3, <1>4, <1>5 DEF ImageBlockRsp

(* The end of an upgrade comes from a client that has the whole image. *)
LEMMA SuccessAsks ==
  ASSUME NEW c, Good(c), c.info = client.info, client.info.pos = Blocks,
         client' = Completed(c, "SUCCESS"), Completes(flash, "SUCCESS")
  PROVE  Good(client') /\ Asks
<1>1. client'.status = "NORMAL" /\ nv' = NvEmpty /\ client'.info = client.info
  BY SuccessEnds
<1> QED BY <1>1, CompletedGood DEF Asks, EndsInPlace

LEMMA UpgradeEndRspGood ==
  ASSUME Good(client), UpgradeEndRsp
  PROVE  Good(client') /\ Asks
<1>1. client \in Clients /\ Consistent(client)
  BY DEF Good
<1>2. client.status \in {"COMPLETE", "WAITING"} /\ client.info.pos = Blocks
  BY <1>1 DEF UpgradeEndRsp, Consistent
<1>3. /\ "upgrade" \in Timer /\ 0 \in 0 .. EndRetries
      /\ "COUNT_DOWN" \in Status /\ "WAITING" \in Status
  BY Bounds DEF Timer, Status
<1>4. CASE client' = [client EXCEPT !.status = "COUNT_DOWN", !.timer = "upgrade"]
  <2>1. client' \in Clients /\ Consistent(client') /\ client'.timer = "upgrade"
    BY <1>1, <1>2, <1>3, <1>4 DEF Clients, Consistent
  <2> QED BY <2>1, NoneTimer, TimerAsks DEF Good
<1>5. CASE client' = [client EXCEPT !.status = "WAITING", !.timer = "upgrade",
                                    !.endRetry = 0]
  <2>1. client' \in Clients /\ Consistent(client') /\ client'.timer = "upgrade"
    BY <1>1, <1>2, <1>3, <1>5 DEF Clients, Consistent
  <2> QED BY <2>1, NoneTimer, TimerAsks DEF Good
<1>6. CASE ota_upgradeComplete(client, flash, "SUCCESS")
  BY <1>2, <1>6, SuccessAsks DEF ota_upgradeComplete
<1> QED BY <1>4, <1>5, <1>6 DEF UpgradeEndRsp, ImageDone

LEMMA IeeeAddrRspGood ==
  ASSUME Good(client), NEW ok \in BOOLEAN, IeeeAddrRsp(ok)
  PROVE  Good(client') /\ Asks
<1> DEFINE knows == [client EXCEPT !.server = @ \/ ok]
           halted == [knows EXCEPT !.timer = None]
           waits == client.status = "IN_PROGRESS" /\ client.info.flag = "INIT_DONE"
<1>1. client \in Clients /\ Consistent(client) /\ (client.server \/ ok) \in BOOLEAN
  BY DEF Good
<1>2. /\ Good(knows) /\ knows.timer = client.timer /\ knows.tasks = client.tasks
      /\ knows.ver = client.ver
  BY <1>1 DEF Good, Clients, Consistent
<1> HIDE DEF knows
<1>3. None \in Timer /\ None # "wait"
  BY DEF Timer, None
<1>4. Good(halted)
  BY <1>2, <1>3, TimerGood
<1>5. halted.ver = client.ver
  BY <1>2 DEF Good, Clients
<1> HIDE DEF halted
<1>6. CASE ~waits
  <2>1. client' = knows
    BY <1>6 DEF IeeeAddrRsp, knows
  <2> QED BY <1>2, <2>1, SameAsks
<1>7. CASE waits /\ ok
  <2>1. client' = [ota_sendImageBlockReq(halted) EXCEPT !.info.flag = "MAGIC_0"]
    BY <1>7 DEF IeeeAddrRsp, knows, halted
  <2>2. /\ Good(ota_sendImageBlockReq(halted))
        /\ ota_sendImageBlockReq(halted).timer \in {"block", "delay"}
    BY <1>4, SendGood
  <2>3. ota_sendImageBlockReq(halted).ver \in Version
    <3>1. halted \in Clients /\ halted.ver \in Version
      BY <1>1, <1>4, <1>5, <1>7 DEF Good, Consistent
    <3> QED BY <3>1 DEF ota_sendImageBlockReq, sendImageBlockReq, Clients
  <2>4. Good(client') /\ client'.timer \in {"block", "delay"}
    BY <2>1, <2>2, <2>3, FlagGood
  <2> QED BY <2>4, NoneTimer, TimerAsks
<1>8. CASE waits /\ ~ok
  <2>1. client' = Completed(halted, "ABORT")
    BY <1>8 DEF IeeeAddrRsp, knows, halted, ota_upgradeComplete
  <2> QED BY <1>4, <2>1, CompletedGood, TimerAsks
<1> QED BY <1>6, <1>7, <1>8

LEMMA NwkAddrRspGood ==
  ASSUME Good(client), NwkAddrRsp
  PROVE  Good(client') /\ Asks
<1> DEFINE heard == [client EXCEPT !.asked = FALSE]
           c == [heard EXCEPT !.blockRetry = 0, !.timer = None]
<1>1. None \in Timer /\ 0 \in 0 .. BlockRetries
  BY Bounds DEF Timer
<1>2. Good(heard) /\ heard.timer = client.timer /\ heard.tasks = client.tasks
  BY DEF Good, Clients, Consistent
<1> HIDE DEF heard
<1>3. Good(c)
  BY <1>1, <1>2 DEF Good, Clients, Consistent, None
<1>4. client' = heard \/ client' = ota_sendImageBlockReq(c)
  BY DEF NwkAddrRsp, heard
<1> HIDE DEF c
<1> QED BY <1>2, <1>3, <1>4, SameAsks, SendGood, NoneTimer, TimerAsks

LEMMA ServerGood ==
  ASSUME Good(client), Server
  PROVE  Good(client') /\ Asks
  BY QueryRspGood, ImageBlockRspGood, UpgradeEndRspGood, NwkAddrRspGood,
     IeeeAddrRspGood DEF Server

-----------------------------------------------------------------------------
(* The timer and the tasks. *)
LEMMA OffGood ==
  ASSUME Good(client)
  PROVE  /\ Good(Off) /\ Off.status = client.status /\ Off.info = client.info
         /\ Off.tasks = client.tasks /\ Off.endRetry = client.endRetry
         /\ Off.blockRetry = client.blockRetry
<1>1. None \in Timer /\ None # "wait"
  BY DEF Timer, None
<1>2. Good(Off)
  BY <1>1, TimerGood DEF Off
<1> QED BY <1>2 DEF Off, Good, Clients

LEMMA PostOff ==
  ASSUME NEW c, Good(c), NEW task \in Task \ {"save"}, client' = Post(c, task)
  PROVE  Good(client') /\ Asks
  BY PostGood, PostAsks

LEMMA UpgradeWaitGood ==
  ASSUME Good(client), ota_upgradeWaitCb
  PROVE  Good(client') /\ Asks
<1> DEFINE retry == IF Off.endRetry < EndRetries THEN Off.endRetry + 1 ELSE Off.endRetry
           tries == [Off EXCEPT !.endRetry = retry]
<1>1. client \in Clients /\ Consistent(client) /\ client.timer = "upgrade"
  BY DEF Good, ota_upgradeWaitCb, Expires
<1>2. /\ Good(Off) /\ Off.status = client.status /\ Off.info = client.info
  BY OffGood
<1>3. retry \in 0 .. EndRetries
  <2> DEFINE n == Off.endRetry
  <2>1. n \in 0 .. EndRetries
    BY <1>2 DEF Good, Clients
  <2> HIDE DEF n
  <2>2. (IF n < EndRetries THEN n + 1 ELSE n) \in 0 .. EndRetries
    BY <2>1, Bounds
  <2> QED BY <2>2 DEF n
<1> HIDE DEF retry
<1>4. Good(tries) /\ tries.info = client.info
  BY <1>2, <1>3 DEF Good, Clients, Consistent
<1>5. tries = [Off EXCEPT !.endRetry = IF @ < EndRetries THEN @ + 1 ELSE @]
  BY DEF retry
<1> HIDE DEF tries
<1>6. CASE client.status \in {"COMPLETE", "WAITING"} /\ client.endRetry + 1 < EndRetries
  <2>1. client' = Post(tries, "end")
    BY <1>5, <1>6 DEF ota_upgradeWaitCb, Only
  <2>2. "end" \in Task \ {"save"}
    BY DEF Task
  <2> QED BY <1>4, <2>1, <2>2, PostOff
<1>7. CASE client.status \in {"COMPLETE", "WAITING"} /\ ~(client.endRetry + 1 < EndRetries)
  <2>1. ota_upgradeComplete(tries, flash, "SUCCESS")
    BY <1>5, <1>7 DEF ota_upgradeWaitCb
  <2>2. client.info.pos = Blocks
    BY <1>1, <1>7 DEF Consistent
  <2> QED BY <1>4, <2>1, <2>2, SuccessAsks DEF ota_upgradeComplete
<1>8. CASE client.status = "COUNT_DOWN"
  <2>1. ota_upgradeComplete(Off, flash, "SUCCESS")
    BY <1>8 DEF ota_upgradeWaitCb
  <2>2. client.info.pos = Blocks
    BY <1>1, <1>8 DEF Consistent
  <2> QED BY <1>2, <2>1, <2>2, SuccessAsks DEF ota_upgradeComplete
<1>9. CASE client.status \notin {"COMPLETE", "WAITING", "COUNT_DOWN"}
  <2>1. client' = Off
    BY <1>9 DEF ota_upgradeWaitCb, Only
  <2>2. client.status \in {"NORMAL", "IN_PROGRESS"}
    BY <1>1, <1>9 DEF Clients, Status
  <2> QED BY <1>1, <1>2, <2>1, <2>2 DEF Asks, Overtaken
<1> QED BY <1>6, <1>7, <1>8, <1>9

LEMMA AddrRspWaitGood ==
  ASSUME Good(client), ota_ieeeAddrRspWait
  PROVE  Good(client') /\ Asks
<1>1. client \in Clients /\ Consistent(client) /\ client.timer = "addr"
  BY DEF Good, ota_ieeeAddrRspWait, Expires
<1>2. CASE client.addrCnt + 1 < AddrRetries
  <2> DEFINE n == client.addrCnt + 1
  <2>1. client' = [client EXCEPT !.addrCnt = n]
    BY <1>2 DEF ota_ieeeAddrRspWait, Only
  <2>2. n \in 0 .. AddrRetries - 1
    BY <1>1, <1>2, Bounds DEF Clients
  <2> HIDE DEF n
  <2>3. client' \in Clients /\ Consistent(client') /\ client'.timer = "addr"
    BY <1>1, <2>1, <2>2 DEF Clients, Consistent
  <2> QED BY <2>3, NoneTimer, TimerAsks DEF Good
<1>3. CASE ~(client.addrCnt + 1 < AddrRetries)
  <2> DEFINE z == [client EXCEPT !.addrCnt = 0]
             c == Completed(z, "ABORT")
  <2>1. client' = [c EXCEPT !.timer = None]
    BY <1>3 DEF ota_ieeeAddrRspWait
  <2>2. 0 \in 0 .. AddrRetries - 1 /\ None \in Timer /\ None # "wait"
    BY Bounds DEF Timer, None
  <2>3. Good(z)
    BY <1>1, <2>2 DEF Good, Clients, Consistent
  <2> HIDE DEF z
  <2>4. Good(c)
    BY <2>3, CompletedGood
  <2> HIDE DEF c
  <2>5. Good(client')
    BY <2>1, <2>2, <2>4, TimerGood
  <2>6. client.addrCnt + 1 = AddrRetries
    BY <1>1, <1>3, Bounds DEF Clients
  <2> QED BY <1>1, <2>5, <2>6 DEF Asks
<1> QED BY <1>2, <1>3

LEMMA BlockRspWaitGood ==
  ASSUME Good(client), ota_imageBlockRspWait
  PROVE  Good(client') /\ Asks
<1> DEFINE retry == IF Off.blockRetry < BlockRetries THEN Off.blockRetry + 1
                    ELSE Off.blockRetry
           c == [Off EXCEPT !.blockRetry = retry]
<1>1. Good(Off)
  BY OffGood
<1>2. retry \in 0 .. BlockRetries
  <2> DEFINE n == Off.blockRetry
  <2>1. n \in 0 .. BlockRetries
    BY <1>1 DEF Good, Clients
  <2> HIDE DEF n
  <2>2. (IF n < BlockRetries THEN n + 1 ELSE n) \in 0 .. BlockRetries
    BY <2>1, Bounds
  <2> QED BY <2>2 DEF n
<1> HIDE DEF retry
<1>3. Good(c)
  BY <1>1, <1>2 DEF Good, Clients, Consistent
<1>4. c = [Off EXCEPT !.blockRetry = IF @ < BlockRetries THEN @ + 1 ELSE @]
  BY DEF retry
<1> HIDE DEF c
<1>5. client' = Post(c, "timeout") \/ client' = Post(c, "request")
  BY <1>4 DEF ota_imageBlockRspWait, Only
<1>6. "timeout" \in Task \ {"save"} /\ "request" \in Task \ {"save"}
  BY DEF Task
<1> QED BY <1>3, <1>5, <1>6, PostOff

LEMMA TimerExpiresGood ==
  ASSUME Good(client), TimerExpires
  PROVE  Good(client') /\ Asks
<1>1. Good(Off) /\ "block" \in Task \ {"save"}
  BY OffGood DEF Task
<1>2. CASE ota_periodicQueryServerCb
  <2>1. client' = [client EXCEPT !.asked = TRUE] /\ client.timer = "query"
    BY <1>2 DEF ota_periodicQueryServerCb, Only, Expires
  <2>2. Good(client') /\ client'.timer = "query"
    BY <2>1 DEF Good, Clients, Consistent
  <2> QED BY <2>2, NoneTimer, TimerAsks
<1>3. CASE ota_sendImageBlockReqDelay
  BY <1>1, <1>3, PostOff DEF ota_sendImageBlockReqDelay, Only
<1>4. CASE ota_imageBlockWaitCb
  <2>1. client.timer = "wait" /\ client.status \in {"IN_PROGRESS", "NORMAL"}
    BY <1>4 DEF ota_imageBlockWaitCb, Expires, Good, Consistent
  <2>2. CASE client.status = "IN_PROGRESS"
    BY <1>1, <1>4, <2>2, PostOff DEF ota_imageBlockWaitCb, Only
  <2>3. CASE client.status = "NORMAL"
    <3>1. client' = Off
      BY <1>4, <2>3 DEF ota_imageBlockWaitCb, Only
    <3> QED BY <1>1, <2>1, <2>3, <3>1 DEF Asks, Overtaken
  <2> QED BY <2>1, <2>2, <2>3
<1> QED BY <1>2, <1>3, <1>4, AddrRspWaitGood, BlockRspWaitGood, UpgradeWaitGood
        DEF TimerExpires

LEMMA TakenGood ==
  ASSUME Good(client), client.tasks # <<>>
  PROVE  /\ Good(Taken) /\ Taken.timer = client.timer
         /\ Taken.tasks = Tail(client.tasks) /\ Taken.saveCnt = client.saveCnt
<1> DEFINE tasks == Tail(client.tasks)
<1>1. tasks \in Seq(Task)
  BY DEF Good, Clients
<1>2. Taken = [client EXCEPT !.tasks = tasks]
  BY DEF Taken
<1> HIDE DEF tasks
<1>3. /\ Taken \in Clients /\ Taken.timer = client.timer /\ Taken.tasks = tasks
      /\ Taken.saveCnt = client.saveCnt
  BY <1>1, <1>2 DEF Good, Clients
<1>4. Consistent(Taken)
  BY <1>2 DEF Good, Clients, Consistent
<1> QED BY <1>3, <1>4 DEF Good, tasks

(* A save that is taken off leaves the others. *)
LEMMA SaveAsks ==
  ASSUME Good(client), client.tasks # <<>>, Head(client.tasks) = "save",
         client'.timer = client.timer, client'.tasks = Tail(client.tasks)
  PROVE  Asks
<1> SUFFICES ASSUME Silent(client')
             PROVE  Silent(client)
  BY DEF Asks
<1> DEFINE t == client.tasks
<1>1. t \in Seq(Task) /\ Len(t) \in Nat \ {0} /\ t[1] = "save"
  BY DEF Good, Clients
<1>2. Len(Tail(t)) = Len(t) - 1 /\ \A i \in 1 .. Len(t) - 1 : Tail(t)[i] = t[i + 1]
  BY <1>1
<1>3. client.timer = None /\ \A i \in 1 .. Len(t) - 1 : Tail(t)[i] = "save"
  <2>1. DOMAIN Tail(t) = 1 .. Len(t) - 1
    BY <1>1, <1>2
  <2> QED BY <2>1 DEF Silent
<1> HIDE DEF t
<1>4. ASSUME NEW i \in 1 .. Len(t)
      PROVE  t[i] = "save"
  <2>1. CASE i = 1
    BY <1>1, <2>1
  <2>2. CASE i # 1
    <3>1. i - 1 \in 1 .. Len(t) - 1 /\ (i - 1) + 1 = i
      BY <1>1, <2>2
    <3> QED BY <1>2, <1>3, <3>1
  <2> QED BY <2>1, <2>2
<1>5. DOMAIN t = 1 .. Len(t)
  BY <1>1
<1> QED BY <1>3, <1>4, <1>5 DEF Silent, t

LEMMA TaskGood ==
  ASSUME Good(client), TaskRuns
  PROVE  Good(client') /\ Asks
<1>1. client.tasks # <<>>
  BY DEF TaskRuns, SendBlockReq, AskAddress, ota_upgradeWithWait,
         ota_imageBlockRspTimeout, ota_saveUpdateInfo2NV, Runnable
<1>2. /\ Good(Taken) /\ Taken.timer = client.timer
      /\ Taken.tasks = Tail(client.tasks) /\ Taken.saveCnt = client.saveCnt
  BY <1>1, TakenGood
<1>3. CASE SendBlockReq
  BY <1>2, <1>3, SendGood, NoneTimer, TimerAsks DEF SendBlockReq, Only
<1>4. CASE AskAddress \/ ota_upgradeWithWait
  <2>1. \E t \in {"addr", "upgrade"} : client' = [Taken EXCEPT !.timer = t]
    BY <1>4 DEF AskAddress, ota_upgradeWithWait, Only
  <2> QED BY <1>2, <2>1, TimerGood, NoneTimer, TimerAsks
<1>5. CASE ota_imageBlockRspTimeout
  BY <1>2, <1>5, CompletedGood, TimerAsks DEF ota_imageBlockRspTimeout, ota_upgradeComplete
<1>6. CASE ota_saveUpdateInfo2NV
  <2> DEFINE saves == client.saveCnt + 1 = SaveEvery \/ client.status = "COMPLETE"
             n == IF saves THEN 0 ELSE Taken.saveCnt + 1
  <2>1. client' = [Taken EXCEPT !.saveCnt = n] /\ Head(client.tasks) = "save"
    BY <1>6 DEF ota_saveUpdateInfo2NV, Runnable
  <2>2. n \in 0 .. SaveEvery - 1
    <3>1. Taken.saveCnt = client.saveCnt /\ client.saveCnt \in 0 .. SaveEvery - 1
      BY <1>2 DEF Good, Clients
    <3> QED BY <3>1, Bounds
  <2> HIDE DEF n
  <2>3. /\ Good(client') /\ client'.timer = client.timer
        /\ client'.tasks = Tail(client.tasks)
    BY <1>2, <2>1, <2>2 DEF Good, Clients, Consistent
  <2> QED BY <1>1, <2>1, <2>3, SaveAsks
<1> QED BY <1>3, <1>4, <1>5, <1>6 DEF TaskRuns

-----------------------------------------------------------------------------
(* What the client keeps elsewhere: flash, NV, and the application's state.*)
FlashType == [Slot -> [start : BOOLEAN, cell : [1 .. Blocks -> Cell]]]
NvType == [hdr : Version \union {None}, code : Info \union {NoCode}]

Stores ==
  /\ PollTypeOK /\ nv \in NvType /\ flash \in FlashType
  /\ booted \in Slot /\ resetting \in BOOLEAN /\ ota_processing \in BOOLEAN

LEMMA TypeOKParts == OtaTypeOK <=> client \in Clients /\ Stores
  BY DEF OtaTypeOK, Clients, Stores, FlashType, NvType

LEMMA PollTypes ==
  ASSUME PollTypeOK, PollForAWhile \/ PollQueue \/ poll' = poll \/ poll_rateAppCb
  PROVE  PollTypeOK'
<1>1. CASE PollForAWhile \/ PollQueue
  <2>1. /\ [rate |-> "short", timer |-> TRUE] \in [rate : Rate, timer : BOOLEAN]
        /\ [rate |-> "queue", timer |-> FALSE] \in [rate : Rate, timer : BOOLEAN]
    BY DEF Rate
  <2> QED BY <1>1, <2>1, Zenon DEF PollTypeOK, PollForAWhile, PollQueue, PollShort
<1>2. CASE poll' = poll
  BY <1>2 DEF PollTypeOK
<1>3. CASE poll_rateAppCb
  BY <1>3 DEF PollTypeOK, poll_rateAppCb, Rate
<1> QED BY <1>1, <1>2, <1>3

LEMMA RestStores ==
  ASSUME Stores, UNCHANGED theRest
  PROVE  Stores'
  BY DEF Stores, theRest, kept, PollTypeOK

LEMMA KeptStores ==
  ASSUME Stores, UNCHANGED kept, ota_processing' \in BOOLEAN,
         PollForAWhile \/ PollQueue \/ poll' = poll \/ poll_rateAppCb
  PROVE  Stores'
  BY PollTypes DEF Stores, kept

LEMMA NvTypes ==
  ASSUME Stores
  PROVE  /\ NvEmpty \in NvType
         /\ \A v \in Version \union {None} : [nv EXCEPT !.hdr = v] \in NvType
         /\ \A i \in Info : [nv EXCEPT !.code = i] \in NvType
         /\ nv.hdr \in Version \union {None}
         /\ nv.code \in Info \union {NoCode}
  BY DEF Stores, NvType, NvEmpty

LEMMA IdleSlot == booted \in Slot => Idle \in Slot
  BY DEF Idle, Slots!Idle, Slot, Slots!Slot

LEMMA FlaggedType ==
  ASSUME NEW f \in FlashType, NEW slot \in Slot, NEW flag \in BOOLEAN
  PROVE  [f EXCEPT ![slot].start = flag] \in FlashType
<1> DEFINE rec == [f[slot] EXCEPT !.start = flag]
<1>1. rec \in [start : BOOLEAN, cell : [1 .. Blocks -> Cell]]
  BY DEF FlashType
<1>2. [f EXCEPT ![slot].start = flag] = [f EXCEPT ![slot] = rec]
  OBVIOUS
<1> HIDE DEF rec
<1> QED BY <1>1, <1>2 DEF FlashType

LEMMA WrittenType ==
  ASSUME Stores, NEW c, Due(c) \in Cell, c.info.pos + 1 \in 1 .. Blocks
  PROVE  Written(c, flash) \in FlashType
<1> DEFINE i == c.info.pos + 1
           v == IF flash[Idle].cell[i] \in {"erased", Due(c)} THEN Due(c) ELSE "garbled"
           rec == [flash[Idle] EXCEPT !.cell[i] = v]
<1>1. v \in Cell
  BY DEF Cell
<1>2. Written(c, flash) = [flash EXCEPT ![Idle].cell[i] = v]
  BY DEF Written
<1> HIDE DEF v, i
<1>3. flash[Idle] \in [start : BOOLEAN, cell : [1 .. Blocks -> Cell]]
  BY IdleSlot DEF Stores, FlashType
<1>4. rec \in [start : BOOLEAN, cell : [1 .. Blocks -> Cell]]
  <2> DEFINE cell == [flash[Idle].cell EXCEPT ![i] = v]
  <2>1. cell \in [1 .. Blocks -> Cell]
    BY <1>1, <1>3
  <2>2. rec = [flash[Idle] EXCEPT !.cell = cell]
    OBVIOUS
  <2> HIDE DEF cell
  <2> QED BY <1>3, <2>1, <2>2
<1>5. Written(c, flash) = [flash EXCEPT ![Idle] = rec]
  BY <1>2
<1> HIDE DEF rec
<1> QED BY <1>4, <1>5 DEF Stores, FlashType

LEMMA CompletesStores ==
  ASSUME Stores, NEW f \in FlashType,
         NEW status \in {"SUCCESS", "ABORT", "INVALID"}, Completes(f, status)
  PROVE  Stores' /\ nv' \in {nv, NvEmpty}
<1>1. PICK flagged \in BOOLEAN :
        /\ flash' = IF flagged THEN [f EXCEPT ![Idle].start = TRUE] ELSE f
        /\ resetting' = flagged
        /\ nv' = IF status = "ABORT" THEN nv ELSE NvEmpty
        /\ PollForAWhile /\ booted' = booted /\ ota_processing' = ota_processing
  BY Zenon DEF Completes
<1>2. flagged \in BOOLEAN
  OBVIOUS
<1>3. flash' \in FlashType
  BY <1>1, FlaggedType, IdleSlot DEF Stores
<1>4. nv' \in NvType /\ nv' \in {nv, NvEmpty}
  BY <1>1, NvTypes DEF Stores
<1>5. PollTypeOK'
  BY <1>1, PollTypes DEF Stores
<1> QED BY <1>1, <1>2, <1>3, <1>4, <1>5 DEF Stores

(* The end of a download that wrote nothing in this step. *)
LEMMA EndStores ==
  ASSUME Stores, NEW status \in {"SUCCESS", "ABORT", "INVALID"}, Completes(flash, status)
  PROVE  Stores'
  BY CompletesStores DEF Stores

LEMMA ElementStores ==
  ASSUME Stores, NEW c, Good(c), c.info.flag = "ELEMENT", c.info.pos < Blocks,
         c.status = "IN_PROGRESS", NEW ok, Element(c, ok), nv' \in NvType
  PROVE  Stores'
<1>1. Due(c) \in Cell
  BY StoredGood
<1>2. c.info.pos + 1 \in 1 .. Blocks
  <2> DEFINE pos == c.info.pos
  <2>1. c.info \in Info
    BY DEF Good, Clients
  <2>2. pos \in 0 .. Blocks /\ pos < Blocks
    BY <2>1 DEF Info
  <2> HIDE DEF pos
  <2>3. pos + 1 \in 1 .. Blocks
    BY <2>2, Bounds
  <2> QED BY <2>3 DEF pos
<1>3. Written(c, flash) \in FlashType
  BY <1>1, <1>2, WrittenType
<1>4. CASE flash' = Written(c, flash) /\ UNCHANGED <<booted, resetting, ota_processing, poll>>
  BY <1>3, <1>4 DEF Stores, PollTypeOK
<1>5. CASE Completes(Written(c, flash), "INVALID")
  BY <1>3, <1>5, CompletesStores
<1> QED BY <1>4, <1>5 DEF Element, ota_upgradeComplete

LEMMA BlockStores ==
  ASSUME Stores, Good(client), NEW ok, BlockRsp(ok)
  PROVE  Stores'
<1>1. client \in Clients /\ client.info \in Info /\ Consistent(client)
  BY DEF Good, Clients
<1>2. CASE HeaderBegins
  BY <1>2, RestStores DEF HeaderBegins
<1>3. CASE HeaderEnds(ok)
  <2> DEFINE h == Headed(client)
  <2>1. client.status = "IN_PROGRESS" /\ client.offset = 1 /\ Element(h, ok)
    BY <1>3 DEF HeaderEnds, Expects
  <2>2. /\ Good(h) /\ h.info.flag = "ELEMENT" /\ h.info.pos < Blocks
        /\ h.status = "IN_PROGRESS"
    BY <2>1, HeadedGood
  <2>3. nv' \in NvType
    <3>1. client.ver \in Version
      BY <1>1, <2>1 DEF Consistent
    <3>2. nv' = NvEmpty \/ nv' = [nv EXCEPT !.hdr = client.ver]
      BY <1>3 DEF HeaderEnds
    <3> QED BY <3>1, <3>2, NvTypes
  <2> HIDE DEF h
  <2> QED BY <2>1, <2>2, <2>3, ElementStores
<1>4. CASE ElementGoesOn(ok)
  <2>1. /\ client.status = "IN_PROGRESS" /\ client.info.flag = "ELEMENT"
        /\ client.info.pos < Blocks /\ Element(client, ok)
        /\ client'.status # "NORMAL" => UNCHANGED nv
    BY <1>4 DEF ElementGoesOn
  <2>2. CASE nv' = nv
    BY <2>1, <2>2, ElementStores DEF Stores
  <2>3. CASE client'.status = "NORMAL"
    <3>1. CASE Completes(Written(client, flash), "INVALID")
      <4>1. nv' = NvEmpty
        BY <3>1 DEF Completes
      <4> QED BY <2>1, <4>1, ElementStores, NvTypes
    <3>2. CASE ~Completes(Written(client, flash), "INVALID")
      <4>1. /\ UNCHANGED <<booted, resetting, ota_processing, poll>>
            /\ \/ client' = ota_sendImageBlockReq(Post(Advanced(Stored(client)), "save"))
               \/ client' = [Post(Advanced(Stored(client)), "save") EXCEPT
                               !.status = "COMPLETE", !.endRetry = 0, !.timer = "upgrade"]
        BY <2>1, <3>2 DEF Element, ota_upgradeComplete
      <4>2. client'.status \in {"IN_PROGRESS", "COMPLETE"}
        BY <1>1, <2>1, <4>1 DEF ota_sendImageBlockReq, sendImageBlockReq, Post,
                                Advanced, Stored, Clients
      <4> QED BY <2>3, <4>2
    <3> QED BY <3>1, <3>2
  <2> QED BY <2>1, <2>2, <2>3
<1>5. CASE PassedOver
  BY <1>5, RestStores DEF PassedOver
<1>6. CASE Rejected
  BY <1>6, EndStores DEF Rejected, ota_upgradeComplete
<1> QED BY <1>2, <1>3, <1>4, <1>5, <1>6 DEF BlockRsp

LEMMA ServerStores ==
  ASSUME Stores, Good(client), Server
  PROVE  Stores'
<1> USE RestStores, KeptStores, EndStores DEF ota_upgradeComplete
<1>0. ota_processing \in BOOLEAN /\ nv \in NvType /\ booted \in Slot
  BY DEF Stores
<1>1. ASSUME NEW v, OfferedAgain(v) PROVE Stores'
  BY <1>1 DEF OfferedAgain
<1>2. ASSUME NEW v, Resume(v) PROVE Stores'
  BY <1>2 DEF Resume, Started
<1>3. ASSUME NEW v, NEW buffer \in BOOLEAN, StartOver(v, buffer) PROVE Stores'
  <2>1. Erased \in [start : BOOLEAN, cell : [1 .. Blocks -> Cell]]
    BY DEF Erased, Cell
  <2>2. flash' \in FlashType
    BY <1>0, <1>3, <2>1, IdleSlot DEF StartOver, Stores, FlashType
  <2>3. UNCHANGED <<ota_processing, poll>> \/ Started
    BY <1>3 DEF StartOver
  <2>4. PollTypeOK' /\ ota_processing' \in BOOLEAN
    BY <1>0, <2>3, PollTypes DEF Started, Stores
  <2>5. UNCHANGED <<nv, booted, resetting>>
    BY <1>3 DEF StartOver
  <2> QED BY <2>2, <2>4, <2>5 DEF Stores
<1>4. CASE NoOffer
  BY <1>4 DEF NoOffer
<1>5. CASE ImageBlockRsp
  BY <1>5, BlockStores DEF ImageBlockRsp, ForeignBlock, WaitForData, ServerAborts
<1>6. CASE UpgradeEndRsp
  BY <1>0, <1>6 DEF UpgradeEndRsp, ImageDone
<1>7. CASE NwkAddrRsp
  BY <1>0, <1>7 DEF NwkAddrRsp, Started
<1>8. ASSUME NEW ok, IeeeAddrRsp(ok) PROVE Stores'
  BY <1>0, <1>8 DEF IeeeAddrRsp, Started
<1> QED BY <1>1, <1>2, <1>3, <1>4, <1>5, <1>6, <1>7, <1>8 DEF Server, QueryNextImageRsp

LEMMA TimerStores ==
  ASSUME Stores, TimerExpires
  PROVE  Stores'
  BY RestStores, EndStores
     DEF TimerExpires, ota_periodicQueryServerCb, ota_ieeeAddrRspWait,
         ota_imageBlockRspWait, ota_sendImageBlockReqDelay, ota_imageBlockWaitCb,
         ota_upgradeWaitCb, Only, ota_upgradeComplete

LEMMA TaskStores ==
  ASSUME Stores, Good(client), TaskRuns
  PROVE  Stores'
<1>1. CASE ota_saveUpdateInfo2NV
  <2>1. nv' = nv \/ nv' = [nv EXCEPT !.code = client.info]
    BY <1>1 DEF ota_saveUpdateInfo2NV
  <2>2. client.info \in Info
    BY DEF Good, Clients
  <2>3. nv' \in NvType
    BY <2>1, <2>2, NvTypes DEF Stores
  <2> QED BY <1>1, <2>3 DEF ota_saveUpdateInfo2NV, Stores, PollTypeOK
<1>2. CASE SendBlockReq \/ AskAddress \/ ota_upgradeWithWait \/ ota_imageBlockRspTimeout
  BY <1>2, RestStores, EndStores
     DEF SendBlockReq, AskAddress, ota_upgradeWithWait, ota_imageBlockRspTimeout,
         Only, ota_upgradeComplete
<1> QED BY <1>1, <1>2 DEF TaskRuns

-----------------------------------------------------------------------------
(* A start of the MCU. *)
LEMMA BootGood ==
  ASSUME nv \in NvType
  PROVE  Good(Boot) /\ Boot.timer = "query"
<1> DEFINE info == IF Recovered THEN nv.code ELSE Fresh
           ver == IF Recovered THEN nv.hdr ELSE None
<1>1. Fresh \in Info /\ Fresh.flag = "INIT_DONE"
  BY Bounds DEF Fresh, Info, Flag
<1>2. info \in Info /\ ver \in Version \union {None}
  BY <1>1 DEF Recovered, NvType
<1>3. ver \in Version \/ info.flag = "INIT_DONE"
  BY <1>1 DEF Recovered, NvType
<1>4. Boot = [status |-> "NORMAL", info |-> info, offset |-> InfoOffset(info),
              ver |-> ver, header |-> FALSE, server |-> Recovered, period |-> FALSE,
              asked |-> FALSE, timer |-> "query", tasks |-> <<>>,
              blockRetry |-> 0, endRetry |-> 0, addrCnt |-> 0, saveCnt |-> 0]
  BY DEF Boot
<1> HIDE DEF info, ver
<1>5. InfoOffset(info) \in 0 .. Size /\ InfoOffset(info) <= info.pos + 1
  <2>1. info.pos \in 0 .. Blocks
    BY <1>2 DEF Info
  <2> QED BY <2>1, Bounds DEF InfoOffset
<1>6. /\ "NORMAL" \in Status /\ "query" \in Timer /\ <<>> \in Seq(Task)
      /\ 0 \in 0 .. BlockRetries /\ 0 \in 0 .. EndRetries
      /\ 0 \in 0 .. AddrRetries - 1 /\ 0 \in 0 .. SaveEvery - 1
      /\ Recovered \in BOOLEAN
  BY Bounds DEF Status, Timer, Recovered
<1>7. Boot \in Clients
  BY <1>2, <1>4, <1>5, <1>6 DEF Clients
<1>8. Consistent(Boot)
  BY <1>3, <1>4, <1>5 DEF Consistent
<1> QED BY <1>4, <1>7, <1>8 DEF Good

OtaInv == Good(client) /\ Stores

LEMMA OtaInvInit == OtaInit => OtaInv
<1> SUFFICES ASSUME OtaInit
             PROVE  OtaInv
  OBVIOUS
<1>1. nv \in NvType
  BY DEF OtaInit, NvType, NvEmpty
<1>2. Good(client)
  BY <1>1, BootGood DEF OtaInit
<1>3. flash \in FlashType
  BY OtaAssumption DEF OtaInit, FlashType, Erased, Cell
<1>4. PollTypeOK
  BY DEF OtaInit, PollTypeOK, PollShort, Rate
<1> QED BY <1>1, <1>2, <1>3, <1>4 DEF OtaInit, OtaInv, Stores, Slot, Slots!Slot

LEMMA RestartInv ==
  ASSUME OtaInv, OtaRestart, flash' \in FlashType
  PROVE  OtaInv' /\ Asks
<1>1. Good(client') /\ client'.timer = "query"
  BY BootGood DEF OtaInv, OtaRestart, Stores
<1>2. booted' \in Slot
  BY DEF OtaRestart, mcuBootAddrGet, Slot, Slots!Slot
<1>3. PollTypeOK'
  BY PollTypes DEF OtaRestart, OtaInv, Stores
<1>4. Stores'
  BY <1>2, <1>3 DEF OtaInv, OtaRestart, Stores
<1> QED BY <1>1, <1>4, NoneTimer, TimerAsks DEF OtaInv

LEMMA OtaInvStep ==
  ASSUME OtaInv, OtaNext
  PROVE  OtaInv' /\ Asks
<1>1. Good(client) /\ Stores
  BY DEF OtaInv
<1>2. CASE Server
  BY <1>1, <1>2, ServerGood, ServerStores DEF OtaInv
<1>3. CASE TimerExpires
  BY <1>1, <1>3, TimerExpiresGood, TimerStores DEF OtaInv
<1>4. CASE TaskRuns
  BY <1>1, <1>4, TaskGood, TaskStores DEF OtaInv
<1>5. CASE Joined
  <2>1. Good(client') /\ client'.timer # None
    BY <1>1, <1>5, QueryGood DEF Joined
  <2>2. Stores'
    BY <1>1, <1>5, KeptStores DEF Joined, Stores
  <2> QED BY <2>1, <2>2, TimerAsks DEF OtaInv
<1>6. CASE KeyPressed \/ PollTimer
  <2>1. client' = client
    BY <1>6 DEF KeyPressed, PollTimer
  <2>2. Stores'
    BY <1>1, <1>6, KeptStores DEF KeyPressed, PollTimer, Stores
  <2> QED BY <1>1, <2>1, <2>2, SameAsks DEF OtaInv
<1>7. CASE Reboot
  <2>1. flash' = [flash EXCEPT ![booted].start = FALSE] /\ OtaRestart
    BY <1>7 DEF Reboot
  <2>2. flash' \in FlashType
    BY <1>1, <2>1, FlaggedType DEF Stores
  <2> QED BY <2>1, <2>2, RestartInv
<1>8. CASE PowerCut
  BY <1>1, <1>8, RestartInv DEF PowerCut, Stores
<1> QED BY <1>2, <1>3, <1>4, <1>5, <1>6, <1>7, <1>8 DEF OtaNext

LEMMA OtaInvariance == OtaSpec => []OtaInv
<1>1. OtaInv /\ [OtaNext]_otaVars => OtaInv'
  <2> SUFFICES ASSUME OtaInv, UNCHANGED otaVars
               PROVE  OtaInv'
    BY OtaInvStep
  <2> QED BY DEF OtaInv, Stores, PollTypeOK, otaVars, theRest, kept
<1> QED BY <1>1, OtaInvInit, PTL DEF OtaSpec

(* Every variable of the client keeps its type: no retry, offset, position *)
(* or queue leaves its range, whatever the server answers and whatever was *)
(* recovered from the NV after a power failure (ota.h:153-175,             *)
(* ota.c:264-333, 776-1118, 1484-1580).                                    *)
THEOREM OtaTypeCorrect == OtaSpec => []OtaTypeOK
<1>1. OtaInv => OtaTypeOK
  BY TypeOKParts DEF OtaInv, Good
<1> QED BY <1>1, OtaInvariance, PTL

(* The client falls silent in the listed cases only; otherwise its timer,  *)
(* or a task that starts it, is there after every step (ota.c:370-437,     *)
(* 513-763, 1311-1638).                                                    *)
THEOREM OtaAskingGoesOn == OtaSpec => AskingGoesOn
<1>1. OtaInv /\ [OtaNext]_otaVars => [Asks]_otaVars
  BY OtaInvStep
<1> QED BY <1>1, OtaInvariance, PTL DEF OtaSpec, AskingGoesOn, Asks
=============================================================================
