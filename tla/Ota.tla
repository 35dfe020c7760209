---------------------------------- MODULE Ota ----------------------------------
(***************************************************************************)
(* The client of the OTA upgrade cluster (zigbee/ota/ota.c) with the part  *)
(* of the application that follows it (app_otaProcessMsgHandler): the      *)
(* query for a new image, the download block by block into the idle one of *)
(* two flash slots, the progress kept in non-volatile memory, the retries, *)
(* the change of slots and the restart.  One timer, otaTimer, serves all   *)
(* of it in turn.                                                          *)
(*                                                                         *)
(* The server and the radio are open: any answer may come at any time,     *)
(* late, twice, not at all, or from an image of another version.  The      *)
(* power may fail between any two steps, and between the two writes that   *)
(* change the slots.                                                       *)
(*                                                                         *)
(* A file has the blocks 0 .. Blocks.  Block 0 and the beginning of block  *)
(* 1 are its header; the rest of block i goes to cell i of the slot.  All  *)
(* files have one size, so that a size never tells two of them apart, and  *)
(* no header of a file is bad; erasing a slot is one step.                 *)
(***************************************************************************)
EXTENDS PollRate, Naturals, Sequences

CONSTANTS
  Version,      \* versions of the firmware
  Shipped,      \* the one the device is made with
  Offers,       \* those the server offers in its time
  Blocks,       \* cells of an image in the flash
  ResumeAfter,  \* up to this offset (4096) a download starts over
  SaveEvery,    \* blocks between two saves of the progress
  BlockRetries, \* OTA_MAX_IMAGE_BLOCK_RETRIES
  EndRetries,   \* OTA_MAX_UPGRADE_END_REQ_RETRIES
  AddrRetries,  \* OTA_IEEE_ADDR_REQ_RETRIES
  MaxTasks      \* bound: tasks posted and not run when a message comes

ASSUME OtaAssumption ==
  /\ Shipped \in Version /\ Offers \subseteq Version
  /\ {Blocks, SaveEvery, BlockRetries, EndRetries, AddrRetries} \subseteq Nat \ {0}
  /\ ResumeAfter \in Nat \ {0}

VARIABLES
  client,  \* the RAM of the client, with the otaTimer and its tasks
  nv,      \* the two items of NV_MODULE_OTA
  flash,   \* the two slots: the start flag and the cells
  booted,  \* the slot the MCU runs from (mcuBootAddr)
  resetting,  \* between the writes of the two start flags
  ota_processing  \* of the application: shown by the heartbeat of the LED

kept == <<nv, flash, booted, resetting>>
theRest == <<kept, ota_processing, poll>>
otaVars == <<client, theRest>>

None == "none"
Cell == Version \union {"erased", "garbled"}
Size == Blocks + 1
Image == {[i \in 1 .. Blocks |-> v] : v \in Version}
Erased == [start |-> FALSE, cell |-> [i \in 1 .. Blocks |-> "erased"]]

Slots == INSTANCE FlashSlots
Slot == Slots!Slot
Idle == Slots!Idle
Running == flash[booted].cell[1]

(* Mutant: the slot is taken for the first one. *)
BootAddrFirst(f) == 0

(* mcuBootAddrGet looks for the flag of the first slot, too. *)
mcuBootAddrGet(f) == IF f[0].start THEN 0 ELSE 1

Status == {"NORMAL", "IN_PROGRESS", "COMPLETE", "COUNT_DOWN", "WAITING"}
Timer == {None, "query", "addr", "block", "delay", "wait", "upgrade"}
Task == {"block", "request", "addr", "timeout", "end", "save"}
Flag == {"INIT_DONE", "MAGIC_0", "CONT_HDR", "ELEMENT"}

(* otaClientInfo: where the parser is, what the CRC has run over, how many *)
(* cells have been written.                                                *)
NoCode == [flag |-> None]
NvEmpty == [hdr |-> None, code |-> NoCode]
Fresh == [flag |-> "INIT_DONE", crc |-> <<>>, pos |-> 0]
Info == [flag : Flag, crc : Seq(Cell), pos : 0 .. Blocks]

OtaTypeOK ==
  /\ PollTypeOK
  /\ client \in [status : Status, info : Info, offset : 0 .. Size,
                 ver : Version \union {None}, header : BOOLEAN,
                 server : BOOLEAN, period : BOOLEAN, asked : BOOLEAN,
                 timer : Timer, tasks : Seq(Task),
                 blockRetry : 0 .. BlockRetries, endRetry : 0 .. EndRetries,
                 addrCnt : 0 .. AddrRetries - 1, saveCnt : 0 .. SaveEvery - 1]
  /\ nv \in [hdr : Version \union {None}, code : Info \union {NoCode}]
  /\ flash \in [Slot -> [start : BOOLEAN, cell : [1 .. Blocks -> Cell]]]
  /\ booted \in Slot
  /\ resetting \in BOOLEAN
  /\ ota_processing \in BOOLEAN

-----------------------------------------------------------------------------
(* The start of the MCU: ota_init, ota_clientInfoRecover.                  *)

(* otaClientInfo.offset goes with the cells that were written. *)
InfoOffset(info) == IF info.pos = 0 THEN 0 ELSE info.pos + 1

Recovered == nv.hdr # None /\ nv.code # NoCode

(* The restart lasts until the device is on its network again, with the    *)
(* first query due.  The short address of the server is not recovered.     *)
Boot ==
  LET info == IF Recovered THEN nv.code ELSE Fresh
  IN [status |-> "NORMAL", info |-> info, offset |-> InfoOffset(info),
      ver |-> IF Recovered THEN nv.hdr ELSE None,
      header |-> FALSE, server |-> Recovered, period |-> FALSE,
      asked |-> FALSE, timer |-> "query", tasks |-> <<>>,
      blockRetry |-> 0, endRetry |-> 0, addrCnt |-> 0, saveCnt |-> 0]

OtaInit ==
  /\ nv = NvEmpty
  /\ flash = [s \in Slot |->
                IF s = 0 THEN [start |-> TRUE, cell |-> [i \in 1 .. Blocks |-> Shipped]]
                ELSE Erased]
  /\ booted = 0
  /\ resetting = FALSE
  /\ ota_processing = FALSE
  /\ client = Boot
  /\ poll = PollShort

OtaRestart ==
  /\ client' = Boot
  /\ booted' = mcuBootAddrGet(flash')
  /\ resetting' = FALSE
  /\ ota_processing' = FALSE
  /\ PollForAWhile
  /\ UNCHANGED nv

(* An exception, a power failure, or a reset for another reason. *)
PowerCut == UNCHANGED flash /\ OtaRestart

-----------------------------------------------------------------------------
(* The pieces the handlers are made of.                                    *)

(* Nothing will make the client go on by itself. *)
Silent(c) ==
  c.timer = None /\ \A i \in DOMAIN c.tasks : c.tasks[i] = "save"

Post(c, task) == [c EXCEPT !.tasks = Append(@, task)]

(* ota_queryStart does nothing while the timer exists, whatever it is for. *)
ota_queryStart(c) == IF c.timer = None THEN [c EXCEPT !.timer = "query"] ELSE c

(* The request goes out; an answer, if any, is a BlockRsp.  *)
sendImageBlockReq(c) == [c EXCEPT !.timer = "block"]

ota_sendImageBlockReq(c) ==
  IF c.period THEN [c EXCEPT !.timer = "delay"] ELSE sendImageBlockReq(c)

(* Mutant: the running CRC is trusted. *)
NewImageTrusted(f) == TRUE

(* ota_newImageValid runs the CRC over the whole slot again. *)
ota_newImageValid(f) == Slots!Whole(f[Idle])

(* OTA_EVT_START of app_otaProcessMsgHandler. *)
Started == ota_processing' = TRUE /\ PollQueue

(* Mutant: the application does not query again after an invalid image.    *)
CompletedQuietly(c, status) ==
  LET done == [c EXCEPT !.header = FALSE, !.status = "NORMAL"]
  IN CASE status = "SUCCESS" -> done
       [] status = "ABORT"   -> ota_queryStart(done)
       [] status = "INVALID" ->
            [done EXCEPT !.info = Fresh, !.offset = 0, !.ver = None]

(* ota_upgradeComplete(status) with OTA_EVT_COMPLETE, after the handler    *)
(* has made c of the client and f of the flash: what becomes of the        *)
(* client ...                                                              *)
Completed(c, status) ==
  LET done == [c EXCEPT !.header = FALSE, !.status = "NORMAL"]
  IN CASE status = "SUCCESS" -> done
       [] status = "ABORT"   -> ota_queryStart(done)
       [] status = "INVALID" ->
            ota_queryStart([done EXCEPT !.info = Fresh, !.offset = 0, !.ver = None])

(* ... and of the rest.  Success: the start flag of the new image is       *)
(* written, if that is whole; if it is not, or the flag does not read back *)
(* (flash_writeWithCheck), the device goes on without a timer.             *)
Completes(f, status) ==
  \E flagged \in BOOLEAN :
    /\ flagged => status = "SUCCESS" /\ ota_newImageValid(f)
    /\ flash' = IF flagged THEN [f EXCEPT ![Idle].start = TRUE] ELSE f
    /\ resetting' = flagged
    /\ nv' = IF status = "ABORT" THEN nv ELSE NvEmpty
    /\ PollForAWhile
    /\ UNCHANGED <<booted, ota_processing>>

ota_upgradeComplete(c, f, status) ==
  client' = Completed(c, status) /\ Completes(f, status)

(* ota_mcuReboot goes on: the flag of the old image is cleared.  *)
Reboot ==
  /\ resetting
  /\ flash' = [flash EXCEPT ![booted].start = FALSE]
  /\ OtaRestart

Runs == ~resetting

-----------------------------------------------------------------------------
(* Answers of the server.                                                  *)

Hears == Runs /\ Len(client.tasks) < MaxTasks

Resumes(v) == client.ver = v /\ client.offset > ResumeAfter

(* The whole image was received before: its CRC against the running one.   *)
CrcAgrees(c, f) ==
  /\ c.info.pos = Blocks
  /\ c.info.crc = [i \in 1 .. Blocks |-> f[Idle].cell[Blocks]]

(* ota_queryNextImageRspHandler: an image of another version.  *)
Offered(v) ==
  /\ Hears
  /\ client.status # "IN_PROGRESS"
  /\ v # Running

OfferSeen == [client EXCEPT !.blockRetry = 0, !.status = "IN_PROGRESS", !.timer = None]

OfferedAgain(v) ==
  /\ Offered(v)
  /\ Resumes(v) /\ client.info.pos = Blocks /\ CrcAgrees(client, flash)
  /\ ota_upgradeComplete(OfferSeen, flash, "SUCCESS")

Resume(v) ==
  /\ Offered(v)
  /\ Resumes(v) /\ client.info.pos # Blocks
  /\ client' = ota_sendImageBlockReq(OfferSeen)
  /\ Started
  /\ UNCHANGED kept

(* From the beginning: the slot is erased, a buffer for the header is      *)
(* taken from the pool.  Without one the handler returns as it stands.     *)
StartOver(v, buffer) ==
  LET begun == [OfferSeen EXCEPT !.offset = 0, !.info.crc = <<>>, !.ver = v,
                                 !.header = buffer]
  IN /\ Offered(v)
     /\ ~(Resumes(v) /\ (client.info.pos # Blocks \/ CrcAgrees(client, flash)))
     /\ flash' = [flash EXCEPT ![Idle] = Erased]
     /\ CASE ~buffer ->
               client' = begun /\ UNCHANGED <<ota_processing, poll>>
          [] buffer /\ ~client.server ->
               client' = Post(begun, "addr") /\ UNCHANGED <<ota_processing, poll>>
          [] buffer /\ client.server ->
               /\ client' = [ota_sendImageBlockReq(begun) EXCEPT !.info.flag = "MAGIC_0"]
               /\ Started
     /\ UNCHANGED <<nv, booted, resetting>>

(* No image, or the one that runs: the retries are cleared.  *)
NoOffer ==
  /\ Hears /\ client.status # "IN_PROGRESS"
  /\ client' = [client EXCEPT !.blockRetry = 0]
  /\ UNCHANGED theRest

QueryNextImageRsp ==
  \/ \E v \in Offers :
       \/ OfferedAgain(v) \/ Resume(v)
       \/ \E buffer \in BOOLEAN : StartOver(v, buffer)
  \/ NoOffer

(* ota_imageDataProcess on the block that is due, the bytes it hands to    *)
(* the flash being what of is asked for.  A write that does not read back  *)
(* (flash_writeWithCheck) or an NV item that cannot be written is ~ok.     *)
Due(c) == IF c.offset = c.info.pos + 1 THEN c.ver ELSE "garbled"

Headed(c) == [c EXCEPT !.header = FALSE, !.info.flag = "ELEMENT", !.info.pos = 0]

Stored(c) == [c EXCEPT !.info.crc = Append(@, Due(c)), !.info.pos = @ + 1]

Written(c, f) ==
  LET i == c.info.pos + 1
  IN [f EXCEPT ![Idle].cell[i] = IF @ \in {"erased", Due(c)} THEN Due(c) ELSE "garbled"]

Advanced(c) == [c EXCEPT !.offset = @ + 1, !.blockRetry = 0, !.timer = None]

(* The element goes on: c is to write its next cell.  The last one ends    *)
(* the download, if the CRC is right.                                      *)
Element(c, ok) ==
  LET f == Written(c, flash)
      stored == Stored(c)
      good == ok /\ f[Idle].cell[c.info.pos + 1] = Due(c)
  IN CASE good /\ stored.info.pos < Blocks ->
            /\ client' = ota_sendImageBlockReq(Post(Advanced(stored), "save"))
            /\ flash' = f
            /\ UNCHANGED <<booted, resetting, ota_processing, poll>>
       [] good /\ stored.info.pos = Blocks /\ CrcAgrees(stored, f) ->
            /\ client' = [Post(Advanced(stored), "save") EXCEPT
                            !.status = "COMPLETE", !.endRetry = 0, !.timer = "upgrade"]
            /\ flash' = f
            /\ UNCHANGED <<booted, resetting, ota_processing, poll>>
       [] OTHER -> ota_upgradeComplete(Advanced(stored), f, "INVALID")

Expects(off) == client.status = "IN_PROGRESS" /\ client.offset = off

HeaderBegins ==
  /\ Expects(0) /\ client.info.flag = "MAGIC_0" /\ client.header
  /\ client' = ota_sendImageBlockReq(Post(
                 [Advanced(client) EXCEPT !.info.flag = "CONT_HDR"], "save"))
  /\ UNCHANGED theRest

(* The end of the header saves it, with the server, and frees its buffer.  *)
HeaderEnds(ok) ==
  /\ Expects(1) /\ client.info.flag = "CONT_HDR" /\ client.header
  /\ Element(Headed(client), ok)
  /\ nv' = IF client'.status = "NORMAL" THEN NvEmpty ELSE [nv EXCEPT !.hdr = client.ver]

ElementGoesOn(ok) ==
  /\ client.status = "IN_PROGRESS"
  /\ client.info.flag = "ELEMENT" /\ client.info.pos < Blocks
  /\ Element(client, ok)
  /\ client'.status # "NORMAL" => UNCHANGED nv

(* Blocks nobody has asked for yet are passed over by the parser. *)
PassedOver ==
  /\ \E off \in 0 .. Blocks - 1 : Expects(off)
  /\ client.info.flag = "INIT_DONE"
  /\ client' = ota_sendImageBlockReq(Post(Advanced(client), "save"))
  /\ UNCHANGED theRest

(* What the parser does not expect, or nothing but passed over blocks. *)
Rejected ==
  /\ client.status = "IN_PROGRESS"
  /\ CASE client.info.flag = "MAGIC_0"   -> ~(Expects(0) /\ client.header)
       [] client.info.flag = "CONT_HDR"  -> ~(Expects(1) /\ client.header)
       [] client.info.flag = "INIT_DONE" -> client.offset = Blocks
       [] client.info.flag = "ELEMENT"   -> client.info.pos = Blocks
  /\ ota_upgradeComplete(Advanced(client), flash, "INVALID")

(* ota_imageBlockRspHandler, success: a block of the version that is       *)
(* downloaded, at the offset that is due (others are passed over) ...      *)
BlockRsp(ok) == HeaderBegins \/ HeaderEnds(ok) \/ ElementGoesOn(ok) \/ PassedOver \/ Rejected

(* ... or a block of another version: the download is over, the timer is   *)
(* left alone and the application is not told.                             *)
ForeignBlock ==
  /\ client.status = "IN_PROGRESS"
  /\ client' = [client EXCEPT !.status = "NORMAL"]
  /\ UNCHANGED theRest

(* WAIT_FOR_DATA: for some time, or with a new distance between requests.  *)
WaitForData ==
  /\ client.status = "IN_PROGRESS"
  /\ \/ client' = [client EXCEPT !.timer = "wait", !.blockRetry = 0]
     \/ \E p \in BOOLEAN : client' = ota_sendImageBlockReq([client EXCEPT !.period = p])
  /\ UNCHANGED theRest

ServerAborts ==
  /\ client.status = "IN_PROGRESS"
  /\ ota_upgradeComplete([client EXCEPT !.timer = None, !.blockRetry = 0], flash, "ABORT")

ImageBlockRsp ==
  /\ Hears
  /\ (\E ok \in BOOLEAN : BlockRsp(ok)) \/ ForeignBlock \/ WaitForData \/ ServerAborts

ImageDone(c) == client' = c /\ PollForAWhile /\ UNCHANGED <<kept, ota_processing>>

(* ota_upgradeEndRspHandler: upgrade now, later, or wait to be told. *)
UpgradeEndRsp ==
  /\ Hears
  /\ \/ /\ client.status \in {"COMPLETE", "WAITING"}
        /\ \/ ImageDone([client EXCEPT !.status = "COUNT_DOWN", !.timer = "upgrade"])
           \/ ota_upgradeComplete(client, flash, "SUCCESS")
     \/ /\ client.status = "COMPLETE"
        /\ ImageDone([client EXCEPT !.status = "WAITING", !.timer = "upgrade", !.endRetry = 0])

(* ota_ieeeAddrRspCb. *)
IeeeAddrRsp(ok) ==
  LET knows == [client EXCEPT !.server = @ \/ ok]
      halted == [knows EXCEPT !.timer = None]
      waits == client.status = "IN_PROGRESS" /\ client.info.flag = "INIT_DONE"
  IN /\ Hears
     /\ CASE ~waits -> client' = knows /\ UNCHANGED theRest
          [] waits /\ ok ->
               /\ client' = [ota_sendImageBlockReq(halted) EXCEPT !.info.flag = "MAGIC_0"]
               /\ Started
               /\ UNCHANGED kept
          [] waits /\ ~ok -> ota_upgradeComplete(halted, flash, "ABORT")

(* ota_nwkAddrReqCb: an answer that comes when a download has begun makes  *)
(* the client ask for a block, whatever it is doing.                       *)
NwkAddrRsp ==
  LET heard == [client EXCEPT !.asked = FALSE]
  IN /\ Hears /\ client.asked
     /\ IF client.info.flag = "INIT_DONE"
        THEN client' = heard /\ UNCHANGED <<ota_processing, poll>>
        ELSE /\ client' = ota_sendImageBlockReq([heard EXCEPT !.blockRetry = 0, !.timer = None])
             /\ Started
     /\ UNCHANGED kept

Server ==
  \/ QueryNextImageRsp \/ ImageBlockRsp \/ UpgradeEndRsp \/ NwkAddrRsp
  \/ \E ok \in BOOLEAN : IeeeAddrRsp(ok)

-----------------------------------------------------------------------------
(* The timer.  A callback that returns -1 removes it, whatever has become  *)
(* of it in the callback.                                                  *)

Only(c) == client' = c /\ UNCHANGED theRest

Expires(t) == Runs /\ client.timer = t

Off == [client EXCEPT !.timer = None]

(* The query goes out, or the address of a known server is asked for. *)
ota_periodicQueryServerCb ==
  /\ Expires("query")
  /\ client.info.flag = "INIT_DONE" /\ client.server
  /\ Only([client EXCEPT !.asked = TRUE])

(* The third time: aborted from within the callback. *)
ota_ieeeAddrRspWait ==
  /\ Expires("addr")
  /\ IF client.addrCnt + 1 < AddrRetries
     THEN Only([client EXCEPT !.addrCnt = @ + 1])
     ELSE /\ client' = [Completed([client EXCEPT !.addrCnt = 0], "ABORT")
                          EXCEPT !.timer = None]
          /\ Completes(flash, "ABORT")

ota_imageBlockRspWait ==
  /\ Expires("block")
  /\ LET c == [Off EXCEPT !.blockRetry = IF @ < BlockRetries THEN @ + 1 ELSE @]
     IN Only(Post(c, IF c.blockRetry >= BlockRetries THEN "timeout" ELSE "request"))

ota_sendImageBlockReqDelay == Expires("delay") /\ Only(Post(Off, "block"))

ota_imageBlockWaitCb ==
  /\ Expires("wait")
  /\ Only(IF client.status = "IN_PROGRESS" THEN Post(Off, "block") ELSE Off)

(* ota_upgrade. *)
ota_upgradeWaitCb ==
  LET again == client.endRetry + 1 < EndRetries
      tries == [Off EXCEPT !.endRetry = IF @ < EndRetries THEN @ + 1 ELSE @]
  IN /\ Expires("upgrade")
     /\ CASE client.status \in {"COMPLETE", "WAITING"} /\ again -> Only(Post(tries, "end"))
          [] client.status \in {"COMPLETE", "WAITING"} /\ ~again ->
               ota_upgradeComplete(tries, flash, "SUCCESS")
          [] client.status = "COUNT_DOWN" -> ota_upgradeComplete(Off, flash, "SUCCESS")
          [] OTHER -> Only(Off)

TimerExpires ==
  \/ ota_periodicQueryServerCb \/ ota_ieeeAddrRspWait \/ ota_imageBlockRspWait
  \/ ota_sendImageBlockReqDelay \/ ota_imageBlockWaitCb \/ ota_upgradeWaitCb

-----------------------------------------------------------------------------
(* The tasks, in the order they were posted. *)

Runnable(task) == Runs /\ client.tasks # <<>> /\ Head(client.tasks) = task

Taken == [client EXCEPT !.tasks = Tail(@)]

SendBlockReq ==
  \/ Runnable("block") /\ Only(sendImageBlockReq(Taken))
  \/ Runnable("request") /\ Only(ota_sendImageBlockReq(Taken))
AskAddress == Runnable("addr") /\ Only([Taken EXCEPT !.timer = "addr"])
ota_upgradeWithWait == Runnable("end") /\ Only([Taken EXCEPT !.timer = "upgrade"])

ota_imageBlockRspTimeout ==
  Runnable("timeout") /\ ota_upgradeComplete(Taken, flash, "ABORT")

(* Mutant: the count of blocks goes on after a save. *)
SaveKeepsCount ==
  /\ Runnable("save")
  /\ LET saves == client.saveCnt + 1 >= SaveEvery \/ client.status = "COMPLETE"
     IN /\ client' = [Taken EXCEPT !.saveCnt = @ + 1]
        /\ nv' = IF saves THEN [nv EXCEPT !.code = client.info] ELSE nv
  /\ UNCHANGED <<flash, booted, resetting, ota_processing, poll>>

ota_saveUpdateInfo2NV ==
  /\ Runnable("save")
  /\ LET saves == client.saveCnt + 1 = SaveEvery \/ client.status = "COMPLETE"
     IN /\ client' = [Taken EXCEPT !.saveCnt = IF saves THEN 0 ELSE @ + 1]
        /\ nv' = IF saves THEN [nv EXCEPT !.code = client.info] ELSE nv
  /\ UNCHANGED <<flash, booted, resetting, ota_processing, poll>>

TaskRuns ==
  SendBlockReq \/ AskAddress \/ ota_upgradeWithWait \/ ota_imageBlockRspTimeout
  \/ ota_saveUpdateInfo2NV

-----------------------------------------------------------------------------
(* zb_bdbInitCb, zb_bdbCommissioningCb: on a network, after the start or   *)
(* once more after it was lost.                                            *)
Joined ==
  /\ Runs
  /\ client' = ota_queryStart(client)
  /\ PollForAWhile
  /\ UNCHANGED <<kept, ota_processing>>

(* buttonCheckCommand, buttonKeepPressed. *)
KeyPressed == Runs /\ PollForAWhile /\ UNCHANGED <<client, kept, ota_processing>>

PollTimer == Runs /\ poll_rateAppCb /\ UNCHANGED <<client, kept, ota_processing>>

OtaNext ==
  \/ Server \/ TimerExpires \/ TaskRuns
  \/ Joined \/ KeyPressed \/ PollTimer
  \/ Reboot \/ PowerCut

OtaSpec == OtaInit /\ [][OtaNext]_otaVars

-----------------------------------------------------------------------------
(* At every moment, also between the writes of the two start flags, the    *)
(* slot the boot ROM takes holds the whole image of one version: whatever  *)
(* was resumed, garbled, saved for another version or cut off by a power   *)
(* failure (ota.c:138-231, 776-1118, 1404-1480).                           *)
AlwaysBootable == Slots!Bootable

(* No download ever erases or writes the slot the ROM would boot, which is *)
(* the one that runs, across changes of slots and power failures between   *)
(* their two writes (ota.c:126-135, 213-222, 1044, 1452).                  *)
RunningUntouched == Slots!Untouched

(* The client implements FlashSlots: only a whole image is ever flagged,   *)
(* only a flagged image boots, and after its flag is set the old one goes, *)
(* in this order (ota.c:138-231).                                          *)
ImplementsSlots == Slots!SlotsSpec

(* Whatever a server answers or leaves out, the client asks for images     *)
(* again: it keeps its timer, or a task that starts it; silent in the      *)
(* middle of a download it would refuse every later offer, too             *)
(* (ota.c:1356).  It falls silent only                                     *)
(*   - by a timer started for something that is over by now: a pause of a  *)
(*     download that a block of another version has ended, the end of an   *)
(*     upgrade that an abort or another offer has overtaken (ota.c:679-686,*)
(*     715-733, 1570-1580),                                                *)
(*   - in the callback that gives up the search for the server             *)
(*     (ota.c:411-426),                                                    *)
(*   - at the end of a download that does not restart the device, since    *)
(*     the image is refused or its start flag is not written               *)
(*     (ota.c:207-216), and                                                *)
(*   - when an offer finds no buffer for the header (ota.c:1459-1464).     *)
Overtaken ==
  \/ client.timer = "wait" /\ client.status = "NORMAL"
  \/ client.timer = "upgrade" /\ client.status \in {"NORMAL", "IN_PROGRESS"}
EndsInPlace ==
  /\ client.info.pos = Blocks /\ client'.info = client.info
  /\ client'.status = "NORMAL" /\ nv' = NvEmpty
AskingGoesOn ==
  [][Silent(client') =>
       \/ Silent(client) \/ resetting'
       \/ Overtaken \/ EndsInPlace
       \/ client.timer = "addr" /\ client.addrCnt + 1 = AddrRetries
       \/ client'.status = "IN_PROGRESS" /\ client'.offset = 0 /\ ~client'.header]_otaVars
=============================================================================
