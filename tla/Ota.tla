-------------------------------- MODULE Ota --------------------------------
(***************************************************************************)
(* The OTA upgrade client of two samples: test_device_cb of                *)
(* samples/ota_client_zed/src/ota_client_zed.c ("sample") and              *)
(* cluster_ota_clt_device_value_cb of                                      *)
(* samples/cli_nxp/src/cli_cluster-ota-upgrading.c ("cli").                *)
(*                                                                         *)
(* The stack downloads a file block by block and hands every block to the  *)
(* application, which keeps the header in RAM, writes the rest to the      *)
(* storage of the boot loader, checks it, and marks it ready.              *)
(*                                                                         *)
(* A file is a header of hl units and a body.  The first unit of the       *)
(* header holds header_length and unit Fixed - 1, the last one of the      *)
(* structure zb_zcl_ota_upgrade_file_header_t, total_image_size; optional  *)
(* fields follow.  The stack, the server, the storage and the boot loader  *)
(* are not in the repository and modelled from their use.                  *)
(***************************************************************************)
EXTENDS Integers

CONSTANTS
    Apps,        \* the applications to look at
    Fixed,       \* sizeof(zb_zcl_ota_upgrade_file_header_t), in units
    Files,       \* the files of the server: records of hl and body
    Blocks,      \* Blocks[app]: the sizes of blocks the server may choose
    SizeRange,   \* size_t holds 0 .. SizeRange - 1
    Capacity,    \* units of the storage
    MaxRepeats,  \* blocks handed over a second time
    MaxReboots   \* restarts of the device

ASSUME OtaAssumption ==
    /\ Apps \subseteq {"sample", "cli"}
    /\ Fixed \in Nat \ {0, 1}
    /\ Files \subseteq [hl : Nat, body : Nat \ {0}]
    /\ \A f \in Files : f.hl >= Fixed /\ f.hl + f.body < SizeRange /\ f.body <= Capacity
    /\ \A f \in Files : f.hl + Capacity <= SizeRange     \* the flash is far below 4 GB
    /\ Blocks \in [Apps -> SUBSET (Nat \ {0})]
    /\ SizeRange \in Nat \ {0} /\ Capacity \in Nat
    /\ MaxRepeats \in Nat /\ MaxReboots \in Nat

VARIABLES
    app,      \* the application that runs
    rx,       \* ota_rx_file: written, size, dev, and of its header hl and total
    stack,    \* the stack's download: state, file, size of blocks, file_offset
              \* of the next block and of the last one
    flash,    \* the storage: what each unit of it holds
    ready,    \* the file marked for the boot loader
    clean,    \* no block of this download was handed over twice
    budget    \* repeats and reboots left

otaVars == <<app, rx, stack, flash, ready, clean, budget>>

(* A first block is not exactly the fixed part of the header: no branch of *)
(* the handlers is meant for it.                                           *)
HeaderSplits == \A a \in Apps : Fixed \notin Blocks[a]

(* Blocks that come twice are too few for their count to wrap around.      *)
CountIsExact ==
    \A f \in Files, a \in Apps : \A b \in Blocks[a] : f.body + MaxRepeats * b < SizeRange

Total(f) == f.hl + f.body
NoFile == [hl |-> 0, body |-> 0]
Sizes == 0 .. (SizeRange - 1)
Units == 0 .. (Capacity - 1)
Blank == [file |-> NoFile, pos |-> 0]
Unit(f, k) == [file |-> f, pos |-> k]

NoRx == [written |-> 0, size |-> 0, open |-> FALSE, hl |-> 0, total |-> 0]
Idle == [state |-> "normal", file |-> NoFile, block |-> 1, offset |-> 0, last |-> 0]

-----------------------------------------------------------------------------
(* One block of the file: n units from offset o.                           *)

Minus(a, b) == (a - b) % SizeRange       \* subtraction of size_t

BlockLen(o) ==
    IF stack.block < Total(stack.file) - o THEN stack.block ELSE Total(stack.file) - o

(* The header in RAM after k units from the block at o were copied to it.  *)
(* More units than the block has come from the memory behind it.           *)
HdrCopied(o, n, k) ==
    LET f == stack.file
    IN  [rx EXCEPT
           !.hl    = IF o = 0 THEN f.hl ELSE @,
           !.total = IF Fixed - 1 \in o .. (o + k - 1)
                     THEN IF Fixed - 1 < o + n THEN Total(f) ELSE 0
                     ELSE @]

(* The four branches of ZB_ZCL_OTA_UPGRADE_STATUS_RECEIVE.                 *)
HeaderOnly(o, n) == o + n < Fixed
HeaderWhole(o, n) == o = 0 /\ n > Fixed
HeaderEnds(o, n) == ~ HeaderOnly(o, n) /\ ~ HeaderWhole(o, n) /\ o < rx.hl

(* What is written: w units of the block from its unit s on, at file       *)
(* offset at.                                                              *)
BodyPart(o, n, hl) ==
    [at |-> 0, from |-> Minus(hl, o), len |-> Minus(n, Minus(hl, o))]

DataPart(o, n) == [at |-> Minus(o, rx.hl), from |-> 0, len |-> n]

SizeKnownMut(r, o, n) == r
LargeMut(r, o, n) == [r EXCEPT !.size = r.total]
SizeKnown(r, o, n) ==
    IF HeaderWhole(o, n) \/ app = "cli" THEN [r EXCEPT !.size = Minus(r.total, r.hl)] ELSE r

(* zb_osif_ota_open_storage succeeded: a new file starts.                  *)
Opened(r) == [r EXCEPT !.written = 0, !.open = TRUE]

(* ota_client_zed writes at file_offset, the CLI behind what it has        *)
(* written.                                                                *)
WriteAtMut(r, part) == r.written
WriteAt(r, part) == IF app = "cli" THEN r.written ELSE part.at

(* The storage after zb_osif_ota_write of a part of the block at o: it     *)
(* takes no write without an open storage, or beyond it.                   *)
Written(r, o, part) ==
    LET at == WriteAt(r, part)
    IN  IF ~ r.open \/ at + part.len > Capacity THEN flash
        ELSE [k \in Units |-> IF k \in at .. (at + part.len - 1)
                              THEN Unit(stack.file, o + part.from + (k - at)) ELSE flash[k]]

(* The common end of the branches.                                         *)
Save(r, o, part) ==
    /\ rx' = [r EXCEPT !.written = (@ + part.len) % SizeRange]
    /\ flash' = Written(r, o, part)

ReceiveHeader(o, n) ==
    /\ HeaderOnly(o, n)
    /\ rx' = HdrCopied(o, n, n)
    /\ UNCHANGED flash

ReceiveFirst(o, n) ==
    LET h == HdrCopied(o, n, n)
    IN  /\ HeaderWhole(o, n)
        /\ Save(SizeKnown(Opened(h), o, n), o, BodyPart(o, n, h.hl))

ReceiveRest(o, n) ==
    LET h == HdrCopied(o, n, rx.hl - o)
    IN  /\ HeaderEnds(o, n)
        /\ Save(SizeKnown(Opened(h), o, n), o, BodyPart(o, n, h.hl))

ReceiveData(o, n) ==
    /\ ~ HeaderOnly(o, n) /\ ~ HeaderWhole(o, n) /\ ~ HeaderEnds(o, n)
    /\ Save(rx, o, DataPart(o, n))

Receive(o, n) ==
    ReceiveHeader(o, n) \/ ReceiveFirst(o, n) \/ ReceiveRest(o, n) \/ ReceiveData(o, n)

-----------------------------------------------------------------------------
(* The download.                                                           *)

(* ZB_ZCL_OTA_UPGRADE_STATUS_START: any other state is answered BUSY, and  *)
(* a file that is too large is refused; both change nothing.               *)
MayStartMut == stack.state \in {"normal", "waiting"}
MayStart == stack.state = "normal"

Start(f, b) ==
    /\ MayStart
    /\ b \in Blocks[app]
    /\ stack' = [state |-> "downloading", file |-> f, block |-> b, offset |-> 0,
                last |-> 0]
    /\ clean' = TRUE
    /\ UNCHANGED <<app, rx, flash, ready, budget>>

Downloading == stack.state = "downloading" /\ stack.offset < Total(stack.file)

Block ==
    LET o == stack.offset
    IN  /\ Downloading
        /\ Receive(o, BlockLen(o))
        /\ stack' = [stack EXCEPT !.offset = o + BlockLen(o), !.last = o]
        /\ UNCHANGED <<app, ready, clean, budget>>

(* The last block once more: the application warns of a bad offset and     *)
(* goes on.                                                                *)
Repeat ==
    LET o == stack.last
    IN  /\ stack.state = "downloading" /\ stack.offset > 0 /\ budget.repeats > 0
        /\ Receive(o, stack.offset - o)
        /\ clean' = FALSE
        /\ budget' = [budget EXCEPT !.repeats = @ - 1]
        /\ UNCHANGED <<app, stack, ready>>

(* zb_osif_ota_open_storage fails: the block is answered with an error.    *)
OpenFails ==
    LET o == stack.offset
        n == BlockLen(o)
        h == HdrCopied(o, n, IF HeaderWhole(o, n) THEN n ELSE rx.hl - o)
    IN  /\ Downloading /\ (HeaderWhole(o, n) \/ HeaderEnds(o, n))
        /\ rx' = [h EXCEPT !.open = FALSE]
        /\ stack' = Idle
        /\ UNCHANGED <<app, flash, ready, clean, budget>>

(* ZB_ZCL_OTA_UPGRADE_STATUS_ABORT: only reported.                         *)
Abort ==
    /\ Downloading
    /\ stack' = Idle
    /\ UNCHANGED <<app, rx, flash, ready, clean, budget>>

(* ZB_ZCL_OTA_UPGRADE_STATUS_CHECK: zb_osif_ota_verify_integrity accepts a *)
(* whole image and may miss damage.                                        *)
Body(f) == [k \in 0 .. (f.body - 1) |-> Unit(f, f.hl + k)]
Holds(f) == \A k \in 0 .. (f.body - 1) : flash[k] = Body(f)[k]

AcceptedMut(sound) == sound
Accepted(sound) == sound /\ rx.written = rx.size

Check ==
    /\ stack.state = "downloading" /\ stack.offset = Total(stack.file)
    /\ \E sound \in BOOLEAN :
          /\ Holds(stack.file) /\ rx.written = stack.file.body => sound
          /\ stack' = [stack EXCEPT !.state = IF Accepted(sound) THEN "downloaded" ELSE "refused"]
    /\ rx' = [rx EXCEPT !.open = FALSE]
    /\ UNCHANGED <<app, flash, ready, clean, budget>>

(* The stack tells the server of the refusal.                              *)
Refusal ==
    /\ stack.state = "refused"
    /\ stack' = Idle
    /\ UNCHANGED <<app, rx, flash, ready, clean, budget>>

(* ZB_ZCL_OTA_UPGRADE_STATUS_APPLY                                         *)
Apply ==
    /\ stack.state = "downloaded"
    /\ stack' = [stack EXCEPT !.state = "waiting"]
    /\ ready' = stack.file
    /\ UNCHANGED <<app, rx, flash, clean, budget>>

(* ZB_ZCL_OTA_UPGRADE_STATUS_FINISH: the CLI restores the attributes, and  *)
(* with them image_status.                                                 *)
Finish ==
    /\ app = "cli" /\ stack.state = "waiting"
    /\ stack' = Idle
    /\ UNCHANGED <<app, rx, flash, ready, clean, budget>>

(* ZB_ZCL_OTA_UPGRADE_STATUS_SERVER_NOT_FOUND                              *)
ServerNotFound ==
    /\ stack.state = "normal"
    /\ ready' = NoFile
    /\ UNCHANGED <<app, rx, stack, flash, clean, budget>>

(* A restart: RAM is lost, the boot loader installs what is marked ready   *)
(* (and zb_osif_ota_mark_fw_updated is the kernel's).                      *)
Restart ==
    /\ budget.reboots > 0
    /\ rx' = NoRx /\ stack' = Idle /\ ready' = NoFile /\ clean' = TRUE
    /\ budget' = [budget EXCEPT !.reboots = @ - 1]
    /\ UNCHANGED <<app, flash>>

-----------------------------------------------------------------------------
OtaInit ==
    /\ app \in Apps
    /\ rx = NoRx /\ stack = Idle
    /\ flash = [k \in Units |-> Blank]
    /\ ready = NoFile /\ clean = TRUE
    /\ budget = [repeats |-> MaxRepeats, reboots |-> MaxReboots]

OtaNext ==
    \/ \E f \in Files, b \in UNION {Blocks[a] : a \in Apps} : Start(f, b)
    \/ Block \/ Repeat \/ OpenFails \/ Abort
    \/ Check \/ Refusal \/ Apply \/ Finish \/ ServerNotFound \/ Restart

OtaSpec == OtaInit /\ [][OtaNext]_otaVars

-----------------------------------------------------------------------------
(* Properties.                                                             *)

(* Every variable keeps its type: in particular the size computed from the *)
(* header never wraps around and is never more than the storage holds.     *)
OtaTypeOK ==
    /\ app \in Apps
    /\ rx \in [written : Sizes, size : 0 .. Capacity, open : BOOLEAN, hl : Sizes, total : Sizes]
    /\ stack \in [state : {"normal", "downloading", "downloaded", "refused", "waiting"},
                  file : Files \cup {NoFile}, block : Nat, offset : Sizes, last : Sizes]
    /\ stack.offset <= Total(stack.file)
    /\ flash \in [Units -> [file : Files \cup {NoFile}, pos : Sizes]]
    /\ ready \in Files \cup {NoFile}
    /\ clean \in BOOLEAN
    /\ budget \in [repeats : 0 .. MaxRepeats, reboots : 0 .. MaxReboots]

(* An image is handed to the boot loader only when the storage holds the   *)
(* whole of it, even if zb_osif_ota_verify_integrity misses what is wrong: *)
(* the count of written units tells.                                       *)
AppliedIsWhole ==
    [][ready' # ready /\ ready' # NoFile => \A k \in 0 .. (ready'.body - 1) :
          flash[k] = Body(ready')[k]]_otaVars

(* A download in which no block was repeated is accepted, however the      *)
(* header is spread over the blocks                                        *)
(* (ota_client_zed.c:234 "If packet size < header size : Receive remaining *)
(* header and beginnning of data").  The CLI does so; ota_client_zed sets  *)
(* the size in its first branch only, and refuses a file whose first block *)
(* is shorter than the fixed header.                                       *)
CompleteIsAccepted == stack.state = "refused" => ~ clean

(* The same of every download whose size the handler learns: by the CLI    *)
(* always, by ota_client_zed from a first block that is longer than the    *)
(* fixed header, also when optional fields of the header come in a later   *)
(* one.                                                                    *)
SizeTold == app = "cli" \/ stack.block > Fixed
AcceptedIfTold == SizeTold => CompleteIsAccepted

(* Of the file being received nothing is stored in a wrong place, even     *)
(* when a block is repeated (ota_client_zed; the CLI appends it).          *)
NothingMisplaced ==
    app = "sample" /\ stack.state = "downloading" => \A k \in Units :
        flash[k].file = stack.file => flash[k].pos = stack.file.hl + k

(* What the boot loader is told to install is whole at every instant of    *)
(* ota_client_zed, which takes no new file while one is ready              *)
(* (zb_osif.h:812-814 "Mark new FW as absent so bootloader does not        *)
(* attempt to re-flash it. To be called when starting OTA."; the CLI does  *)
(* take one, and does not mark the old one absent).                        *)
ReadyIsWhole == app = "sample" /\ ready # NoFile => Holds(ready)
=============================================================================
