# TLA+ models of the NXP ZBOSS SDK

The SDK holds a closed Zigbee stack (`libs/`, described by the headers in `include/`), the Zephyr
glue the stack needs (`platform/`), and sample applications (`samples/`). What has state and is
written here is the glue, above all the NVRAM backend, and the samples. These modules model that
code, `.cfg` files check the models with TLC on small instances, and `*Proofs.tla` modules, `NvramRecords.tla` and `LowPower.tla` hold
theorems that TLAPS checks for every value of the constants.

    tlc -config MCNvram_orderly.cfg MCNvram.tla     # a run: see the table of runs
    tlapm NvramProofs.tla                           # the proofs: a few minutes per module, NvramRecords about ten

## 1. Inventory

| Component | State it keeps | Operations | Talks to | Hard to get right |
|---|---|---|---|---|
| **NVRAM backend** `platform/osif/zb_osif_nvram.c` | table of dataset positions, one RAM buffer with a flush flag, relocation in progress, records in Zephyr NVS | init (rebuilds the table), read, write, move, erase, flush, deinit | called by the stack, calls NVS | power failure between any two flash operations; one buffer for all datasets; the table is rebuilt by guesswork |
| **Simple gateway** `samples/simple_gw` | table of devices, alarms, scheduled callbacks, outstanding requests, the table in NVRAM | device announcement, four-step commissioning, timeouts, toggling, departure, restart | stack signals, ZDO/ZCL answers, NVRAM | answers that name no device, alarms and callbacks that name a slot, restart in the middle |
| **IAS zone sensor** `samples/ias_zone_sensor` | queue of notifications, notification in flight, retry count, join state and counter, battery averages, OTA download | status change, send, acknowledgement, retry with backoff, reset, WWAH retry policy, join and rejoin, measure, OTA | stack, CIE, hardware | a reset or a policy change while a notification is in flight; full queue; retries of a dropped event |
| **Low power** `platform/zb_zephyr_power.c` | configured, on | configure, off, on | stack, application, Zephyr's power policy | locks taken and given back in any order of calls |
| **Production configuration** `platform/osif/zb_osif_nvram_prod_{flash,ifr0}.c` | one cached header | read, check, convert | flash, IFR0 | layout conversion, bounds |
| **OTA partition** `platform/zb_zephyr_ota_partition.c` | open area | open, write, erase | flash | bounds |
| **Hardware crypto** `platform/zb_zephyr_hw_crypto_psa.c`, **serial** `zb_osif_serial.c` | none | AES, characters | PSA, UART | none |
| **Light control** `samples/light_control` | found bulb, its copy in NVRAM, alarms, failure count | join, search, bind, send commands, leave, restart | stack, NVRAM | the alarm of the search against the answer; a join that succeeds later; stopping a chain that is an alarm or a buffer request |
| **Bulb, light coordinator** `samples/{bulb,light_zc}` | attributes, NVRAM | attribute handlers, signal handler | stack, GPIO | none beyond one handler |
| **On/off switch and output** `samples/on_off_{switch_zed,output_zc}` | attributes | finding and binding (in the stack), a chain of toggles, retries of joining; an LED | stack, GPIO | one alarm chain that the signals cancel and start again |
| **OTA client** `samples/ota_client_zed`, `samples/cli_nxp/src/cli_cluster-ota-upgrading.c` | header received, size, count written, storage open | start, block, check, apply, finish, abort | stack, storage, boot loader | a header spread over blocks; repeated blocks; abort and restart; a ready image overwritten |
| **Multi-endpoint samples** `samples/multi_ep_{zc,zed}` | table of devices, with the endpoints and clusters of each | announcement, discovery of address, endpoints, clusters and attributes, leave, test steps | stack, ZDO/ZCL answers | alarms that name a device only, answers in any order, slots given to another device |
| **CLI** `samples/cli_nxp` | configuration, endpoints, TC swap-out backup, OTA server and client | one function per command | console, stack, NVRAM | its OTA client, see there |
| **Minimal ZED, provisioning** | none | signal handler, one write | stack, flash | none |
| **ZBOSS core** `include/`, `libs/` | closed | | all of the above | external |
| **API guide** `zboss-api-user-guide/` | none | Doxygen's pages and scripts | browser | none: generated |

All of it runs on the ZBOSS scheduler: one callback at a time, never preempted by another. The
interleavings are those of callbacks: stack signals, answers, alarms, callbacks scheduled by other
callbacks. A power failure or a restart may come between two instructions.

What makes each component correct:

* **NVRAM backend**: a dataset is stored whole or not at all; what the stack was told is stored
  reads back, also after a power failure; erased datasets stay away; a record never holds pieces
  of another when its tail was accepted; the table names one dataset per position, inside its page.
* **Simple gateway**: one slot per device; a free slot is given to whoever joins; every
  commissioning ends; answers are counted once and to their device; RAM and NVRAM agree on who is
  toggled; toggling is paced and goes on.
* **IAS zone sensor**: every status reported reaches the CIE in order, at most once per
  acknowledgement; only a full queue drops one; a retry sends the event it retries; the sender
  never stops while the queue holds something; joining backs off and ends.
* **OTA clients**: every unit of a file is written to its place; an image is handed to the boot
  loader only when the storage holds the whole of it, and stays whole; a complete file is accepted.
* **Light control**: whatever fails, a device in the network searches a bulb or drives the one it
  has; there is one chain of commands; too many failures stop it for good.
* **Multi-endpoint coordinator**: every endpoint a device lists and every cluster of it is asked for, and
  an answer is stored with the device it comes from.
* **Low power**: the system is awake while low power is off; a lock is given back only by who holds it.

## 2. Modules

| Module | Models |
|---|---|
| `NvramStore` | what the NVRAM backend promises: a store of whole values (abstract specification) |
| `Nvram` | `zb_osif_nvram.c`; implements `NvramStore` |
| `SimpleGw` | `simple_gw.c`, `ias_cie_addon.c` |
| `IzsNotify` | the notifications of the IAS zone sensor: `izs_device.c`, `izs_device_utils.c` |
| `Ota` | the OTA clients of `ota_client_zed.c` and of the CLI |
| `Light` | `light_control.c` |
| `MultiEp` | the discovery of `multiendpoint_zc.c` |
| `LowPower` | `zb_zephyr_power.c`, with its theorem |
| `NvramProofs`, `SimpleGwProofs`, `IzsNotifyProofs`, `LightProofs`, `OtaProofs`, `MultiEpProofs` | theorems about the module of that name |
| `NvramRecords` | further theorems about `Nvram`: the records it stores, and that it implements `NvramStore` |
| `MCNvram`, `MCSimpleGw`, `MCIzsNotify`, `MCLight`, `MCOta` | instances for TLC |
| `MCSamples` | an instance with the programs `Ota`, `Light`, `IzsNotify`, `MultiEp` and `LowPower`, one at a time |

The programs are separate images and share no state; what they share is the backend, which they
reach through the stack. So each module is composed with its own environment: the core around
`Nvram`, the stack and the devices around the samples.

### Nvram

`info`, `nvs`, `cache` (`localNvsId`, `localNvsBuf`, `localNvsFlush`) and `reloc`
(`relocateDataset`, `relocateOldInfo`, `relocateOffset`, `relocateLen`) are the C variables;
`boot` and `scan` are the progress and the loop variables of `zb_osif_nvram_init`, whose two loops
take one step per iteration. `jobs` and `free` belong to the core, which is closed: the model
makes the calls the comments of the backend anticipate. What it does beyond orderly writes is a set
of `Habits`; `Worlds` lists the sets an instance looks at, and `env` is the one of a behaviour. `last`
is the last call and what it returned.

`acked` is the model's own record: the version of each dataset the core counts on. It becomes the
version being written when the tail returns `RET_OK`, and nothing when the page is erased. A write that
fails or is cut short does not move it by itself: it may become what the flash then holds only if that
is a version the core may find (`Kept`, `Resolved`): the old one; the new one if power failed during
the call; or none if the backend deletes before it writes, which it does in two places, for a header
that announces another length (line 567) and for a record that NVS holds already (line 463). Any other
loss leaves `acked` pointing at what is no longer there, where `FlashHoldsAcked` sees it.

Data are pieces: a header, one piece of a body, a tail, each of length 1; `Junk` is memory that was
zeroed or never written. Each call of `read` and `write` is one step; a power failure may strike
before, between and after its flash operations: `WriteStops`, `ReadStops` and `ErasedUpTo` list the
flash contents it can leave. A failing flash has the same points: `FlushFails` is what
is left when the first `nvs_write` of lines 455-464 fails, or the second one after `nvs_delete`. One during the formatting of a page leaves the core without a
use of any page, as any other does. A core that keeps live datasets within one page is
assumed; this is what the size of the pages is for. `LiveLen` adds up their lengths with the recursive
function `Sums`, which the proofs can use. `NvramAssumption` says that no dataset is larger than a page.

Not modelled: encryption with the EdgeLock Enclave (it maps contents to contents), the dataset
version (no decision reads it), the reallocation of the buffer (line 120 makes it large enough), and
a 12-byte piece of a body that the backend takes for a header (line 335), since contents are
abstract.

### SimpleGw

`dev` is `g_device_ctx.devices`, `nv` the copy in NVRAM, `alarms`, `calls` and `reqs` what the
scheduler and the stack hold for the application. Alarms are a set, as
`ZB_SCHEDULE_APP_ALARM_CANCEL` sees them (handler and parameter), callbacks a queue, requests a
set. Each handler is one action, the chains that only wait for a buffer are one action with their
sender. `net`, `bound` and `conf` are the world: who is in the network, who accepted the binding and
the reporting. `since` counts runs of `toggle_bulbs` since a slot's last toggle, for `TogglePaced`, and nothing but
a toggle sets it back: not a failure, not another device in the slot, not a restart.

Time appears as order only: the 5 s alarm of a discovery fires before its 30 s timeout
(`FindOnoffDeviceTmo`, guard `~ Expire("onoff", i)`), and a request is answered or given up before
the timeout unless the habit `"late"` is allowed. A device is its short address, and its IEEE
address carries the same name; devices keep their address. `g_active_cmds` (traced only) and the
endpoint are left out.

### IzsNotify

`ntf` is the sender's part of `g_device_ctx` (`ias_zone_queue`, `notification_in_progress`,
`retry_backoff_cnt`, `notification_buf`, `enroll_req_generated`) with the packets (`air`) and
callbacks (`calls`) that wait in the stack; `retryAlarms` counts alarms of `izs_resend_notification`.
`Send` is `izs_send_notification`, the states it may leave, used by every handler that calls it.
There is one notification buffer: `buf` names the event it holds, and `OnItsWay` counts the places
that will use it (`Pending`, with the retry callbacks counted by `Resends`). An event is a change of status, numbered; `heard` and `acked` are what the CIE
received and acknowledged. A packet whose acknowledgement is lost was received or not (`NotSent`).

The sample is modelled as its build files make it, without `IZS_WWAH`,
`ZB_SAMPLES_USE_REJOIN_BACKOFF` and `IZS_OTA`; retry intervals are time and are left out, the count
that decides them is not. The enrollment method is the default of the sample, `AUTO_ENROLL_REQUEST`: a written CIE
address is followed by an enroll request (line 949). `izs_read_sensor_status` is empty in the sample and does nothing here.
`detector_trouble` is never set, so a reset queues no event (line 423).

### Ota

One module has both clients, since `cli_cluster-ota-upgrading.c` and `ota_client_zed.c` have the same
four branches for a block: the header goes on (`ReceiveHeader`), the first block holds all of it
(`ReceiveFirst`), this block ends it (`ReceiveRest`), the body goes on (`ReceiveData`). `app` tells
which client runs; they differ in where they write (`WriteAt`), in whether the size is set in the
third branch (`SizeKnown`), and in what follows an upgrade (`Finish`). `rx` is `ota_rx_file`, with
the two header fields the code reads. Differences of `size_t` are `Minus`, modulo `SizeRange`; the
flash holds units that name their file and their place in it. The stack's download, the storage
and the boot loader are external: `stack`, `flash`, `ready`. `zb_osif_ota_verify_integrity` accepts
a whole image and may miss damage (`sound` in `Check`), so that what the sample's own count
adds is seen. Like any storage it takes no write beyond its end (`Written`); the length of line 224,
which wraps when the first block does not hold the whole header, is such a write. A block may come twice (the code warns of a wrong offset and goes on), storage may fail
to open, a download may be aborted, and the device may restart.

The server chooses the blocks. They may hold the whole header, or split it in its fixed part (the third branch
of `ota_client_zed` then never sets the size) or in the optional one. Two things are assumed
where a property needs them. `HeaderSplits`: a first block is not exactly the fixed header, for which no
branch is meant. `CountIsExact`: repeated blocks are too few for the count of bytes to wrap around.
`MCOta` states them as an ASSUME; the theorems that need them have them as hypotheses (together,
`BlocksFit`). `SizeTold` names the downloads whose size the handler learns: those of the CLI, and those of
`ota_client_zed` whose first block is longer than the fixed header.
`OtaAssumption` says that header and storage
together are shorter than `size_t` can count.

### Light

The sample is modelled as its header builds it: it searches by itself and has no buttons. `timers`,
`waits`, `todo` and `asked` count the alarms, the requests for a buffer, the callbacks and the
ZDO requests that are under way, `sent` the commands whose status has not come. Alarms and
requests are told apart because `ZB_SCHEDULE_APP_ALARM_CANCEL` reaches the former only; with
`ZB_ALARM_ANY_PARAM` it cancels one alarm (`CancelOne`, `zboss_api_core.h:399-404`). `world` says
which bulbs hear a broadcast and which mishaps happen. Time appears as order: an answer comes before
the alarm that waits for it unless the world has `"late"` (`InTime`). The status of a command comes
within its 15 s likewise. The failure count is kept up to one above the limit, because
only equality with the limit has a consequence.

### MultiEp

`devices` is `g_device_ctx.devices`: a device is its short address, an endpoint its place in the list
(the code finds the place by the endpoint's number), and of the clusters `asked` holds those whose
`attrs_state` has left `NO_ATTRS_INFO`. `pending` counts the alarms and callbacks that wait, by handler
and slot, since several alarms of one handler for one device are what the code relies on; `reqs` are the
requests under way. `former` records which slots had another device before: what the table
holds of it is not erased, and the promise is about the others. `wild` is set when
`simple_desc_callback` stores to an index it did not find, after which anything may follow and the model
stops. The requests for a description are sent with an endpoint nobody wrote when none is left
to ask for (`SendSimpleDescReq`): any number.

### LowPower

The three functions, called in any order by the stack and the application, in a build with
`CONFIG_PM`. `locks` counts `pm_policy_state_all_lock_get` less `_put`.

## 3. Runs

| Run | Question | Bounds |
|---|---|---|
| `nvram_orderly` | One dataset at a time, with relocation and power failures everywhere but in the gap of `nvram_gap`: no torn record (`NoTornRecord`), what was acknowledged reads back (`CommittedReadable`), nothing erased returns (`NothingResurrected`), a rebuilt table fits its pages (`RebuildFits`) and is unambiguous (`LookupUnambiguous`), and the backend implements `NvramStore` (`ImplementsStore`) | 2 datasets of 3 or 4 pieces, 2 pages of 9, 2 versions |
| `nvram_unruly` | Three environments. Other records are touched between a header and its tail: what an accepted tail leaves in the flash is whole (`AcceptedIsWhole`). Copies without a read before, erasures midway: identifier 0 is never stored, whatever the stale flush flag after an erase (`ReservedIdNeverStored`). `nvs_write` fails, copies, move, deinit, the gap of page 0: the flash holds the version accepted last (`FlashHoldsAcked`). In all, types hold (`TypeOK`) | 1 dataset of 2 or 3 pieces and 2 page headers, 2 pages of 6, 2 versions |
| `nvram_gap` | **violated**: `CommittedReadable` when power fails while page 0 has no header | 2 datasets |
| `gw_failing` | Several devices commissioned at once, any request may fail, more devices than slots: a discovery is always watched (`DiscoveryIsWatched`), a newcomer gets a free slot (`JoinerIsAdopted`) | 2 slots, 4 devices |
| `gw_reboot` | Departures, repeated announcements, restarts and toggling: NVRAM agrees with RAM (`PersistedAgrees`), no device has two slots (`OneSlotPerDevice`), toggles keep their distance across failures, departures, reuse of the slot and restarts (`TogglePaced`), a completed device keeps its slot until it leaves (`CompletedStays`) | 2 slots, 2 bulbs |
| `gw_live` | Fair scheduling: every bulb is commissioned (`OnOffCompletes`), is toggled again and again (`KeepsToggling`), and every answer counts once (`EveryAnswerCounts`) | 2 slots, 2 bulbs and a sensor |
| `gw_wrongslot` | **violated**: `CompletedIsCommissioned` | 2 slots, 2 bulbs |
| `gw_stuck` | **violated**: `DiscoveryEnds` | 2 slots, 1 bulb |
| `izs_reset` | **violated**: `NothingLost` | queue of 2, 2 events, 1 reset |
| `ota_split` | **violated**: `CompleteIsAccepted` | `ota_client_zed`, 2 files, blocks of 1 to 6 units with a fixed header of 2 |
| `samples` | The OTA clients: types, and sizes that do not wrap (`OtaTypeOK`), a complete file whose size was set is accepted (`AcceptedIfTold`), nothing is written to a wrong place (`NothingMisplaced`), what is applied is whole (`AppliedIsWhole`) and stays so (`ReadyIsWhole`). The light control: the search always goes on (`SearchGoesOn`), one chain of commands (`OneChain`), failures stop it (`StopsOnFailures`). The sensor, with lost packets, lost acknowledgements, rejoins, enrollment, check-in and a reset: types and the size of the queue (`ZoneTypeOK`), the sender does not fall asleep (`SenderAwake`), the one buffer is in one place (`OneOwner`), only a full queue, a refusal or a reset loses an event (`LostOnlyByReset`), the last event the CIE hears is the newest (`NewestArrives`), the queue empties (`Drains`). The multi-endpoint coordinator: every endpoint and cluster is asked for (`DiscoveryGoesOn`). Low power: locks match what was asked (`LocksMatch`) | 2 files, blocks of 1 to 6 units, storage of 4, 2 repeats, 1 restart; 2 bulbs, 3 worlds, limit of 2 failures; queue of 2, 3 events, 2 retry counts, 1 reset; 2 slots, 2 devices of up to 2 endpoints and clusters, 1 slot reused; 3 locks |
| `light_join` | **violated**: `JoinedSearches` | 1 bulb, a failed first join |

Why the bounds are enough. For the NVRAM backend everything interesting happens between two
datasets, or between the old and the new place of one: two pages make relocation, erase and reuse
possible, records of three pieces have a header, a body and a tail, and two lengths make a dataset
change its length. Two versions tell old from new. `nvram_unruly` has one dataset, which with the
headers of the pages still makes three records share the buffer, and spends its states on
misbehaviour instead; its dataset changes its length too. For the gateway, answers can be
confused as soon as two devices wait for the same one; a third and a fourth device make the table
overflow. `MaxCalls` bounds scheduled callbacks; at most one per device is ever needed.
For the sensor, three events overflow a queue of two while the first is in flight, two retry
counts make the capped count and the one below it, and one reset is enough to strike at every
point. For the OTA clients, a file with an optional header field and one without, and blocks below, at
and above the length of the header, reach every branch in every order; the storage takes more than
one body, and a size that wraps falls outside it. For the light control, one bulb is
what the code counts on and two are what confuses it; two failures tell the limit from one below and
one above. `Depth` bounds each count of pending things: more than two are never reached
with one bulb, which `OneChain` and the invariant of its proof confirm. For the
multi-endpoint coordinator, two devices and two slots confuse what can be confused, one with two
endpoints too large for the table and another with one of two clusters give every endpoint an alarm of its own and every
cluster a request after the one before, and make a reused slot differ from a new one, and one
slot given to another device reaches everything that reuse changes. Three locks are one more than the two
a sequence of calls needs to leave one over. `samples` runs the five
programs as alternatives, never interleaved. `CHECK_DEADLOCK FALSE` is set for the gateway,
which rests when every device is settled and toggling is off, for the sensor, which rests when
nothing happens, and for the samples, which rest once the light control has given up or `Depth`
is reached.

Fairness (`FairSpec`): the scheduler runs every callback, every alarm fires, the stack answers
every request or gives it up (it has timeouts of its own), and `toggle_bulbs`, which schedules itself,
goes on. Nothing is assumed of the devices: they need not join, answer or stay. For the sensor, the
scheduler runs callbacks and alarms, the stack ends every transmission, and a transmission that is
repeated for ever is acknowledged some time (strong fairness of `Sent`): the retries never give
up, and no queue can drain to a CIE that never answers. `samples` asks this of the behaviours that are
the sensor's (`InZone`), and nothing of the other programs. Nothing is assumed of the CIE's commands, of
rejoins or of resets; `Drains` speaks of a sensor that stays enrolled.

### What the violated runs show

* `nvram_gap`: the scan of the datasets starts from the header of page 0 (lines 221-242). If power
  fails after page 0 was erased and before its header is written again, while datasets live on
  page 1, the start places none of them: they are in NVS, and cannot be read.
* `gw_wrongslot`: the answers to bind and configure reporting name no device, and
  `bind_device_cb` and `configure_reporting_cb` (lines 604, 664) give them to the first slot that
  waits. With two bulbs in commissioning one is taken for commissioned on the answer of the
  other. `EveryAnswerCounts` shows what is left: the numbers are right, the names are not.
* `gw_stuck`: the discovery timeout is cancelled by the first answer. When a later request
  of the chain fails, its callback does nothing (line 536) and nobody retries or frees the slot.
* `izs_reset`: a reset to factory defaults forgets the queue and `notification_in_progress` but not
  the packet that is with the stack. When its acknowledgement comes, the callback releases the first
  element of the queue (line 1331), which by then may be an event of the new life that was never
  sent. `LostOnlyByReset`, `OneOwner` and `NewestArrives` are the same promises for every behaviour in which
  no reset struck while a notification was on its way (`hit`).
* `ota_split`: the comment at ota_client_zed.c:234 announces a branch for a first block that is shorter than the
  header, and lines 235-260 do save such a file; but they leave `size` as it was, where line 223 sets
  it and where the CLI does (line 950), so the check compares the count with the size of an
  earlier file, or with 0, and refuses a download of which nothing is missing. `AcceptedIfTold` is the
  same promise for the downloads whose size is set.
* `light_join`: readme.txt:86 says that a light control that joins searches. The search starts on the
  signals of a first start and of a reboot only. When the first attempt to join fails, the retry
  commissions with network steering, whose success is another signal, traced as unknown (line 246):
  the device is in the network and searches nothing. `SearchGoesOn` is the same promise for
  a device that joins at its first attempt and is not told to leave.

### Observations kept without a run

* NVRAM: reads of an erased old place are still answered from `relocateDataset` (line 638);
  `zb_osif_nvram_move` returns `RET_OK` without moving (line 745), contrary to `zb_osif.h:657-669`;
  with `"blind"` writes, a stale `relocateOffset`/`relocateLen` makes the backend refuse or skip a piece
  of another relocation (line 703, comment at 709), and `CommittedReadable` and
  `FlashHoldsAcked` fail; `zb_osif_nvram_deinit` (line 291) keeps `localNvsId` and the table while
  the next start allocates a fresh buffer, and with two datasets the table becomes ambiguous. A dataset
  touched while another is half written stores the torn record early (line 486), and a power failure
  then leaves it: nothing is promised of a record before its tail. `AcceptedIsWhole` is what remains, for
  datasets that change their length too; it needs a core that reads before it writes, copies nothing and
  erases no page midway, and a flash that works, since the result of that early write is dropped (line
  487). A piece that is refused (line 709) leaves the buffer half written and its flag set, and a later
  switch of datasets stores that. After a failed write that announced another length the
  table keeps the length that was not written, so the next record of the old length deletes what is
  stored before it is written (line 567).
* Gateway: the slot of a departed device keeps its short address, so the device is "known" and
  ignored when it returns (line 250); a reused slot keeps the IEEE address of its former device until
  the new one is known (line 274); a callback for a slot that was zeroed sends its request to
  address 0, the gateway itself (line 510); a slot's counter is looked at i + 2 times between two toggles
  (lines 958-967), so the period is one run of 5 s longer than readme.txt:67 says (T = device_index * 5 s, index
  counted from 1), and `TogglePaced` states what the code keeps; a
  device restored in the middle of its commissioning after a restart has no timer (line 782); the
  readme speaks of 20 devices, the table has 64 slots.
* Sensor: an enroll request that is lost is not repeated, since `enroll_req_generated` stays set (line
  1210), and the branch that would send one from `izs_send_notification` cannot be reached in the
  default configuration; the comment of `izs_custom_retry_backoff` gives 2-5-10-15-20 seconds
  (line 1407), the code waits 1, 4, 8, 16...; after a rejoin with an empty queue the CIE is not brought up
  to date, because `izs_read_sensor_status` is empty (lines 725-737). In a build with `IZS_WWAH`,
  discarding an event (line 1384) resends the packet of the event just dropped, whose
  acknowledgement releases the next one unsent. A sensor that is not enrolled and fails to join never
  tries again.
* OTA client sample: a first block exactly as long as the fixed header falls to the branches of later
  blocks (`HeaderSplits` excludes it); a header with all optional fields is 69 bytes, more than a block of
  64, and the subtraction of line 224 wraps: the write of that length is left to the storage to refuse. An
  abort leaves the storage open; the baud rate divides by the seconds elapsed, which may
  be 0 (lines 296-297); the client is initialised after a first start but not after a reboot.
* CLI OTA client: a second download writes over an image that is still marked ready, against
  zb_osif.h:812-814; a repeated block is appended; `zb_osif_ota_mark_fw_ready` gets a NULL device.
* Light control: the search is repeated once; a binding that fails leaves nothing scheduled; the
  status of the On/Off binding is not looked at (line 454); two bulbs that answer mix the
  addresses of one with the other's and make two chains of commands, and a late success resets the
  count of a chain that was stopped; the stop at the failure limit cancels the alarm and misses
  a pending request for a buffer, which `StopsOnFailures` shows to be harmless for one bulb.
* Multi-endpoint coordinator: a slot that is given to another device keeps the number, states and
  clusters of the former one's endpoints (line 704), so the discovery takes them for done: a
  request with an unwritten endpoint is sent (line 592), whose description is then stored at an index
  nobody checked (line 557). A device that leaves before its IEEE address is known keeps its slot
  (line 747: it is looked up by IEEE address), and one that left is marked `COMPLETED` by an address that comes late (line 849); one that left
  and returns is known and ignored. A descriptor request that fails leaves its endpoint
  `REQUESTED_CLUSTER_INFO`. `send_attr_disc_req` does not give its buffer back when nothing is left to ask (line 476): one
  buffer for every endpoint. The test steps of all devices share one counter.
* Low power: disable, on, enable, on leaves a lock that is never given back, since
  `zephyr_low_power_on` records that low power is on when it is disabled and gave nothing back (line 49); this is what
  `LocksMatch` excepts once low power was disabled.
* Bulb: bulb.c:577-618 closes the network it opened after 10 s.

## 4. Proofs

Every theorem holds for all values of the constants that satisfy the module's assumption
(`NvramAssumption`, `SimpleGwAssumption`, `IzsNotifyAssumption`, `LightAssumption`, `OtaAssumption`,
`MultiEpAssumption`, `LowPowerAssumption`), and in every
environment, unless its statement says otherwise.

`NvramProofs`, for any number of datasets and pages and any lengths:

* `NothingUnderZero`: `Spec => []ReservedIdNeverStored`, for any `Worlds`. An erase sets `localNvsId` to 0 and leaves
  the flush flag, so a flush under identifier 0 does happen. It stores nothing because entry 0 of
  the table has length 0, and it has length 0 because no header names dataset 0. A header may come
  from the core, from the buffer or from a record read back, so `NvramInv` says of every piece, in
  the flash, the buffer and the core's hands, that it is `Named`. `FlushKeeps`, `LoadKeeps`,
  `ReadKeeps` and `WriteKeeps` follow the calls of the backend, `CoreKeeps` and `PowerKeeps` the two ends of
  each; `FoundIsNamed` says that `find_dataset` never answers 0.
* `PlacesAreUnshared` and `TypesAreKept`: `LookupUnambiguous` and `TypeOK`, in `Tame` environments:
  without deinit, and without copies where datasets are interleaved. With deinit the first is false (see
  above). The invariant `TableInv` says that two entries of the table share no position
  (`Disjoint`), that all lie in the used part of their page (`Within`, `free`), where the
  rebuilding stands (`Rebuilding`), and that a record being written lies in its place (`JobFits`). Of
  every header, in the flash or the buffer, it says that it is the first piece of its record and
  announces another one (`Rows`): so a header that a read finds cannot be registered inside a dataset.

`NvramRecords`, about what is stored. `Settled` environments write one dataset after the other; either
`nvs_write` may fail and page 0 may be without its header, or datasets are copied. In `Calm` ones nothing
but the power fails, with moves, copies and erasures, and it fails anywhere but in the gap in which page 0 has no
header and datasets are stored: there `nvram_gap` shows that a start places none. `StoreInv` has
one part for each, on top of `TableInv`, which its proof uses at every step:

* `RecordsAreWhole`, `AcceptedIsStored` (`Settled`): `NoTornRecord`,
  `FlashHoldsAcked`. The first part, `RecordInv`, says that every item in the flash is missing or a whole
  record of its identifier (`Whole`), and that while a record is written the buffer is its own and
  holds the pieces written so far; of a copy, all of them, because the copy repeats what
  is there (`JobBuffered`). This is why a write that ends the record stores a whole one, and why a
  power failure finds the old or the new. `AckedRecord` adds that it is the version the core counts on.
* `AcceptedIsReadable`, `ErasedStaysErased`, `RebuildingFits` (`Calm`, the last with two pages or more):
  `CommittedReadable`, `NothingResurrected`, `RebuildFits`. The second part, `CalmInv`, says that
  table, flash and buffer agree on what is not being written (`Synced`), that all lengths in
  the flash add up to what a page holds behind its header (`Filled`), and that the rebuilding is as far as the
  lengths of the datasets placed so far (`Placing`). The lengths are added with `Sums`: `SumsRec`
  and what follows it prove how a sum changes with one length. The rebuilding
  leaves page 0 only when it is exactly full, and then nothing is left to place.
* `BackendIsStore` (`Calm`): `Spec => ImplementsStore`, the refinement of `NvramStore` that `nvram_orderly`
  checks. The store's values are the versions in the flash, what is pending the versions being written,
  and the place of a dataset its page in the table; `cause` is the last call, or the call a
  power failure cut short, so that the store can say that the failure touches what that call was about and
  nothing else. Each action maps to a step of the store or to a stutter, one lemma each: the write that begins a
  record to `Begin` (`HeaderMaps`), the one that ends it to `Commit`, pieces between them, reads and moves to `Touch`
  (`NextMaps`, `ReadMaps`, `MoveMaps`), a start to `Found` (`BootMaps`), an erasure to `Erase` (`ErasedMaps`). A power failure maps
  to `PowerFailure`, which changes nothing, when nothing was being changed; to `Interrupted` in a write, with the old
  version, the new one, or none where the same record is written again or another length announced; and
  to `EraseInterrupted` in an erasure, with any part of the page (`InitMaps`, `StepMaps`).

`SimpleGwProofs`, for any number of slots and devices, any `MaxCalls`, and any `Env` unless a hypothesis says otherwise:

* `TypeCorrect`: `Spec => []TypeOK`. `TypeOK` is inductive, and is proved only, no run repeats it. One lemma per kind of write
  (`Updates`, `Copies`, `Counters`, `Scheduled`, `Started`, `Additions`), one about the lookups
  (`Lookups`, from `FirstFinds`, from `Least`), and one step per action.
* `DevicesAreDistinct`: `Spec => []OneSlotPerDevice`: no device has two slots, in RAM or in NVRAM. The
  invariant speaks of all slots, free ones included, because a departed device keeps its address
  in its slot and is found there: without that the induction fails at `Adopt`. An address enters a
  slot in `Adopt` only, when no slot has it; every other step keeps or zeroes addresses (`Kept`),
  and the copies to and from NVRAM keep them (`Saved`, `Restored`).
* `TogglesArePaced`: `TogglePaced`. The counter of a slot and the runs since its last toggle add up
  to its period or more; all other steps leave the counters of commissioned slots alone or set one above its
  index (`Calm`), as commissioning a slot and restoring it do too. No hypothesis on `Env`.
* `DiscoveriesAreWatched` (no restarts: a restored discovery has no timer): `DiscoveryIsWatched`. What
  watches a slot (`Watched`) is named by the slot, so steps for others keep it; a late answer that
  finds a slot cancels that slot's timeout together with its state.
* `JoinersAreAdopted` (no device leaves by itself or announces itself again): `JoinerIsAdopted`. `NoneLeft`: every
  slot, in RAM and NVRAM, belongs to a device in the network, and one that is told to leave has no slot.
* `TableIsPersisted`, `CompletedKeepsItsSlot` (joins one at a time, answers in time): `PersistedAgrees`,
  `CompletedStays`. `OneAtATime`: timers, callbacks and requests are one token of one slot, which is not a
  commissioned one; so the slot that is saved is the one that changed, and the slot that a timeout
  removes is not commissioned. `PersistInv` adds that a slot in use has its addresses.
* `AnswersAreCounted` (nothing fails; joins may overlap): `EveryAnswerCounts`. Each slot has its own
  chain (`ChainInv`), of one timer, callback or request (`NoRepeat`), whose requests go to devices that own a slot
  (`Owner`). The answers name no slot, so the proof counts: the slots that wait for an answer are as
  many as the devices that have not given it (`Counted`), so an answer finds one.

`IzsNotifyProofs`, for a queue of two or more, any number of events and resets, with and without refusals:

* `NotificationTypes`, `SenderNeverSleeps`, `BufferHasOneOwner`, `OnlyResetsLose`, `NewestIsHeard`: `ZoneTypeOK`,
  `SenderAwake`, `OneOwner`, `LostOnlyByReset`, `NewestArrives`, from one invariant, `IzsInv`. A sensor that
  knows the CIE is enrolled or has asked (`Asked`), so that `izs_send_notification` sends or does nothing
  (`Sends`). The number of packets, alarms and retry callbacks (`Pending`) is positive while a
  notification is in progress, whatever happens (`Working`); it is exactly 1, and 0 otherwise, until a reset
  strikes a notification on its way (`Single`): then the end of a transmission is that of the oldest
  event, so that `Released` gives up an acknowledged one (`Kept`). The newest event is the last of
  the queue, and when the queue empties it is the one just heard (`Newest`). `QueuePut` overwrites the last element,
  which is not the first in a queue of two: this is where the proof needs `QueueSize >= 2`.

`LightProofs`, for any number of bulbs, any limit of failures and any `Worlds`:

* `LightTypeCorrect`: `LightSpec => []LightTypeOK`, with `Fresh`: `Started` alone adds to an alarm
  without looking at its bound, and then nothing is under way. This too is proved only.
* `OneChainAlways`, `FailuresStop`, `SearchNeverStalls`: `OneChain`, `StopsOnFailures` and
  `SearchGoesOn`. One argument gives the three: with one bulb that answers in time, the search and
  what follows it are one token that the handlers pass on (`OneToken`: `Search + Chain <= 1`). The
  alarm that repeats the search makes a token, and fires only when there is none, since an answer
  cancels it: it cancels one alarm, which is the only one (`OneCancelled`). A command is under way only while the alarm of the next one runs (`Paced`), so that
  the stop at the failure limit takes the token away (`Stopped`). Where joining and answers do
  not fail, no step drops the token (`Kept`).

`OtaProofs`, for any files, storage and restarts:

* `TypesAreKept`: `OtaTypeOK`, both clients, without a hypothesis. What is known of the header follows from what
  has come (`HeaderKnown`), and a length that wrapped around is never written, because it is more than the
  storage holds (`WrittenTypes`, `OtaAssumption`).
* `ToldDownloadsAreAccepted`, `OnlyWholeImagesAreApplied` (`BlocksFit`): `AcceptedIfTold`, `AppliedIsWhole`, both clients. The
  count of written bytes is what has come of the body and an excess `e` for repeated blocks (`CountedAs`),
  which only grows and is 0 if no block came twice. The size is compared with the count: equal
  means no excess, and without excess everything is stored.
* `NothingIsMisplaced` and `ReadyStaysWhole` (`HeaderSplits`, about `ota_client_zed`, however else the header is split): `NothingMisplaced` and `ReadyIsWhole`. The invariant says
  that all units are in the place of their file (`Placed`), and that what has come of the file being
  received is stored (`Got`). `BlockIsPut` shows that each branch writes a block to its
  place and nothing else: a difference of lengths does not wrap (`NoWrap`), or is more than the storage holds; a repeated
  block then changes nothing. A check passes with everything stored, and nothing is written until
  the restart.

`MultiEpProofs`, for any table, devices and endpoints:

* `DiscoveryAlwaysGoesOn`: `MultiSpec => []DiscoveryGoesOn`. The invariant says of a slot with its first
  device (`Orderly`) that the list of endpoints is asked for once, and that the slot is blank till it comes; so
  its answer adds as many alarms as there are endpoints not asked for, and each alarm takes one of
  both. A description is asked for only of endpoints in the list, hence stored in the table. That the
  requests to other devices do not matter needs that no device has two slots (`OneSlot`) and that every
  request goes to one that was met (`Met`). `Others` reduces a step to the slot it concerns.

`LowPower`:

* `LocksAlwaysMatch`: `PowerSpec => []LocksMatch`, whatever is called in whatever order.

Where a proof speaks of a table that is searched, it rests on `Least`: a nonempty set of naturals has a
least element. That is also how what is said of `Sums` for one length after the other is proved.

Every other invariant and action property of the passing runs is stated by a theorem. Only model-checked are:

* liveness under fairness, which is beyond the prover: `OnOffCompletes`, `KeepsToggling`, `Drains`;
* `AcceptedIsWhole`, about datasets that are interleaved: the records that are put aside are not whole, and the
  invariants of `NvramRecords` are about datasets written one after the other;
* what lies outside the hypotheses of a theorem and inside a run: `TypeOK` and `FlashHoldsAcked` in the
  environments of `nvram_unruly` that are neither `Tame` nor `Settled`. There is deinit, after which
  positions do overlap, and copies while `nvs_write` fails, the only way to the failing second
  `nvs_write` of line 464.

## 5. Not modelled

* **Parts of modelled components.** NVRAM: encryption with the EdgeLock Enclave, buffer reallocation,
  12-byte bodies that look like headers (contents are abstract). Gateway: the stateless ZCL
  handler. Sensor: battery averaging (arithmetic on one sample), the delays of joining and
  rejoining, its OTA storage (the calls of the OTA client sample), builds with `IZS_WWAH`. Light control:
  buttons and LEDs. Multi-endpoint coordinator: the test steps, the attributes in the answers, removal on a
  second association, which nothing reaches (the announcement of a known device does not associate). OTA: the exchange with the server, which is the stack's.
* **Samples that are a signal handler or repeat another**: bulb, light coordinator, on/off output, minimal
  and multi-endpoint ZED; the on/off switch has the light control's chain of commands without its search.
* **CLI** other than its OTA client: each command parses, prints and forwards to the stack.
* **Platform files without state of their own**: serial, hardware crypto, OTA partition, production configuration and its provisioning
  (read or written once, as one record).
* **ZBOSS core**: closed binaries.
* **API guide** (`zboss-api-user-guide/`): generated by Doxygen, with Doxygen's scripts. It is the
  only JavaScript of the repository and none of it is the program; the program is C.
