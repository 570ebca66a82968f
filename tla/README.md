# Verification of the GoPro gateway firmware

The firmware connects a GoPro camera (Bluetooth LE) to a CAN bus. A Nordic or
Espressif board searches for a camera, pairs with it, discovers three GATT
services and then carries commands from the bus, from long ISO-TP messages and
from a button to the camera, and the camera's replies back to the bus. It runs
on Zephyr: Bluetooth callbacks, work queues, timers and half a dozen threads
share a few semaphores, message channels (zbus) and static buffers.

This directory holds TLA+ models of the parts whose difficulty is the order of
events, TLC runs over small instances of them, and proofs checked by TLAPS.
Paths below are relative to the repository; code is in `src/`.

## 1. Inventory

### Parts, their state and their operations

| part | source | state | operations |
|---|---|---|---|
| BLE link life cycle | `gopro_ble_discovery.c`, `gopro_client.c` (handles, reads), `leds.c` (idle timer), `gopro_control.c` | `default_conn`, the scan, `scan_work`, `gopro_state.state`, the idle timer, `uuid_index`, the handles of `gopro_client`, `ble_read_sem`, flags JUST_PAIRED and FORCE_CONNECT | `scan_work_handler`, `scan_filter_match`, `ble_connect`, `connected`, `disconnected`, `security_changed`, `discovery_start_work_handler`, `discovery_complete` and its siblings, `discovery_finish_work_handler`, `led_idle_handler` |
| Commands to the camera | `gopro_ble_discovery.c`, `gopro_protobuf.c`, `gopro_client.c` | `gopro_cmd_chan` and its subscriber queue, pending flags, `write_params`, `ble_write_sem` | `gopro_send_buf`, `gopro_send_big_data`, `gopro_cmd_validator`, `gopro_cmd_subscriber_task`, `bt_gopro_client_send`, `on_sent_data`, `gopro_set_subscribe` |
| Camera replies | `gopro_client.c`, `gopro_packet.c` | the one `gopro_packet` and its heap block | `on_notify_received`, `gopro_packet_build`, `gopro_packet_parse` and what it fills in (`gopro_state`, `get_hw_sem`) |
| CAN reply path | `gopro_protobuf.c`, `canbus_isotp.c` | `can_reply_sem`, heap blocks, `can_tx_ble_chan`, the static `send_ctx` | `can_reply`, `isotp_tx_thread`, `isotpsend_callback` |
| ISO-TP receive path | `canbus_isotp.c`, `gopro_protobuf.c` | `can_isotp_rx_sem`, `mem_pkt`, the network buffers, `can_rx_ble_chan`, `ble_data_buff` | `isotp_rx_thread`, `can_rx_ble_subscriber_task` |
| CAN bus driver | `canbus.c` | `can_tx_sem`, `can_tx_chan`, the heartbeat timer | `rx_callback_function`, `can_tx_subscriber_task`, `can_data_subscriber_task`, `can_tx_work_handler` |
| Camera network state | `gopro_protobuf.c` | the access point list, COHN and Wi-Fi state | the protobuf decoders and the request each answer triggers |
| GATT discovery manager | `nrf_hal/gatt_dm.c` | `bt_gatt_dm_inst`: lock and release flags, attributes, memory chunks, a work item | `bt_gatt_dm_start`, `_continue`, `_data_release`, the discovery callbacks |
| Advertising filters | `nrf_hal/scan.c` | filter lists and their counts, scan and connection parameters | filter add/remove/enable, matching of a report; `scan_work_handler` sets them up |
| LEDs, buttons, start-up, shell | `led_*.c`, `leds.c`, `buttons.c`, `main.c`, `shell.c` | blink timers and modes | display; a button publishes a command |

### How they interact

* The bus, the button, ISO-TP messages and the finish handler publish on
  `gopro_cmd_chan`; its validator lets a command pass only in
  GP_STATE_CONNECTED, which the link life cycle sets and the idle timer takes
  away. `gopro_cmd_subscriber_task` writes the commands one by one.
* Notifications become packets (`gopro_packet_build`); a complete one is
  answered to the bus by `can_reply` and parsed into `gopro_state`. The
  heartbeat reads that state every 100 ms.
* `can_reply` hands a heap pointer through a channel to `isotp_tx_thread` and
  the ISO-TP stack; `isotp_rx_thread` hands one through a channel to
  `can_rx_ble_subscriber_task`. Each pair shares one semaphore.
* The system work queue runs the search, the discovery steps, the idle work and
  the heartbeat; the finish handler has a queue of its own, because it blocks.

### What is hard, and what makes each part correct

* **Link**: callbacks of procedures that a lost link interrupts arrive before
  the loss itself is reported; a handler on a second queue goes on while the
  link changes; errors are logged and dropped. Correct means: one use of the
  radio at a time, a search that never ends, a connected state that belongs to
  a discovered link and goes away with it, and waits that end.
* **Commands**: a task with a timeout shares a flag and a semaphore with a
  callback. Correct means: a flag is up exactly while a write is out, no two
  writes share parameters, and the camera takes the frames of a message in order,
  none twice and none left out unnoticed.
* **Replies**: one buffer serves four characteristics. Correct means: what is
  parsed is one message, whole; no block leaks or is freed twice.
* **Discovery manager**: memory that is handed out while a discovery goes on,
  a lock released by the user, answers that arrive after a lost link. Correct
  means: each procedure is answered once, what is reported as completed is the
  whole service, and nothing leaks.
* **Filters**: counts and lists that are set up again for every search. Correct
  means: the verdict on a report is the documented one, and the search looks for
  the cameras it is meant for, however often it is set up.
* **CAN frames**: a task waits for a report that may be late or never come.
  Correct means: frames leave one at a time, in order, and what the camera has
  said last is what the bus sees in the end.
* **CAN replies and ISO-TP**: heap pointers change hands between threads and a
  callback, and every call between may fail. Correct means: a block has one
  user at a time, comes out as it went in, and the path is free afterwards.

The list of hazards, each at its line and with the properties that cover it, is
`hazards` in `PROJECT.json`.

## 2. Modules

| module | models | composed with |
|---|---|---|
| `BleLink` | BLE link life cycle | |
| `BleLink_proofs` | proofs about `BleLink` | |
| `Commands` | commands to the camera | takes the coming and going of the link from `BleLink` as external actions |
| `Commands_proofs` | proofs about `Commands` | |
| `Replies` | reassembly of the camera's replies | |
| `Replies_proofs` | proofs about `Replies` | |
| `CanReply` | CAN reply path | implements `OneSlot` |
| `CanReply_proofs` | proofs about `CanReply` | |
| `IsoTpRx` | ISO-TP receive path | implements `OneSlot` |
| `IsoTpRx_proofs` | proofs about `IsoTpRx` | |
| `OneSlot` | abstract: a hand-over through one buffer and one semaphore | |
| `GattDm` | GATT discovery manager | implements `OneDiscovery`; its outcomes are the ones `BleLink` chooses from |
| `GattDm_proofs` | proofs about `GattDm` | |
| `OneDiscovery` | abstract: a discovery is locked, answered once and released | |
| `ScanFilter`, `MCScanFilter` | advertising filters and the search that uses them | its verdict on a camera is what `BleLink` takes as an input |
| `ScanFilter_proofs` | proofs about `ScanFilter` | |
| `CanBus`, `MCCanBus` | heartbeat, error frames, status messages, the transmit task | takes the link's state as an external action |
| `CanBus_proofs` | proofs about `CanBus` | |

**Threads and atomicity.** Bluetooth callbacks and the system work queue are
cooperative threads in Zephyr's default configuration, so one handler is one
action. The other threads are preemptible: their code is cut wherever it
touches a semaphore, the heap, a channel or state shared with another context,
and each piece is an action.

### BleLink

`link` is `default_conn` with the phase of its connection; `link = "closing"`
is the time between the stack's noticing the loss and its `disconnected`
callback, when requests are refused and interrupted procedures end. The
`work` set holds the items pending on the system work queue; its order is not
kept, which allows more behaviours than the queue does. `my_work_q` has lower
priority: its steps (`Fin...`) need `work = {}`. `idx` is `uuid_index`, which
the code never resets, and `svc` says for each service whether its handles
were read on this link, on an earlier one, or never. `AbortDiscovery` lets the stack end an
interrupted discovery as an error, as not found, or as complete with what it
had, with the code's reaction to each. `bt_gatt_discover(NULL, ...)` is an
assertion of the stack (CONFIG_ASSERT=y): the system stops (`halted`).
Two history variables name what has failed: `rough` is "now" while the present link
has met a failure, "before" when only an earlier one has, and "no" while none has since
boot; `refused` says that the last `bt_gopro_client_get` sent no request.

Assumptions: one connection object (CONFIG_BT_MAX_CONN is 1), so a
pointer to a lost connection compares equal to its successor's; `scan_work`,
which waits at least 50 ms, does not overtake a finish handler that only has
to take a token that is there (`FinReady`); an advertisement is one of three
camera states. The hardware information polls are answered or not
(`PollOutcomes`); the finish handler's publications are `Commands`' business.

### Commands

A publisher's frames (`sendbuf`) go into `queue` one zbus publication at a time,
refused by the validator, by a full pool, or by a failure. `task` is the place
of `gopro_cmd_subscriber_task`: flag test, write, wait. `att` holds the writes
the stack has accepted: it answers them in order, or all of them with an error
when the link is lost; each answer calls `on_sent_data`. A control command
("ctrl") is done within `gopro_ctrl_parse`; an unknown one ("bad") reaches
`bt_gopro_client_send`, is refused, and still waits. `params` keeps the handle
of the last write of each characteristic, which is what `on_sent_data` compares;
`shift` moves the attribute table from one camera to the next. Assumption
(`CommandConstants`): the tables of two cameras are equal or do not overlap in
these characteristics. Two history variables serve FramesInOrder: `took`, the
frames the camera took of each message, and `lost`, the messages of which a frame ended
before the camera had it (refused by the validator, the pool or the client, because the
flag was up for one, met by a lost link, or a control command).

### Replies

A message of the camera is a sequence of units with its number; a first frame
carries up to FirstCap of them, a continuation up to ContCap (in the code 19 or
18, and 19 bytes). `pkt` is `gopro_packet`: source, total length, saved bytes
and whether its heap block is live. `First` and `Continue` are the two halves
of `gopro_packet_build`; parsing is the moment the packet is complete, and
`parses` numbers these moments. First frames are well formed: one that is longer than its
declared total, or on a handle the client does not know, is not modelled. The
camera may abandon messages (lost link) and, with "mix", start one on a second
characteristic before the first one is complete.

### CanReply and IsoTpRx

Heap blocks are named; a free one may be overwritten by another user of the heap
(`HeapReuse`) and is handed out again in any order, so a use after free reads
junk. In `CanReply` each caller has its place in `can_reply`, and the published
pointer moves from `queue` to `cur` (taken by `isotp_tx_thread`) to `sending`
(kept by the ISO-TP stack until `isotpsend_callback`). In `IsoTpRx` the stack
delivers blocks from two pools, one of them with a single buffer
(CONFIG_ISOTP_RX_SF_FF_BUF_COUNT), and reports an aborted message only to a
thread that waits. When an error comes while it has no buffer, the
thread reads a length through the pointer an earlier block has left: the model chooses
between an allocation and none (`RxError`). Both implement `OneSlot` under a refinement mapping: the item
under way is what the semaphore was last taken for (`CanReply`) or the message
behind the published pointer (`IsoTpRx`).

### GattDm

The camera is an attribute table (`db`): services, characteristics with their
values, descriptors. `params` is the `bt_gatt_discover_params` of the request
under way, `attrs` the manager's table, `mem` its chunks with the words given out
of the last one (`user_data_alloc`), and an attribute's UUID and value each have
their place there. The stack answers a request with the attributes of the table
that match it, one callback each, and ends it with a callback without one; a
lost link or a refusing camera ends it the same way, which is why a failed
characteristic procedure is reported as completed. A request may also be refused at
once, with the link gone or the stack without memory (`DiscoverFails`). `discover_work` restarts the
request from the work queue. The three callbacks that answer a procedure
are the user's; the user then continues or releases, now or later.
`locked` and `pending` are STATE_ATTRS_LOCKED and
STATE_ATTRS_RELEASE_PENDING. A refused `attr_store` in the middle of a
characteristic is dereferenced one line before it is tested: the system stops
(`halted`). `OneDiscovery` is the interface the manager promises: idle, busy, held
until released.

`bt_gatt_dm_continue` is modelled as the code has it: after a start by UUID it
goes on only because the attribute phase has cleared `params.uuid`;
`gatt_dm.h:283` allows it, the comment at `gatt_dm.c:703` finds it without
sense. The branch for a callback on another connection (480-484) is left out:
there is one connection object. Printing is left out.

### ScanFilter

`table` is the list of filters of each kind, `memory` what the places of the name
filters hold (a shorter name keeps the rest of a longer one), `enabled` and
`all_mode` the enabling. `Matched` is the way of a report through
`scan_recv`, the check of each element and the counts of `filter_state_check`. Two clients:
"search" is this program's `scan_work_handler` with bonds, a link, failing
calls and a restart (Init may have a bond: `settings_load`); "any" is a client
that calls the interface in any order, because this program uses only two of the six
kinds (the sizes of the others are 0 in its configuration). `sought` records
the bonds at the time the filters were set up; removing a bond
does not set them up again. `BT_MAX_PAIRED` is 1 and the oldest key is
overwritten, so pairing replaces a bond.

### CanBus

A status message is a sequence of bytes, written by `Encode` (the camera) and
read by the two parsers with their own arithmetic; `reported` records what the
camera meant. The heartbeat's timer, its work item and the receive callback
publish into `queue`, the net buffers of the subscriber; a frame without a buffer is
dropped (CONFIG_ZBUS_ASSERT_MOCK), and so may any frame be, because the messages of other
subscribers come out of the same pool. Any query from the bus reaches the camera, so the
reply to a request may hold several values; the parser of that reply reads the first
one (`Counting`). The task hands a frame to one of the
controller's mailboxes and waits for `sem` or 50 ms; the controller reports
frames in any order, sent or given up. The number of videos stays below 2^16:
only its low byte is sent. One late report makes the task run one frame
ahead from then on (`slow`), although it logs "Can send restore".

## 3. Runs

| run | properties | what it shows |
|---|---|---|
| `link_safety` | TypeOK, RadioExclusive, ReadTokenOwned, FinishNotStranded, ConnectedSticks | all five kinds of failure: the radio does one thing, tokens stay with their wait, a wait without a timeout has an answer coming or its own read never left, the idle timer spares a live link |
| `link_progress` | SearchPursued, ConnectedIsDiscovered, StaleConnectedCleared, LinkGetsConnected | with lost links, refused security and failing GATT calls, under fairness: the search goes on, a stale connected state goes away, every link on which nothing fails gets connected, after lost and failed ones too; up to the first failure with fresh handles |
| `link_search_abandoned` (violation) | SearchPursued | one failing controller call ends the search for good |
| `link_discovery_without_conn` (violation) | DiscoveryHasConn | a link lost during a discovery leads to `bt_gatt_dm_start(NULL, ...)` |
| `commands` | TypeOK, FlagTracksWrite, OneWritePerHandle, Lockstep, FramesInOrder, FlagFreed | flags, writes, tokens and frames through late answers, full queues, failing writes, lost links and publishers that meet on a characteristic |
| `replies` | TypeOK, OneBlock, WholeReplies, ReplyCompletes, ParsedInOrder | reassembly through interleaved and abandoned messages and refused memory |
| `replies_source` (violation) | PacketTypeIsSource | interleaved messages: a packet holds bytes of a characteristic it does not name |
| `can_reply` | TypeOK, NoUseAfterFree, SendAlone, PortSpec, ReplyPathFreed | two callers, every failure: blocks, exclusion, refinement of `OneSlot`, and the path comes free unless the semaphore is lost |
| `isotp_rx` | TypeOK, SubscriberReadsAlone, WholeMessages, SlotSpec, MessageGetsThrough | every failure: the buffer has one user, messages are whole and once, and without failures they all arrive |
| `gatt_dm` | TypeOK, ResourcesOwned, CompletedIsWhole, ErrorHasCause, DiscoverySpec | every small attribute table, by UUID and service by service, with every failure: memory is owned, completed discoveries are whole and the lookups find them, each procedure is answered once |
| `scan_filter` | TypeOK, VerdictIsDocumented, SearchTargets | every report of two elements against three filters in any order of calls, the verdict being that of `scan.h` but for the cases named below; the search over bonds, links and failures goes on and finds its cameras only |
| `can_bus` | OneFrameOut, LatestStateShown | refused, lost and late frames: one frame at a time, and the heartbeat comes to show what the camera said last (of a reply to a request, its first value) |

**Properties that are conditional.** Several are stated "as long as nothing of
this kind has failed", with a history variable (`rough`, `slow`, `mixed`,
`starved`, `leaked`, `broken`): without the condition the code does not keep them. After a
link is lost, for instance, the next one is not discovered anew (`uuid_index`), so
ConnectedIsDiscovered speaks of the time up to the first failure since boot;
after one `k_malloc` failure in `can_reply` no reply leaves again; after one
receive error `isotp_rx_thread` has ended; after one late answer Lockstep and OneFrameOut
are over for good. Such a property does not cover the failure it excepts: the hazard of that
failure has a note that says what is shown about it and what is not. Three properties except
less than a failure since boot: LinkGetsConnected holds for every link on which nothing fails,
FinishNotStranded through every failure but for a read that never left, FramesInOrder for every
message, and without a gap for each that lost no frame.

**The verdict on a report.** `scan.h` says that a disabled filter or one that is not set matches
nothing, that one enabled kind must match, or with match_all every one. The code
does so for every use of the interface, except, with match_all, when nothing is sought
(`bt_scan_filter_disable` keeps `all_mode`, and zero matches are then as many as zero kinds;
a UUID kind without UUIDs matches any list), when two elements of a report match
one kind (each is counted), and when the required UUIDs are spread over several elements
(each element is looked at on its own); and except for a name entry that keeps the
tail of a longer name. `Diverges` and `NoTails` name these cases; VerdictIsDocumented fails if
any one is left out. This program enables one kind without match_all and
meets none of them.

**Findings.** (1) `scan_work_handler` returns after a failing `bt_scan_stop` or
`bt_scan_start`, and `eir_found` drops the error of `ble_connect`; nothing
schedules the search again. (2) When the stack ends an interrupted discovery as
not found or complete, the next discovery is started on `default_conn`, which is
NULL by then. (3) `gopro_packet_build` ignores the characteristic of a continuation
frame, so `packet_type` is not the source of all of a packet.

### Bounds

* `BleLink` is finite without bounds except HwPolls = 2 (the code: 5): the poll loop only
  counts down, and two rounds have a first, a repeated and a last one.
* `Commands`: 2 publishers, 2 characteristics, 2 messages of up to 2 frames, a
  queue of 2. Two messages are what it takes to interleave, to meet a late
  answer, and to meet a flag; the queue is smaller than the frames in flight, so
  it fills.
* `Replies`: 2 characteristics, 3 messages of 0 to 8 units: empty, one frame,
  exactly one frame, exactly two frames, and three frames; a third message
  follows a mixed or abandoned pair.
* `CanReply`: 2 callers, 2 replies, 2 blocks: one block under way and one that is
  free or in other use.
* `GattDm`: 7 handles hold two services, or one with two characteristics and their
  descriptors; 6 attributes and chunks of 9 words, so that the table and a chunk
  overflow in the middle of a service. 95 791 states.
* `ScanFilter`: 3 filters in all, 2 enabled kinds, one bond; names over prefixes of
  one another, two UUIDs; every report of up to two elements is checked in every state.
  80 849 states.
* `CanBus`: a pool of 2 and 2 mailboxes, so that both fill; two status messages or
  changes of the link (every list of up to two values, in notifications and in replies to
  requests), one command, two faults (a frame refused, lost, late, or dropped because others hold
  the buffers): the second meets a task that already runs ahead. 363 216 states.
* `IsoTpRx`: 3 messages of up to 3 blocks, 2 buffers for later blocks, so the
  tester is held back. MaxMsgs makes the model stop (CHECK_DEADLOCK FALSE), as
  it does in `Replies`; in `Commands` the link still comes and goes.

### Fairness

* `BleLink`: timers expire and work queues run (weak fairness of each handler);
  the stack reports the outcome of every procedure it has accepted, and the
  disconnection, which the Bluetooth timeouts guarantee. Advertisements, lost
  links, pairing and control commands are never assumed to happen.
* `Commands`: threads run, and the stack answers every write or gives the link
  up (the ATT transaction timeout).
* `CanReply`: threads run, and the stack ends every transmission it accepted (ISO-TP
  timeouts).
* `IsoTpRx`: both threads run; the tester owes nothing.
* `GattDm`: the work queue runs, and the stack ends every request it accepted (the ATT
  transaction timeout); the user is not assumed to release.
* `CanBus`: the timer is periodic, the work queue and the task run, and the controller
  reports on some frame while it has any.

All of it is weak fairness. `Replies` has no liveness property: its progress is the
camera's. `ScanFilter` has none either: that the search goes on is `SearchPursued`.

## 4. Proofs

`BleLink_proofs` proves, for every number of polls and every set of failures:
TypeOK, RadioExclusive, ReadTokenOwned, ConnectedSticks, and SearchPursued when
no controller call fails. None but the type invariant is inductive. The
invariant used (`IInv`) adds that a poll round is only begun while rounds are
left (`PollsLeft`), that a search and a scheduled search exclude each other (`RadioInv`), and
what is quiet outside its link (`QuietInv`): reads are out only on a link; no
connection is being made while a finish handler could still set the connected
state; on a link the idle timer is stopped and no idle work is pending against
the connected state. The last is the point of ConnectedSticks: the timer is
stopped by `connected`, but work it queued before runs later. For
ConnectedIsDiscovered a second invariant (`SmoothInv`) takes a
link on which nothing fails through its phases: before the discovery, between services,
in one, finishing. It is proved for a controller that refuses no call and a
security level that changes once per link, as in the run `link_progress`; with a second
security change the index moves past a service that is still being discovered.
FinishNotStranded is proved for every set of failures, as in the run `link_safety`.

`CanReply_proofs` proves, for every number of callers, replies and blocks and every set of
failures: TypeOK, NoUseAfterFree, SendAlone, and that the path implements
`OneSlot` (PortSpec). The invariant says where the reply under way may be:
with one caller past the semaphore, in the channel, with the thread or with the
stack, in one of them at most, and in none while the semaphore is free
(`CritInv`, `SlotInv`); and that every pointer in play is to a live block
that holds the reply the semaphore was taken for (`PtrInv`). The refinement
follows action by action: `Take` puts, the callback delivers or gives up,
`EncodeFail` and `PublishFail` give up, all others stutter.

`CanBus_proofs` proves OneFrameOut for every pool, number of mailboxes, set of status
messages and number of faults. The invariant (`UnderWay`) ties the place of the
transmit task to the controller and the semaphore: while it waits for a
frame nothing is under way; while it waits for a report, the frame is with the
controller or its report is in the semaphore, never both. It also proves that the status
the gateway holds is, at any time, what the camera reported last (StatusIsReported), for
messages with any number of values, known and unknown, of which the run has two at most; of
the reply to a request, whatever it holds, it is the first value that counts. The
parsers are folds and a recursion over the bytes of a message, and no induction principle
can be instantiated here; the proof takes the least counterexample of a set of
numbers instead. Round by round it shows that the functions behind the folds exist, that each
value is found at its place (`Places`), that the loop stops at these places and at no others
although it ends one byte early, that the bytes of a number give the number again, and
that what is left is the last value of each identifier (`Latest`).

`IsoTpRx_proofs` proves TypeOK, SubscriberReadsAlone, WholeMessages and that the path implements `OneSlot`
(SlotSpec), for every number of messages and blocks and every set of failures. The
invariant follows the one buffer from the thread's allocation through the channel to the
subscriber: it is in one of these hands at a time, the semaphore is taken as long as it is in
any (`HandInv`), and the buffer of a thread that goes on is live and not empty
(`LoadedInv`). As long as nothing fails, the blocks read and the blocks in the
stack are consecutive blocks of the tester's stream (`SentInv`), of which WholeMessages is
the case where the last block of a message has been read. The refinement follows action by
action. TypeOK comes last: that the pool of network buffers never runs below zero or
above its size is the count of PoolInv, by which the free buffers and those of the later blocks
in the stack are no more than there are.

`Commands_proofs` proves TypeOK, FlagTracksWrite, OneWritePerHandle, Lockstep and
FramesInOrder for every
number of publishers, characteristics, messages and frames, every queue and every set of
failures. What the code leaves implicit, and the invariant has to say: a handle kept in
`write_params` names one place of one camera's table (`ParamInv`), so
on_sent_data, which takes the first characteristic with that handle, finds the one that
was written; a characteristic the task is about to write has no write out
(`WriteAlone`), because its flag is down; and, as long as no answer has come late,
a write is out, or its token there, only while the task waits for it (`InStep`).
FramesInOrder needs an invariant of its own (`StreamInv`), which holds through every
failure and for publishers that meet on a characteristic: the frames of a message stand in
order all the way from the writes that are out, over the frame the task holds and those in the
queue, to those its one publisher has still to put (`OrderInv`); what the camera took
came before all of them (`TookInv`); and of a message that lost no frame, what was taken
and what is still there has no gap (`WholeInv`).

`Replies_proofs` proves every property of the run, for every number of
characteristics and messages, every set of lengths, frame sizes and failures. In any case
a packet that can still be parsed holds a message that began after the one parsed last
(`OrderInv`, for ParsedInOrder, which counts every parse). As long as the camera does not mix messages, at most one
characteristic is busy and a packet that is there holds what it has sent
so far (`WholeInv`); the lemma that carries a continuation is UnitsJoin: the units
sent before and the units of the frame are the units sent now. With memory, the
message begun last is in the packet or has been parsed (`DoneInv`, for
ReplyCompletes).

`GattDm_proofs` proves every safety property of the run, for every attribute table of a camera,
every size of the manager's table and of a chunk, and every set of failures: TypeOK,
ResourcesOwned, ErrorHasCause, CompletedIsWhole, and the safety of `OneDiscovery`.
The invariant has five parts besides the types: where the blocks lie and that no two share a word
(`BlocksInv`); what may be under way while the manager is locked, and that without its lock
it has nothing (`LockInv`); that the table is the front of one service, without a gap
(`TableInv`); how far each phase has come, with the ends it has set and the values
it has read (`PhaseInv`); and that every error has a cause. That `attr_find_by_handle`
finds what it looks for is proved first: of the ranges on which the search could fail, one is
the shortest, and one round of the loop leaves a shorter one. The lookups by UUID are
then shown to return the characteristics, values and configurations of a whole table.

`ScanFilter_proofs` proves every property of the run, for every set of devices, reports, names and
UUIDs and every number of filters and bonds: TypeOK, SearchTargets, VerdictIsDocumented.
The loop over the bonds is a fold over data; that it adds the first bonds that fit, and no
other, is shown by the least number of bonds for which it could not. The invariant says
whether the search waits, runs or is held up (`TurnInv`), and that while it runs
the filters are those of the bonds it was set up with (`SetUpInv`). For the verdict the counter of
matches is compared with the number of enabled kinds: but for the named cases each matching
element has a kind of its own, both are sizes of sets, and a one-to-one map takes the elements
found to the kinds they meet.

Assumptions of the proofs are the ASSUMEs of the modules: LinkConstants,
ReplyConstants (None and Junk are no replies or blocks), CanConstants, ReportConstants (a record state and a battery level
are one byte, and the reply to a request without an error has a value), RxConstants
(None is no buffer and no message), CommandConstants (the tables of two cameras
are equal or apart), RepliesConstants (a frame carries at least one unit), DmConstants (a
table of one attribute at least, and a chunk that holds the largest block) and ScanConstants
(a filter for an address and for a UUID at least; a report's data are a list of names, UUIDs,
appearances and manufacturer data, and its address comes beside them).

**Only model-checked**: liveness, which rests on fairness and ENABLED, out of this
prover's reach. That is StaleConnectedCleared, LinkGetsConnected, ReplyPathFreed,
MessageGetsThrough, FlagFreed, LatestStateShown, and the fairness within
DiscoverySpec. Every safety property of a passing run is also a
theorem.

## 5. Not modelled

* Bytes: payloads, lengths and headers of frames, protobuf encoding, except those of
  status messages (`CanBus`). `Replies` keeps lengths, scaled.
* What `gopro_packet_parse` makes of hardware information, and the network state of
  `gopro_protobuf.c`: strings copied for display or for the bus, and the next
  request each answer triggers, which is a publication of `Commands`.
* `gopro_set_subscribe` and the token of `get_hw_sem`: see the hazards at
  `gopro_client.c:662` and `gopro_ble_discovery.c:321`; no document says what
  they should do.
* `can_data_subscriber_task`: nothing publishes on its channel. The
  scan library's block list and connection attempts filter: not built.
* LEDs, buttons, shell, `main.c`: display and start-up; a button is a publisher
  in `Commands`.
* Protobuf schemas, boards, device trees and build files: no behaviour of their own.
* Start-up failures: `gopro_bt_start` returns early when a stack call fails and the
  gateway then does nothing; `BleLink` begins after its success.

## 6. Plan

Done, in the order of importance: `BleLink` and its proofs, `CanReply`,
`IsoTpRx` and `OneSlot`, `Replies`, `Commands`, `CanReply_proofs`, `GattDm` and
`OneDiscovery`, `ScanFilter`, `CanBus` and its proofs, `IsoTpRx_proofs`,
`Commands_proofs`, `Replies_proofs`, `GattDm_proofs`, `ScanFilter_proofs`, the frames of
a message in `Commands_proofs`, and the parsers of `CanBus` in `CanBus_proofs`. Left:

1. Subscriptions in `Commands`, should a document come to say what a second
   subscription to one characteristic does.
