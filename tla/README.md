# A TLA+ model of esp32-ble-kbd-host

This directory specifies and verifies the concurrent core of the BLE keyboard
host component: the state machine of `src/bt_kbd.c`, the NimBLE HID host of
`esp_hid/src/nimble_hidh.c`, and the device list of `esp_hid/src/esp_hidh.c`,
with what lies beneath and beside them: service discovery, the report map
parser, the data of scans and keys, the classic Bluetooth host and the device
role. File names below are relative to the repository.

## 1. The system

| Part | Source | State | Operations |
|---|---|---|---|
| Keyboard host | `src/bt_kbd.c`, `include/esp_ble_kbd_host.h` | `s_state`, `s_cmd_queue`, `s_connected_sem`, `s_disconnected_sem`, `s_open_done_sem`, `s_hidh_dev`, `s_scan_devs`, `force_repair` | `kbd_main_task`, `hidh_cb`, `collect_scan_cb`, `ble_kbd_host_*` |
| Key decoding | `src/bt_kbd.c:113-194` | `s_prev_keys` | `translate_report` |
| NimBLE HID host | `esp_hid/src/nimble_hidh.c` | two semaphores, discovery counters, `status`, read buffer | open, light reconnect, close, report read/write, GAP and GATT callbacks |
| Device list and API | `esp_hid/src/esp_hidh.c` | `s_esp_hidh_devices`, per device `conn_id`, `connected`, reports; the event loop | open, close, getters, report calls, locks, event post-processing |
| Report map parser | `esp_hid/src/esp_hid_common.c` | parser statics | `esp_hid_parse_report_map` |
| Classic HID host | `esp_hid/src/bt_hidh.c` | the same device list; `connection_queue`; a transaction and its timer per device | `esp_hh_cb`, requests, open, close |
| Device role | `esp_hid/src/nimble_hidd.c`, `esp_hidd.c` | `s_dev`, characteristic handles, `service_index` | init, deinit, set reports, GAP and GATT callbacks |
| Start-up | `src/hid_gap.c` | none | initialisation calls |
| Other Bluedroid transports | `esp_hid/src/{ble_hidh,ble_hidd,bt_hidd}.c` | - | not compiled with NimBLE |

Four parties of the keyboard host run concurrently:

* **K**, `kbd_main_task`. It makes every call into the HIDH layer and blocks
  inside them (`WAIT_CB`, the security wait, `esp_event_post_to`).
* **N**, the NimBLE host task. It runs `esp_hidh_gattc_event_handler`, the GATT
  callbacks and `collect_scan_cb`, gives the semaphores K waits for, and posts
  CLOSE and INPUT events, blocking when the queue is full.
* **E**, the task of the esp_event loop. It empties the queue (5 entries) and
  runs `hidh_cb`, which stores `s_hidh_dev`, translates reports and gives K's
  three semaphores.
* **Applications**, which queue START and SELECT commands (4 entries).

In the classic host the stack's task (`esp_hh_cb`), the event loop, the
application and `esp_timer` share the devices; in the device role the
application, the host task and the event loop share `s_dev`.

What is hard about it:

* K learns of one connection by up to four ways (return value, OPEN event,
  three binary semaphores), which arrive at different times and outlive it.
* One semaphore answers all GAP and GATT procedures, and is given by callbacks
  that do not know who waits.
* N and K write and free device structures with no common lock, and both block
  on the same queue. The classic host looks devices up under one lock and uses
  them under another; the device role uses none.
* Timed waits (15 s, 60 s, 2 s, 100 ms) and the timers of transactions race with
  the answers they wait for.
* Commands may be queued in any state, and each phase treats the queue in its
  own way: receive, drop, or only peek at its head.
* Discovery, the parser, the connection queue and the service counter keep their
  positions in statics that outlive the device they were about.

What makes each part correct, in short: the HIDH layer wakes its caller exactly
when its own procedure has ended, keeps handles and links in step, frees nothing
in use, and returns; the keyboard host knows whether it is connected, deals with
one keyboard at a time, honours START, and gets a lost keyboard back; discovery
and the parser learn exactly what the keyboard declares; each key makes one
event; the classic host keeps structures, descriptors and answers with their
device; the device role sends each report on its own characteristic. The
line-by-line list is `hazards` in `PROJECT.json`.

## 2. Modules

| Module | Models | Extends |
|---|---|---|
| `HidhLink` | HIDH layer: calls, GAP handler, GATT procedures, event queue, device list, one radio link | standard modules |
| `KbdHost` | K, `hidh_cb`, `collect_scan_cb`, applications, on top of `HidhLink` | `HidhLink` |
| `KbdPromise` | what the keyboard host promises its user; `KbdHost` implements it | none |
| `KbdInput` | the devices and keys that `KbdHost` abstracts from: the list an index selects from, `translate_report` | standard modules |
| `Discovery` | service discovery, the tables and read values it fills, subscription | standard modules |
| `ReportMap` | the parser, what becomes of its result, the look-ups of reports | standard modules |
| `BtHidh` | the classic host and the part of `esp_hidh.c` its devices use | standard modules |
| `HidDevice` | the device role over NimBLE | standard modules |
| `HidhLink_proofs`, `KbdHost_proofs`, `KbdInput_proofs`, `Discovery_proofs`, `ReportMap_proofs`, `HidDevice_proofs`, `BtHidh_proofs`, `BtPairing_proofs` | inductive invariants and theorems | their specification |
| `MC*` | constants and symmetry for TLC | their specification |

`HidhLink` is at the same time the detailed model of the layer and the abstract
specification of its caller: `LinkNext` lets *any* task call *anything*, one
call at a time. `KbdHost` conjoins K's steps with the layer's actions (for
example `DoPair` takes `StoreClear`), and E's callback with `Deliver`; run
`kbd_faults` and theorem `UsesHidhLink` show that the composition implements
`LinkSpec`, so the layer's theorems hold in it.

`KbdPromise` is the abstract end of the chain, written from the header and the
root README: a state, a partner, a link and a bond store. `KbdHost` implements it
under the mapping `Partner`, which says whom K is dealing with at each of its
places. That the store holds at most one bond, that it is empty during a scan and
that a scan runs without a link all follow from it.

Operators whose comment begins with `[mutant]` are faulty variants of an action
(a forgotten drain, a missing reset). No specification uses them; `PROJECT.json`
pairs each with the property that catches it, as a test of the property.

### 2.1 HidhLink

State against code:

| Variable | Code |
|---|---|
| `devices` | `s_esp_hidh_devices`; a structure is named by its peer's address, which `esp_hidh_dev_open` keeps unique |
| `conn_id[a]` | `dev->ble.conn_id` is a handle (TRUE) or -1 (FALSE). A handle is named by the peer of its link |
| `dev_connected[a]` | `dev->connected` |
| `link`, `gap_conn`, `scanning`, `pairing`, `terminating`, `gatt_op` | the NimBLE host's own state: the one link (`CONFIG_BT_NIMBLE_MAX_CONNECTIONS=1`) and its running procedures |
| `cb_sem`, `sec_sem` | `s_ble_hidh_cb_semaphore`, `s_ble_hidh_sec_semaphore` |
| `status_ok` | the static `status` after the last discovery callback |
| `bonds` | the bond store in NVS |
| `npc`, `ndev` | where N is inside its DISCONNECT or NOTIFY_RX case |
| `evq` | the event loop's queue |
| `hpc`, `hcall`, `hdev`, `todo` | where the caller is inside a call, which call, on which device, and what is left to do |

A call is split wherever another task can change what it reads next: after
`WAIT_CB`, before and after each GATT procedure, before the post. The
DISCONNECT case is split into the lookup with the test of `connected`
(`DisconnectLookup`), the reset of the handle (`ForgetConnId`) and the post
(`PostClose`), because K may free the structure in between.

Abstractions:

* `read_device_services` and `attach_report_listeners` are scripts of GATT
  procedures, `DiscoveryOps` and `ListenerOps`; the proofs hold for every script.
  What matters of a procedure is how it starts and answers, which differs:
  discovery answers success or error and an error fails an assert; a read that
  cannot start returns at once, and one that ends in an error never calls
  `SEND_CB`; a CCC write is waited for even if it could not start.
* A new structure's `conn_id` is 0 between its insertion and line 971; the two
  steps are one.
* The MTU exchange has no callback and is left out, and so is the passkey
  display. Only the caller starts security procedures.
* What NimBLE does is modelled from how the code uses it: one connect procedure
  at a time, none while scanning or with a link up; when a link ends, running
  procedures fail through their callbacks before DISCONNECT is delivered.

### 2.2 KbdHost

`kpc` follows the labels of `kbd_main_task` (`top`, `do_pair`, `restart_scan`,
`connected`) and the points where it waits; each action's comment names its
code. `CheckTake` and `CheckGive` are two steps because the code takes
`s_connected_sem` to look at it and gives it back. `epc` splits `hidh_cb` at each
semaphore. Time is abstract: a timed wait may run out whenever its condition
does not hold, except where a run assumes that events are handled sooner than
the wait ends (next section). The list of found devices holds addresses only; what
the application knew of it when it chose an index is in `KbdInput`.

### 2.3 Discovery

`HidhLink` sees a full open as a script of GATT procedures; `Discovery` is the
inside of that script on a link that stays up: `read_device_services`, the
callbacks that fill its tables, and `attach_report_listeners`.

| Variable | Code |
|---|---|
| `discovered`, `result` | the static counters and the three tables on K's stack, by kind (`svcs`, `chrs`, `dscs`); an entry is a position in the keyboard's own list, 0 if no callback has written it |
| `at`, `cur` | the loop counters `s`, `c`, `d` and the entries they select; an unwritten entry may be anything an earlier use left on the stack |
| `proc` | the procedure on the air and how many results it has reported |
| `heap`, `rdata`, `dev.strings`, `dev.maps` | read values as numbered blocks, and the pointers to them |
| `dev.modes` | `dev->protocol_mode`, "undefined" where `malloc` left it |
| `report`, `dev.reports` | the report being described and the list |
| `todo` | what `attach_report_listeners` has yet to write |
| `subscribed`, `refused` | CCCs written on this link, and those whose write the keyboard answered with an error, which `on_write` does not look at; history |
| `unread` | reads that could not be started, by service, characteristic and descriptor; history |

The keyboards are constants (`Peers`). Procedures that cannot be started
(`no_start`) and that are answered with an error (`peer_error`) follow the code
of each kind: K waits for ever for a search or a write that was not started, while
a read that was not started fails at once and leaves `rdata` as it was, which its
branch may free (`nimble_hidh.c:394`). Left out: failed allocations, empty values,
and what the parsed report map adds to the reports, which is in `ReportMap`.

### 2.4 KbdInput

`KbdHost` keeps the control of `bt_kbd.c` and forgets its data; `KbdInput` keeps
the data and as much of the control as it depends on.

| Variable | Code |
|---|---|
| `scan_devs` | `s_scan_devs` up to `s_scan_dev_count`; the mutex makes each access one step |
| `shown`, `shown_now` | the copy that `on_scan_updated` was given last, and whether the list has not been cleared since (history) |
| `cmds` | `s_cmd_queue` with its four entries; a SELECT with the device the application meant by its index, and whether the list has not been cleared since (history) |
| `kbd` | the place of `kbd_main_task` |
| `selected`, `chosen` | the index it took; the device it opens, the one at the index when the SELECT was taken, and the one that was meant |
| `prev_keys` | `s_prev_keys` |
| `evt` | the report `translate_report` works on, and the position in it |
| `reports` | INPUT events in the event loop's queue |
| `down`, `last` | the keyboard: keys held, and the keys of its last report |
| `again`, `missed`, `odd` | history for this link: a key made an event twice or never, and what happened that excuses it |

Each place of K treats the queue as the code does there: the scan loop takes any
command, an open is given up for a START at the head, the connected phase takes a
START only at the head, and the lost phase drops SELECTs. So a SELECT may wait behind
others, over several scans, and be looked up in a list that the application has not
seen: `SelectedIsShown` says what holds all the same, `kbd_select` shows the rest.

A report is translated key by key, because K clears `s_prev_keys` from another
task. The host reads the keys one byte too early (`bt_kbd.c:163`), so that the
last of a full report is lost, and a rollover report overwrites the keys held:
both are in the model (`Seen`, `ReportOf`) and are the exceptions `"full"` and
`"rollover"`. Left out: which character or escape sequence a key makes, the
modifiers, and repetition.

### 2.5 ReportMap

The parser as a state machine over the items of a descriptor, with its statics
(`s_parse_step`, `s_collection_depth`, `s_report_params`, the lengths,
`s_new_map`, `s_temp`) as variables that outlive a descriptor; the loop of
`read_device_services` that parses the descriptor of each HID service and
completes the reports discovery found; and the look-ups of `esp_hidh.c` by packet
and by id. What discovery found is not derived from the descriptor: a service has
its characteristics (`chars`) beside it, from which `Listed` makes `dev->reports`.
They may be others than the map declares (`Declared`), and than the parser keeps of
it: it leaves out the FEATURE reports of a keyboard or a mouse and a mouse's OUTPUT
(`esp_hid_common.c:82-141`), whose characteristics stay without usage and length.
A boot report that has no id yet is also taken for one of another usage that is
declared without an id (`PassesFor`), which `MatchedExact` excepts. The bytes of an item are
abstracted: an item is a tag and a value, and a descriptor may be cut after any
item or inside one (`short`). Inner collections are one level deep. Sizes and
counts are numbers of bits, as a length that is no multiple of 8 is an error of its
own. `pc = "crashed"` is the read through a NULL result (`esp_hid_common.c:366`).

`Sound` says which descriptors the parser can be expected to understand. It arrives
whole; each of its collections has fields, and either all of them have a report id or
none has; the reports of an id amount to full bytes and to less than 65536 bits, the
range of a length; and what it declares fits in the table. Each condition is one that
the code needs: without the second, for example, the fields before the first
REPORT_ID go to the report of that id, as the lengths are only reset when an id
changes into another. `s_collection_depth` is a byte that a descriptor which ends
inside an inner collection leaves up to 2 higher, and that only a new application
collection sets back; with the 128th such descriptor it may come round to 0, so that
`ParserTypeOK` says that it is positive until then.

### 2.6 BtHidh

Four tasks (`btc` for `esp_hh_cb`, `evt`, `app`, `tmr`) over device structures in
reusable `Slots`, so that a pointer that outlives its structure can be told from
one to the structure that now lies there. A step is what is done under one lock;
a look-up and the use of what was found are two steps. `TouchesFreed` is the use
of freed memory: it ends the run of the program, and what it may be excused by is
in the properties. The stack (`link`, `asked`, `undescribed`, `unadded`, `btq`)
is external and modelled from how the code uses it: it sends OPEN, GET_DSCP,
ADD_DEV, CLOSE and answers, from one backlog of events for all devices.

| Variable | Code |
|---|---|
| `dev[s]` | the structure: address, handle, `connected`, `added`, `in_use`, reports, the transaction that runs and its timer |
| `list`, `list_lock`, `held` | `s_esp_hidh_devices`, its semaphore, the semaphores of devices |
| `cq` | `connection_queue`, by which a descriptor finds its device |
| `queue` | the event loop's queue |
| `odd` | history: `failed`, `closing`, `skipped`, `queued`, `late`, `new_link`, `no_timer` |

### 2.7 HidDevice

`s_dev` with the configuration it was initialized with, the characteristic of
each report as the registration callback stored it, the static `service_index`,
and what NimBLE keeps when the device has ended: its services, its callbacks, its
links. Nothing locks any of it. The application's calls are the entry points of
`esp_hidd.c`. `crashed` is the task that failed an assertion or used freed memory.

A call that sends a report has two steps, because the host task may write the mode
or change the link in between: `SetReport` reads the protocol mode of the map into
`s_dev` (`nimble_hidd.c:367`), `SendReport` looks the report up by it and sends it on
the `conn_id` of that moment (380-386), and asserts that there is a report and a
buffer. `BLE_GAP_EVENT_CONNECT` has four: the flag (`Connect`, 483), the connection
(`ConnectId`, 484), the protocol modes (`ConnectMode`, 492-502) and the post
(`PostLink`). A buffer that cannot be had aborts the host task when it reads a Report
Reference (`RegisterReport`, 603-604), and in `ConnectMode` it is only logged and
passed on: the write then does nothing or brings the host down (`no_mbuf`).
The keyboard host does not use this role; `esp_hidd_dev_init` takes any number of
report maps, and nothing limits the number of connections.

## 3. Faults and policies

`Faults` selects what may go wrong; every run names its set.

| Fault | Module | Meaning |
|---|---|---|
| `early_drop` | `HidhLink`, `KbdHost` | the link may drop during set-up, not only once K is in the connected phase |
| `peer_error` | `HidhLink`, `KbdHost`, `Discovery` | the keyboard may answer a GATT procedure with an error |
| `slow_close` | `KbdHost` | a link takes longer to end than K's 2 s wait (the supervision timeout is 5 s) |
| `late_event` | `KbdHost` | N or E may still be at work when a timed wait of K runs out |
| `no_start` | `Discovery` | a procedure cannot be started |
| `no_memory` | `ReportMap`, `BtHidh`, `HidDevice` | an allocation fails |
| `bad_map` | `BtHidh` | a descriptor that cannot be parsed |
| `stack_error` | `BtHidh` | the stack reports a failure of an open, a close or a request |
| `lost_answer` | `BtHidh` | a request is never answered |
| `no_room` | `HidDevice` | a service does not fit in the GATT server |
| `connect_failed` | `HidDevice` | a connection attempt ends in an error |

Restarts are part of every module that keeps state over them: `KbdHost` keeps the
bonds, `ReportMap` resets its statics, `BtHidh` and `HidDevice` start afresh.

`SelectWhen` says when the application of `KbdHost` selects: from its scan
callback only, as `examples/basic_usage` does; whenever the state is SCANNING; or
at any time. START may come at any time in every run.

## 4. Runs

Passing:

| Run | Checks | Shows |
|---|---|---|
| `hidh_link` | `TypeOK NoStaleWake NoStaleSecurity NoUseAfterFree LinkKnown HostGetsOut CallReturns` | any caller, two keyboards, early drops and GATT errors. The host task always leaves its handler although the caller posts to the same queue; a call returns, aborts, or hangs in one of two ways that `Stuck` names |
| `kbd_faults` | `KbdTypeOK SelectedInRange ScanLoopScans HidhDevAlive LinkSpec` | hold whatever the radio does; refinement of the caller `HidhLink` assumes |
| `kbd_calm` | `SignalsInSync ReconnectHasNoLink KeepsPromise` | hold while links drop only in the connected phase and waits are long enough, with commands at any time; refinement of `KbdPromise` |
| `kbd_live` | `StartPairingHonoured LostIsReconnected` | hold for a keyboard that answers and an application like the example |
| `kbd_input` | `SelectedIsShown NoKeyTwice NoKeyMissed` | scans restarted under a queue of four commands: the device opened is the one at the index when the SELECT was taken, and the one the application meant unless the list was cleared; keys pressed, held and released over several links |
| `discovery` | `DiscoveryTypeOK BuffersOwned ReportsExact EveryKeyArrives` | three keyboards, answers with errors, procedures that cannot be started, light reconnects: one full open learns exactly what the keyboard has, and each CCC is written or refused |
| `report_map` | `ParserTypeOK ParsedExact MatchedExact ReportsAreFound` | whole, cut, unaligned and oversized descriptors, characteristics that the map does not declare or the parser leaves out, one device after the other |
| `bt_hidh` | `BtTypeOK CallbackMemorySafe DescriptorOfItsOwn OpenIsDescribed AnswerIsWhole EventsHandled TransactionEnds` | two classic devices under all faults |
| `hid_device` | `HiddTypeOK InputReachesItsReport HostSafe LinkIsKnown ApplicationLearns` | three configurations, two links, initialized and ended again, buffers missing |

Where the code has a flaw that the model reaches, and no document that says
otherwise, the property names the case as its exception: `odd` in `KbdInput`,
`BtHidh` and `HidDevice` records it when it happens, and the property holds as
long as it has not. `Stuck` of `CallReturns` stands for a read that was answered
with an error (`nimble_hidh.c:123,138` give no `SEND_CB`) and for a procedure that
could not be started (`nimble_hidh.c:583,607`); `StandsStill` of `EventsHandled`
for a GET_REPORT answer that keeps its device locked (`bt_hidh.c:510`) and a
descriptor without a connection. `new_link` of `AnswerIsWhole` stands for a
GET_REPORT through a structure whose link has closed: only its reports are looked
at (`bt_hidh.c:867`), not `connected`, and the stack sends it on the new link of the
same address.

In `HidDevice` `Settled` stands for a device that was ended while the host runs, and
for a host that is started again after an end with no device or with services
counted already (`service_index` is never set back, `nimble_hidd.c:547`); a device
that is ended before the host ever runs is not excepted. `Ambiguous` is two reports of one mode and type with the same id, or
two boot reports of one usage: what neither `find_report` nor
`find_report_by_usage_and_type` can tell apart. In `Discovery` `PnpUnread` stands for
the read of the PnP id that could not be started, whose branch frees the manufacturer's
name that the device keeps (`nimble_hidh.c:394`), and `refused` for a CCC that the
keyboard refused, which `on_write` does not look at (`nimble_hidh.c:600`): the open
succeeds without the notifications of that report.

Violations, each of one property a document or comment states:

| Run | Property | What happens |
|---|---|---|
| `kbd_zombie` | `ConnectedIsUsable` | stale `s_connected_sem`: CONNECTED with no link and no signal that will end it (`bt_kbd.c:545`) |
| `kbd_select` | `SelectionIsMeant` | a SELECT is taken after the list was cleared and filled again, and another device is opened than the one at that index in the list the application was given (`bt_kbd.c:486`) |
| `discovery_second` | `TablesFit` | a second full open counts on from the services of the first (`nimble_hidh.c:181`) and runs out of the table |

Other behaviour worth a look, which no property can exclude: a keyboard that was
connected since the boot is still in the device list when it is selected after a
START, and `esp_hidh_dev_open` refuses it as "Already Connected"
(`esp_hidh.c:197`); a START behind a SELECT at the head of the queue is not seen
while K is connected or connecting (`bt_kbd.c:578`), and `s_disconnected_sem` left by an earlier link ends the next
one at once when waits run out early (`bt_kbd.c:575`).

### Bounds

* Two keyboards where one could be mistaken for another; one in `kbd_live`,
  where each further keyboard only adds copies of the same path.
* `EvqLen` 2 instead of 5 (1 in `kbd_faults`): full and empty queues and a blocked
  sender all occur. `CmdLen` 1 or 2 instead of 4: two are enough for a command
  behind another; `KbdInput` has all 4. `MaxScan` 2 instead of 8, indices -1 to 2:
  in range and out of range at both ends.
* One procedure of each kind. `kbd_faults` leaves out the reads, which
  `hidh_link` explores with the same faults.
* `KbdInput`: three devices for a list of two, reports of two keys (a full one, a
  rollover, and less), two waiting reports, four pieces of `MaxWork` (keys pressed,
  links lost, commands). The theorems hold for all values of these.
* `Discovery`: one full open per boot (`MaxOpens`; the second is the subject of
  `discovery_second`), tables of 6, 6 and 4 instead of 10, 20 and 20, which the
  keyboards of `MCPeers` fill to the last entry but for one service. The three
  differ in the order of services, two HID services, the information service
  before and after them, and the protocol mode before and behind the reports.
* `ReportMap`: devices of one or two services with maps of up to three collections,
  with and without ids, padding, inner collections, reports that the parser leaves
  out and an unaligned field; a characteristic for each id and type and those of the
  boot protocol, and one service without the latter but with a characteristic that
  is not declared and one without a report reference; cuts at every kind of item; a
  table of 6 reports instead of 64, one map larger than it; no device is opened once
  `MaxParsed` = 2 descriptors were parsed since the reset, so that each whole
  descriptor meets the statics of each other one. The theorems hold for all devices
  and any `MaxParsed`.
* `BtHidh`: two devices, two slots, a request that has a timer and one that has
  none, an event queue of one, `MaxWork` 4 of which a connection counts 2: two
  connections, or one with two requests. The second connection may find what the
  first has left, which is what the properties are about.
  A request through a closed structure that reaches the next link (`new_link`,
  `bt_hidh.c:873`) needs three connections: with one device, `MaxWork` 7 and only
  `lost_answer` in `Faults`, TLC finds the invariants true as well, in 90 s.
* `HidDevice`: `MaxWork` 5 links, reports, mode writes and initializations
  together, an event queue of one; a keyboard, a keyboard with media keys beside a
  mouse (boot reports of two usages, two maps), and two maps with the same report.
* Symmetry is used for safety only (`kbd_faults`, `kbd_calm`, `kbd_input`), with
  the keyboards, or devices and keys, interchangeable.
* Deadlock is not checked where K may hang in `WAIT_CB`, which the code does.

### Fairness

Procedures of the host end: `ble_gap_connect` is given a timeout, the security
manager and ATT have 30 s timers, a terminated link ends by its supervision
timeout. FreeRTOS runs K and E and wakes a blocked sender when there is room.
Strong fairness is used where notifications, which arrive far slower than they
are handled, could otherwise starve a step for ever. `kbd_live` also assumes that
a keyboard in range answers a connect sooner or later. `BtHidh` assumes that the
stack's task, the event loop and `esp_timer` run, and `HidDevice` that the host
task and the event loop do; no answer of a remote device is assumed. Nothing is
assumed of applications, advertising, or a link dropping by itself.

## 5. Proofs

All are checked by TLAPS for every value of the constants, from the assumptions
named in the modules (`NoAddr` is no address, scripts are made of known
procedures, lengths are positive).

`HidhLink_proofs`. The safety properties are not inductive: that a failed open
may free its structure depends on nobody having seen it, which depends on when
handles are reset, and so on. `LinkInv` adds what each party knows of the others:

* `HandleInv`: a stored handle belongs to a structure in the list and stays
  stored until N has handled its DISCONNECT; no other link comes up before.
* `WakeInv`: `NoStaleWake`, and a caller in `WAIT_CB` has a procedure to finish.
* `SecurityInv`: nothing is pending on the security side when a connection is
  set up, and only a link can have a security procedure.
* `MemoryInv`: queue entries, N and the caller hold structures of the list; one
  that waits for its first connection is unknown to everybody else.

The lemmas `TypeStep`, `HandleStep`, `WakeStep`, `SecurityStep` and `MemoryStep`
prove one part each, action by action; `LinkInvariant` combines them, and
`TypeCorrect`, `NoEarlyWake`, `NoEarlySecurity`, `HandlesAgree` and `MemorySafe`
follow.

`KbdHost_proofs`. `KbdInv` is `LinkInv`, `KbdTypeOK`, the three properties that
hold under all faults, and one more fact: the structure of an open that waits for
its connection is not the one `hidh_cb` knows, so that freeing it leaves
`s_hidh_dev` alone. `CallsAreAllowed` shows that every step is a step of
`LinkNext` or leaves the layer alone; it needs `SelectedInRange` (the opened
entry is an address) and `HidhDevAlive`. `UsesHidhLink` (`Spec => LinkSpec`)
follows, and with it `KbdMemorySafe` and every other theorem about the layer.

The second part of `KbdHost_proofs`. What `kbd_calm` checks depends on timing, so
these theorems assume `Calm`: the faults are at most `peer_error`, as in that run; the scripts,
the addresses, the length of the queues and when the application selects stay
arbitrary. The semaphores are right because K, N, the event queue and E always
agree on how far the news of a link has come, and `CalmInv` says how far that is:

* `PlaceInv`: the places of K at which there is no link, and those at which there
  must be one.
* `CallInv`: inside a call, the link is the one the call makes, and nothing of it
  has been told to E before its OPEN is posted.
* `LinkUpInv`: once OPEN is posted it is either still in the queue, or being
  handled, or in the semaphores and `s_hidh_dev`, and no CLOSE is anywhere.
* `LinkDownInv`: a link that is gone has its CLOSE in exactly one of the places
  from N's handler to `s_disconnected_sem`, behind its OPEN; when K has seen it,
  nothing is left anywhere (`Quiet`), which is why the next connect finds the
  radio free.

`CalmStep` proves it action by action, from `KbdInv` and from lemmas on what
appending an event, taking one and finishing a procedure do to a sequence;
`ReconnectsFree` and `SignalsTrue` follow. For the refinement, `StateInv` ties the
public state to K's place and `PartnerInv` says that the link, the call and every
OPEN that waits are of the partner, and that nobody else is bonded. `PromiseStep`
shows for each action that it is a step of `KbdPromise` or leaves its variables
alone, and `PromiseKept` (`Spec => KeepsPromise`) combines the parts.

`KbdInput_proofs`. Of the scan: `SelectInv` follows a choice from the
application's copy through the queue to the index and the device: whatever was
cleared, the device that was picked stays at its index until it is opened. Of the keys: what a
report must be compared with is not `s_prev_keys` now but what it will be when the
report is reached; `Before(i)` is that for the i-th report that waits. `TwiceInv`
says that each key of a report was in the one before or counts as new, and that
the keyboard's own memory holds nothing its last report had not; `MissInv` says
the converse. A report that was taken too early breaks both, which is why the
properties except that case. `SendKeeps`, `TakeKeeps`, `TranslateKeeps` and
`EndKeeps` prove one step each; `OpensSelected`, `KeysOnce` and `KeysArrive`
follow. The types the proofs need (`ScanType`, `KeyType`) are part of them.

`Discovery_proofs`. For any keyboard that fits the tables and tables of any size;
about the first open of a boot (`opens <= 1`), since `discovery_second` shows what
a second one does. No theorem needs an assumption on faults. `TableInv` says which
part of each table a search in progress has written and that a finished one holds
exactly what the keyboard has, `LoopInv` where the three loops are and which branch
K is in, `HidInv` that `hidindex` counts the HID services behind the loop while the
arrays have the length counted for all of them. These make `FitInv`, and
`discovery_fits` follows. `OpenInv` adds to it:

* `HeapInv`, or the PnP id could not be read: the pointers of the device name
  different live blocks, and the block of a read in progress is nobody's; `rdata` is
  freed only in between. Reads of other kinds that cannot be started are not
  excepted: none of their branches frees `rdata`.
* `UnreadInv`: which reads could not be started is known of what is behind the loops,
  so that the list is right as far as the references were read.
* `ListInv`, `ReportInv`: the list holds the reports behind the loops, each once
  and as the keyboard describes it; the one K describes is right as far as its
  descriptors were seen.
* `ModeInv`, `BatteryInv`: the protocol mode of each HID service that was read;
  the battery level is not a HID characteristic.
* `SubInv`: what has to be subscribed to is, was refused, or is still to be gone
  through.

`FitStep` and `OpenStep` combine one lemma per part, each action by action.
`LastIs` and `LastExists` say what the `CHOOSE` of `LastOf` picks, the latter by a
counterexample of least length.

`HidDevice_proofs`. For any configurations the parser can make (`Parsed`: its boot
reports have a report-mode twin), connections and queue length, under all faults.
What belongs to the registered services needs `Settled`; what is about one link
needs that there is one:

* `EventInv`, `OneLinkInv`: what the host knows of a link it knows while the link
  is there, and with one link at a time, younger than the device, it is never
  behind by more than the callback it is in. `link_is_known` follows.
* `FirstInv`, `SettledInv`: before the first end the callbacks are set after the
  device, its event loop and its configuration exist; and wherever the host runs, it
  runs with one device, from the first service on.
* `RegisterInv`: the services still to be registered are those of the maps from
  `service_index` on, no link comes up before they are, and each characteristic
  was asked for. With `AskedIsFound` (the first report the search picks exists)
  this is what keeps the assertions of the callback true: `host_safe`.
* `FilledInv`: the reports of the maps up to `service_index` have their own
  characteristic, or it is among those of the service being registered;
  `OwnReport` shows that the two searches find a report by its characteristic
  when no other has the same.
* `CallInv`: while a report is being sent, the mode in `s_dev` is the one that was
  read, although the host task may write the characteristic or change the link
  meanwhile, and the report asked for is a registered one. `input_reaches` follows.

`FirstIs` shows that the `CHOOSE` of the search has a value, by the least map and
the least report in it (`LeastIs`, from the library's well-founded orders).

`BtHidh_proofs`. For any devices, structures, requests and faults and any lengths
of the event queue and of the stack's backlog. The types and `ListInv` (the list
names each live structure once; one that has left it is freed, or its task waits for
its lock with the list locked) need nothing else: `bt_types`. The rest of `BtInv` is
about a system in which no open has failed and no device has connected again between
its close and its freeing (`Clean`; `odd` only grows until a reboot, so that a state
with `Clean` has only such states behind it):

* `HandleInv`: of two structures of one address only the first of the list gets the
  link, because `ByBda` finds no other (`ByBdaIs`, by `LeastIs`).
* `StackInv`: in the stack's backlog no event of a link comes between its CLOSE_EVT
  and the OPEN_EVT of the next, and a request is only on its way on a link.
* `ClosedInv`: a device that has closed hears nothing until it is freed.
* `FreeInv`: it is freed once: one event says so, or the event loop is at it.
* `CallbackInv`: the device that `esp_hh_cb` has found is listed and in use, so that
  the event loop, which frees another, does not free it: `callback_memory_safe`.

`Frames` says once what a step may change; the lemmas `...Step` go through the
actions for one part each, and `BtStep` combines them.

`BtPairing_proofs`, on top of it. `esp_hh_cb` gives a descriptor to the first device
of `connection_queue`; it has nothing else to know its device by. The invariant
`PairInv` says that two functions exist, `f` from the devices queued and `g` from the
OPEN_EVTs under way, to the places of the descriptors under way (in the backlog, or
behind it where the stack has not asked for them):

* `Match`: both keep the order, all of `f` comes before all of `g`, and the
  descriptor of an event is behind it and of its address. The device of an open that
  is being handled counts as queued (`Cq`), since `OpenLink` comes a step later.
* `Whole`: no descriptor is without a device, unless an open was `skipped`. Without
  this the first of the queue could be given the descriptor of none.
* `AddLast`: an ADD_DEV_EVT comes when its device is described.
* `Awaited`: a device that has a link and no reports is queued with its descriptor.
* `Owned`: the device queued has the address of its descriptor.

A step that takes an event, queues a device or adds an event to the backlog moves the
places (`LinksPass`, `DescribedTake`, `DescribedAdd`); the functions move with them.
`OwnInv` follows the descriptor from the queue into the device
(`descriptor_of_its_own`), `OpenInv` the device from its descriptor through
ADD_DEV_EVT to the event for the application, which no close can overtake
(`open_is_described`).

The second half of the module is about the answers. An answer to GET_REPORT does not say
which report its data is of: `esp_hh_cb` takes the id that the device remembers, and
`answer_is_whole` says that it is the one that was asked for. `LinkInv` holds whatever went
wrong: a connected structure is live and has the handle of its own address, and the one
about to get a link is the first of the list with the address of the event
(`OneHears`: at most one structure hears the answers of a link). `CalmInv` is about a
system with neither `late` nor `new_link`:

* `WaitInv`: of each address at most one GET_REPORT is under way, counted through the
  requests that wait for the stack and the answers in its backlog (`Pending`), and the
  OPEN_EVT of its link is not behind it.
* `RememberInv`: the structure that will hear the answer remembers this request.
* `TimerInv`: a GET_REPORT has no timer, so that no timeout ends it.
* `AnsweringInv`: while `esp_hh_cb` is at the answer, from finding the device to
  `reset_trans`, the device keeps its memory of the request, and no other is under way.

`Carried` says what a step does to the requests under way: each was there before, and no
two come from one; `PendingStep` proves it for every step but a new GET_REPORT, and
`GetAsked` that this one finds none under way. `reset_trans` and the timer end whatever
transaction there is; that they end only their own is what `late` excepts
(`MemoryStep`, `ResetOwn`).

`ReportMap_proofs`. For any devices and descriptors, a table of any size, with or
without failing allocations. `MapInv` is the conjunction of four invariants:

* `ParseInv`: types, and that the position in the descriptor is a place of its map
  (`Places`: a collection, a field and a part of it; `PlaceIs` says which item is
  there and which place follows). The depth is what the place adds to what the
  descriptors before have left, at most 2 each. `ParserIsTyped` follows.
* `ListInv`: entry i of the list is the i-th report that discovery found, after
  `MatchAll` with the map of its service where there was one, for any
  characteristics. A map changes neither the service nor the type of an entry, nor
  the id of one that is not for boot protocol; with that, and for packets from the
  look-ups alone, `ReportsFound`.
* `ExactInv`: in a descriptor that is `Sound` and was begun outside a collection the
  parser is at a place where the statics hold what the map declares up to there
  (`ParserAt`): the reports of the ids before the one that is measured, the bits of
  this one as far as its fields were counted, and the items of the field that is
  read. One lemma per kind of place (`PageGoes` to `NewIdGoes`) says that its item
  leads to the next; `ExactGoes` combines them. The end is the place where
  everything that is declared was collected (`EndIs`).
* `ParsedExact` itself, which needs of `ExactInv` that such a descriptor is neither
  refused nor the one that crashes (`UnderstoodEnds`). `ParsedExactly` follows, and
  `MatchedExactly` with `MatchedIs` and `Undeclared`: of the declarations of a map
  whose reports can be told apart only the one about it changes a report, and where
  there is none the report stays as it was found.

The lemmas about data (`FlattenHasParts`, `Iterated`, `BitsAre`, `MatchSteps`) show
that a sequence of sequences, a sum or a repeated match has the value its definition
step by step gives it, by the least number for which it had not (`LeastIs`).

This proof has corrected the model in three places that the run's small devices had
not reached. `Sound` had left out that all fields of a collection, or none, have an
id, and that the bits of an id must fit in a length; the depth was said to be positive
after any number of descriptors; and `ParsedExact` had not excepted a device without
reports, whose descriptor is never parsed.

Only model-checked: liveness, which the prover does not support (`HostGetsOut`,
`CallReturns`, `StartPairingHonoured`, `LostIsReconnected`, `EventsHandled`,
`TransactionEnds`, `ApplicationLearns`). The runs that find a violation speak for
themselves.

## 6. Not modelled

* `ble_hidh.c`, `ble_hidd.c`, `bt_hidd.c`: other transports of the bundled
  library, not compiled in a NimBLE build. The first has the structure of
  `nimble_hidh.c`, the others that of `nimble_hidd.c`.
* `hid_gap.c`: straight-line initialisation without state of its own; init and
  deinit of the HIDH layer, which the component calls once.
* `report_read` and `report_write` of the NimBLE host, which the component does
  not call; getters of single fields; the battery and the device information
  service of the device role.
* Bytes: the decoding of report descriptor items, the keymaps and escape
  sequences, names and their printing.
* Real time: what takes how long, and so the delays START may meet while a call
  blocks.
* Build files and the example, whose way to select is a policy of `KbdHost`.
