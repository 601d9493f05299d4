# TLA+ models of esphome-host-linux

ESPHome's `host` platform compiles a configuration to a Linux program but stubs
out the hardware. This repository fills the stubs in: GPIO, SPI, 1-Wire and CAN
on kernel interfaces, a web server and an MQTT backend, and a Bluetooth LE stack
on top of BlueZ. The models here cover the parts in which correctness depends on
the order of events or on the limits of a format: the Bluetooth LE central (GATT
client), its nodes and the Bluetooth proxy built on it; the peripheral side, the GATT
server with its values and its advertisement, and the broadcasters; the scanner and
the way of an advertisement to Home Assistant; the web server's connections and event
streams; the GPIO lines with their alert thread; and the MQTT backend.

## Inventory

All components run on ESPHome's main loop, a single thread that calls every
component's `loop()` in turn. The hard parts are where a second thread or another
process takes part.

| Component | State it keeps | Operations | Interacts with | What is hard |
|---|---|---|---|---|
| `esp32_ble_client` `BLEClientBase` | `state_`, `want_disconnect_`, `services_`, `host_`, address and path | `connect`, `disconnect`, read/write/notify, `loop` (drain events, time limits) | tracker promotes it; worker through two queues; nodes through callbacks | late events, deferred disconnect, time limits racing answers |
| `esp32_ble_client` `BLEGattHost`, `BLEGattHostThread` | command and event queues, `discovered_`, `discovering_`, `handle_map_`, the bus | `do_connect_`, `do_disconnect_`, discovery, operations, signal handler | BlueZ over D-Bus; one worker thread for all hosts and the GATT server | blocking calls, signals against polls, partial failure, re-entrancy |
| `bluetooth_proxy` | slots, their address and stream position, free/allocated report, the API client | connect/disconnect/services requests, subscribe, close-all loop | API client; one `BLEClientBase` per slot; tracker | slots freed in any order, late events on a reused slot, API client lost midway |
| `esp32_ble_tracker` | listeners, clients, advertisement queue, scanner state | `loop`, scanner threads, `deliver_device_` | scanners (HCI socket or BlueZ), listeners, clients | queue at its limit, 8-bit change counter |
| `ble_client` | nodes, enabled flag, running actions | connect, disconnect, write, pairing actions; sensors, switch, output | `BLEClientBase` callbacks | action chains that wait for an event that never comes, or go on at someone else's |
| `esp32_ble_server`, `esp32_ble` | exported objects, cached values, connection ids, advertisement flags | start, notify, BlueZ reads and writes, register advertisement | BlueZ; the shared worker thread; main loop | state shared by two threads, replies that arrive late, failed start |
| `web_server_base` | listening socket, SSE sessions, deferred queues | accept thread, one thread per connection, `loop` | browser, entity state changes | sessions used and freed by several threads |
| `mqtt` | mosquitto handle, flags, callbacks | connect, disconnect, publish, callbacks | libmosquitto's thread | joining a thread under a mutex its callbacks take |
| `linux_gpio` | line descriptors, alert entries | setup, attach, detach, alert thread | kernel | descriptors closed and reused under a poll |
| `bthome_advertiser`, `esp32_ble_beacon` | a payload, registration flags | build, register on the worker, release | BlueZ; the shared worker thread | clamping and lengths at their limits; replies that arrive late |
| `socketcan`, `linux_i2c`, `linux_spi`, `linux_w1`, `linux_sysfs_sensor`, `linux_time`, `linux_compat` | a descriptor or path | synchronous read and write | kernel | nothing concurrent |

What makes the Bluetooth central correct:

* a client never gets stuck in a half-open state, whatever BlueZ does;
* a link that is lost is reported, from every phase of a connection attempt;
* events of an old attempt leave a newer one consistent: an idle or armed client holds
  neither a service tree nor a deferred disconnect;
* every accepted GATT operation is answered once, in order;
* discovery runs once at a time and follows the link;
* the proxy's slot report is exact, a slot in use can always be moved on, a slot's
  stream and deferred disconnect end with its use, and what Home Assistant was told
  is connected is held by a slot.

And the peripheral side:

* the server's client list is the set of connected centrals, however their coming and
  going falls into the server's start;
* a change of the advertisement is not lost between the threads, and BlueZ is not given
  a path it has;
* recovery of a refused advertisement ends;
* a notification goes out once, in order, with the value of its call;
* a broadcaster's bytes decode to what was configured, and it never loses track of what
  BlueZ advertises for it.

Scanner and nodes:

* advertisements reach the listeners in order, one is lost only to newer ones, and no
  discovered client is overlooked;
* both backends say the same of the same advertisement, from no more bytes than there are
  and as far as a signal tells, and what is forwarded parses as what was received;
* a chain that waits for a write goes on; a node uses no handle of an old connection.

The other services:

* each HTTP request is answered once and its socket closed once; the main loop uses no
  deleted event stream; each stream is told each state;
* pins and kernel agree on the lines, outputs keep their level through
  reconfigurations unless the kernel refuses to set it, each edge is read;
* the MQTT thread never outlives its handle, and stopping it ends.

`PROJECT.json` lists the hazards of the code at their lines with the properties
that watch them.

## Modules

| Module | Models |
|---|---|
| `BleClientBase` | `BLEClientBase` as operators on a client record: `set_state`, `connect`, `disconnect`, the three lifecycle events. No variables: both state machines below use it. |
| `GattClient` | One client, its `BLEGattHost` on the worker thread, both queues, and BlueZ. |
| `OpChannel` | Abstract specification: operations are answered once and in order. |
| `BluetoothProxy` | `BluetoothProxy` and its `BluetoothConnection` slots, the API client, and each slot's worker reduced to the order of its reports. |
| `GattServer` | `BLEGattServer` on the worker thread, `BLEServer::loop()` on the main thread, and BlueZ as they see it. |
| `ServerValues` | The value of a characteristic and a descriptor of that server, between both threads. |
| `BleTracker` | The scanner thread, its bounded queue, and the tracker's `loop()`. |
| `AdvCodec` | Advertisement formats: HCI events, AD payloads, D-Bus properties, UUIDs, and the proxy's re-encoding and batching. |
| `Broadcaster` | `bthome_advertiser` and `esp32_ble_beacon`: encoder, registration, and what a receiver decodes. |
| `ClientNodes` | A `BLEClient` with its nodes and action chains, on the record of `BleClientBase`. |
| `WebServer` | The HTTP server's threads and the event source of the main loop. |
| `GpioAlerts` | The GPIO pins, the alert thread, and the kernel's line requests. |
| `MqttBackend` | `MQTTBackendHost` and the thread of libmosquitto. |
| `MCGattClient`, `MCBluetoothProxy`, `MCGattServer`, `MCAdvCodec` | Instances for TLC. |
| `MCServerValues`, `MCHostServices`, `MCBleData` | Several components in one run, see Runs. |
| `HostServices_proofs`, `BleData_proofs` | Theorems and proofs about `GpioAlerts` and `MqttBackend`, and about `Broadcaster`, `AdvCodec` and `ClientNodes`. |
| the other `*_proofs` (6 modules) | Theorems and proofs about the module they are named after; `GattServer_proofs` has those of `ServerValues` too. |

Operators whose name extends that of another one (`SetStateForgetsNothing`,
`CloseSlotKeepsStream`, ...) are faulty variants, each a plausible mistake in the
code; `PROJECT.json` says which property notices which. No specification uses them.

### GattClient and the code

`client` is the `BLEClientBase` record; `inLoop` and `drained` are where `loop()`
is: it swaps `events_` out (`LoopDrain`), dispatches one event after the other
(`DispatchEvent`) and ends with the time limits (`LoopEnd`). Application code also
runs in between, since callbacks of a dispatched event may call `connect()`,
`disconnect()` or a primitive; the tracker's own `loop()` may not.

`commands`, `events`, `batch` are `commands_`, `events_` and the vector
`worker_process_commands()` swapped out. `calls` holds the D-Bus calls the worker is
blocked in: one action per call that returns, which runs the code up to the next
call. So all of main thread, BlueZ and other programs interleave with the worker
exactly at its blocking calls. The stack is deeper than one only with `Reentrant`:
the comment at `ble_gatt_host.cpp:1113` says that a blocking call may dispatch
queued signals. Both readings are modelled.

`host` is `bus_open_`, `discovered_`, `discovering_` and whether `handle_map_` has
entries. `dev` and `signals` are BlueZ: the truth about the link, and the
`PropertiesChanged` signals on their way to this host's bus. Only changes made while
the bus is open are signalled.

### BluetoothProxy and the code

`slot[s]`, `send[s]` are the client record and `send_service_` of each connection,
`free` and `allocated` are `connections_free_response_`. `told` is a history
variable: the addresses the API client was last told are connected. Everything runs
on the main thread, so a request is one step. A connection's `loop()` may dispatch
several worker events and ends with a time limit or a piece of the service stream;
`pass` keeps the others out until it has ended.

The worker of a slot is reduced to the order of its reports: `CONNECTED` when the
link comes up or a pending CONNECT finds it up, `SERVICES_DISCOVERED` once per link,
`DISCONNECTED` at any time. This allows every order `GattClient` shows, and late
reports on a slot that was freed or given to another device.

### GattServer and the code

`pc` is where the worker is: idle in `sd_event_run`, or in one of the calls it blocks in
(`UnregisterAdvertisement`, the power cycle, `GetManagedObjects`). `inbox` holds what
BlueZ sent to the server's bus, in order: signals, `Release`, and the replies to the two
asynchronous registrations. A blocking call takes its own reply past the inbox, and the
rest waits until the worker is idle, so the snapshot of `GetManagedObjects` may be newer
than signals still in the inbox.

`server` has the worker's flags (`start_requested_`, `bus_`, whether the device watch is
installed, `adv_registered_`, `readv_power_cycled_`, the re-advertise timer). `start()` is
called once, so `started_` adds nothing and is left out. `DoStart` may fail in each of
its steps: without a bus nothing follows, without an object manager there is no
application but the advertisement still works, and a failed watch is only logged.

`adv` is the shared advertisement: `pending` counts the contents of `pending_adv_`,
`flag` is `adv_pending_`, and `push` says how far the main thread is in
`on_advertising_changed()`, which takes no lock. The getters may therefore read in the
middle of the assignment (`Torn`). Reading has no effect on the server, so
`PropertiesRead` needs no place in the inbox. The plain stores are taken to become
visible in program order, as on x86; on other processors `wake()` orders them in
practice, though the language promises nothing. The test and the reset of
`adv_pending_` are one step: a push that sets it in between has stored its content
before, and the registration that follows reads it.

`reg` is BlueZ's registration of the path and the content it read. BlueZ accepts,
refuses, releases, or refuses a path it has. An unregistration or a loss of power answers
a call that is still open with an error; the power cycle may also fail to have an effect,
as its errors are ignored.

`ids` and `nextId` are `device_conn_ids_` and `next_conn_id_`, modulo `IdSpace` (2^16).
`GattServerAssumption` asks for more ids than devices: entries are never removed, so with
65536 devices and more two of them share an id.

### ServerValues and the code

`value` is `value_` of a characteristic, which automations set on the main thread, and
BlueZ's writes and the on_read listener on the worker, without a lock. An assignment has
a beginning and an end; a thread that reads in between, or assigns at the same time, gets
either value or neither (`TornValue`). `exported` follows the start: `build_tree_()` runs
on the main thread in `setup()`, the worker does the rest when it first processes
commands. `notify_q` is `commands_`, `swapped` what the worker took from it, `cached` is
`cached_value`. `asked` and `told` are histories. The callback of a write runs on the
worker and is any automation: it notifies or does not.

### BleTracker, AdvCodec and the code

`scanner` is where the scanner thread is between the calls that may fail; a failure
releases what was taken and ends the thread, which nothing restarts. `queue` is
`queue_`; `Enqueue` drops the front at `QUEUE_MAX`. `loop_at` is where `loop()` is: swap
the queue out, deliver one advertisement after the other, then
`try_promote_discovered_clients_()` if `version` (`state_version_`, modulo
`VersionSpace`) moved. An advertisement is its number and the client it is from.

`AdvCodec` has the bytes. `air` is an advertising event; the HCI backend parses its
bytes, of which `cut` may leave only a part (`handle_le_meta_event_`,
`parse_ad_payload`), the D-Bus backend sees it as BlueZ tells it, as dictionaries
(`parse_device1_props`). `signal` is which properties the signal of each report carries: all
of them, in an `InterfacesAdded`, or some without the address, in a `PropertiesChanged`; a
property left out is `<<>>` and the parser does not touch its field. `BackendsAgree` compares
with the HCI device `Limited` to what the signal carries. `batch` is what the proxy made of
the devices. Lengths of 32- and 128-bit UUIDs, addresses and buffers are constants, so that
short inputs reach every limit; a 16-bit UUID and a company id have two bytes.

Each loop of the code is an operator for one pass (`ReadField`, `ApplyField`, `ReadReport`,
`append_ad`) and a recursive function over the number of passes (`FieldsOf`, `Applied`,
`handle_le_meta_event`, `Serialized`). `parse_ad_payload` reads a structure and applies it in
the same pass; as reading depends on nothing that was applied, the model reads them all and
then applies them. A report on the air is its AD structures and a `tail` that starts with no
whole structure: padding, or one that overruns. Every payload is of this form. A length is a
number and not a byte here, so the reports of `Air` may be longer than a controller's.

### Broadcaster and the code

The payload is built on the main thread; `setup_at`, `start_requested` and `started`
lead to `RegisterAdvertisement` on the worker, whose answer, `Release` calls and the
destructor meet in `adv_registered`. `on_air` is BlueZ's side. `PushObject` is one pass of the
encoder's loop, over the list that `std::stable_sort` ordered (`Sorted`). The readers of the
properties (a BTHome and an iBeacon decoder) are written from the byte order the
receiving code of `esp32_ble_tracker` uses and from the encoder's object table.

### ClientNodes and the code

`c` is the client record of `BleClientBase`; the worker is reduced to what `GattClient`
shows of it: commands run in order and every accepted write is answered. Each time the
tree is read the characteristic may have another handle, or be missing. `write` and
`chains` are the running counters and the handle of the actions, `output` and `sensor`
the handles the nodes keep.

### WebServer and the code

`thread[c]` is where the thread of a connection is: parse, dispatch, handler, and for an
event stream publish, greet and wake. `fd[c]` says who owns the socket. The main loop's
`AsyncEventSource::loop()` is one step per session it serves (`visiting` is its
snapshot), one for the collection under the mutex, one for the deletion, one for the
decision to sleep; connection threads step in between. `queue[c]` is `deferred_queue_`,
with the duplicate check on source and generator; a generator renders the state at the
time the event is sent. `shown` is the history of what each stream was told.

### GpioAlerts and the code

`file` is the kernel's table of line requests, by descriptor number; numbers are handed
out lowest first and used again. `call` is what is left of the main thread's call:
removal from `entries_`, `close()`, request, `fcntl()` and `add()` are separate steps,
since the alert thread works on a copy of `entries_` without the mutex. `PollEnter` binds
numbers to open files as `poll()` does, and holds them while it blocks; an entry whose number
means nothing by then is dropped from what is watched. `ReadEvent` reads whatever the number
means by then. A `SET_VALUES` may fail, which `digital_write()` only logs: `refused` (a
history variable) are the pins this happened to since their line was last configured, and
`OutputHeld` is about the others.

### MqttBackend and the code

`mu` is `mu_`, `caller` where the main thread is in `connect()` or `disconnect()`: both
join the library's thread while they hold `mu`. `worker` is that thread: in the network
loop, in a callback, or in a callback that waits for `mu`. A forced stop cancels it in the
network loop only. The calls of `on_disconnect_` from `connect()` itself, under `mu_`, when it
cannot make a handle or start to connect (`mqtt_backend_host.cpp:67,97`), change nothing here
and are left out.

### Abstractions

* Data: MTU, status codes, handles, payloads and the shape of the service tree are
  left out; a tree is the number of its services (one in `GattClient`, at least one in
  the proxy, since the worker adds a GAP service where BlueZ exports none).
* Time: a time limit may be over in any pass of `loop()`. The re-arming of the
  DISCONNECTING timer by repeated `disconnect()` calls is therefore not visible.
* A read of a BlueZ property succeeds; an unknown object reads as "not connected",
  which the code treats alike. Failure of `sd_bus_add_match` is not modelled.
* In `GattClient` a tracker pass promotes any `DISCOVERED` client; that the change counter
  hides none is shown in `BleTracker`.
* `global_api_server->is_connected()` is identified with `api_connection_` being set.
* A response about address 0 (late event of a free slot) is about no device and is
  not recorded in `told`.
* PAIR, UNPAIR, CLEAR_CACHE and the GATT read/write requests of the proxy change no
  slot state on the main thread and are left out.
* In `GattServer` a read or write by a central shows as the id it is given
  (`CentralAccesses`); the values are in `ServerValues`.
* The destruction of a broadcaster is one step, though its worker may still dispatch a
  callback while it runs (`bthome_advertiser.cpp:26-38`, `ble_gatt_host.cpp:75-85`).
* BlueZ announces a device with its address, does not change it and uses the object paths it
  documents: the early returns of `on_interfaces_added_()` and `on_properties_changed_()` for
  a signal without an address are not reached.
* What `GattClient` says of answered RSSI requests it says of operations by their ids; the
  code calls the one `rssi_cb_` there is by then.
* The text of HTTP requests and event frames, authentication, MQTT topics and options, GPIO
  bias and debounce are left out. The rounding in the BTHome encoder is: values are scaled
  integers.
* `clients_` is a set: `host_on_connect()` ignores an id it has.

## Runs

| Run | Expected | What it shows |
|---|---|---|
| `gatt_safety` | pass | Type, `ClientInv`, `DiscoveredTracksLink`, `DropIsReported` with one advertisement, one further `connect()`, one `disconnect()`, one lost link and one link raised by another program, in any order (1.4 million states). |
| `gatt_liveness` | pass | Under `FairSpec`: `ConnectingEnds`, `DisconnectingEnds`, `DropIsNoticed`, and `AnswersOnceInOrder`, the refinement of `OpChannel`, with two operations in flight across a disconnect and a lost link. |
| `gatt_reentrant` | pass | `OneWalkAtATime` with re-entrant signal dispatch on a link that is not lost. |
| `gatt_teardown` | violation | `TeardownIsFinal`: see findings. |
| `proxy_safety` | pass | Two slots, two addresses, trees of two services: `SlotAccounting`, `UsedSlotIsLive`, `StreamInRange`, `NoStaleIntent`, `ToldUpIsHeld` (1.7 million states). |
| `proxy_device` | violation | `ConnectsToItsDevice`: see findings. |
| `server_presence` | pass | `ClientsAreCentrals` with two centrals, connected or not at the start, and three changes of their links before, during and after registration and enumeration; `NotifiedInOrder` with both threads setting, reading, writing and notifying (3.3 million states). |
| `server_advert` | pass | `AdvertisedIsCurrent`, and under `FairSpec` `RetriesEnd`, with two pushes, a link change that arms the timer, and a `Release`; BlueZ may refuse every registration. |
| `web_server` | pass | `OneAnswerOneClose`, `HeldIsAlive`, and under `WebFairSpec` `StateReachesStream`, with two connections of any kind whose peers may leave at any time (0.25 million states). |
| `host_services` | pass | GPIO: `ClaimsMatch`, `OutputHeld`, `StaleRoundOnly` and `EdgeIsRead`. MQTT: `ThreadHasHandle` and `JoinEnds` (0.25 million states). |
| `ble_data` | pass | Tracker: `NoneLeftDiscovered`, `DeliveredInOrder`, `LostOnlyToNewer`. Formats: `WholeReportsOnly`, `BackendsAgree`, `ForwardedReparses`. Broadcasters: `BthomeDecodes`, `BeaconIsRecognised`, `OnAirIsMarked`. Nodes: `OutputHandleIsCurrent`, `WriteChainGoesOn` (0.4 million states). |
| `adv_service_uuid` | violation | `ServiceKeepsUuid`: see findings. |

**Several components in one run.** `MCServerValues`, `MCHostServices` and `MCBleData` each
put components side by side that share no state. A variable (`half`, `service`, `part`)
is chosen at the start and says which one the behaviour exercises; the others stay in an
initial state. The states are the sum, not the product, of those of the components, and a
property of one of them is checked as it would be alone. Fairness is stated for the
component exercised.

**Bounds.** `Limit` bounds how often the environment of `GattClient` acts; the queues
and the worker's stack follow from it. Each disturbance once, in any order, already
gives late events of an abandoned attempt, a drop in each phase, and a `connect()` over
an established link; two operations are the least that can be answered out of order
or twice. Two slots and two devices are the least for reuse of a slot by another
device, one address in two slots, and a full proxy; a tree of two is the least that is
streamed in parts. The proxy has no other bound: its runs are exhaustive.

`GattServer` bounds pushes, link changes and releases. Three link changes let a central
go, come back and go again across the enumeration, with another one present; three ids
for two devices are the least the assumption allows, and make `nextId` wrap. Two pushes
let one overtake the registration of the other. Refusals are not bounded.

`ServerValues`: two notifications are the least that can be swapped; the payloads are an
empty one and one longer than the descriptor allows. `WebServer`: two connections, so that
one stream is published while the loop collects the other; one entity that changes once.
`GpioAlerts`: two pins and two descriptors, so that a closed number is at once another
pin's; four calls, enough to attach, detach and attach again under one poll. `MqttBackend`:
four calls of `connect()` and `disconnect()`. `BleTracker`: a queue of two and three
advertisements, so that one is dropped; a version counter of 6 values, the least the
assumption allows for two clients and a burst of one, which wraps within a few passes.
`AdvCodec`: UUIDs of 2, 3 and 4 bytes, addresses of 2, a buffer of 9 and a batch of 2; every
AD type the parsers know, at and below its least length and past the proxy's limits, in
pairs, with padding, overruns and cuts; signals with all properties, with none, and with
each of the others once, alone or in twos and threes (`Changes`). `Broadcaster`: lists of up
to two measurements inside, at and outside the range of each width. `ClientNodes`: three
acts (connects, plays, writes, lost links), two handles and none.

**Deadlock** is checked in the runs of the client and the proxy: `loop()` can always run.
It is not checked in the others: a server, a scanner or a pin to which nothing happens any
more rests, and the bounds end what environments do.

**Fairness.** The main loop and the worker run for ever (weak fairness of their
steps); a D-Bus call returns or times out (weak fairness of `CallReturns`); BlueZ
resolves the services of a link that stays up. A client that stays in CONNECTING or
DISCONNECTING exceeds its limit in some pass of `loop()`. As each pass may also find
the limit not reached yet, this is strong fairness of the two time limit actions.
Nothing is assumed of the peer, the application or the advertiser. For the server: both
threads go on, BlueZ answers each call, and the armed timer fires (weak fairness); no
fairness for centrals, pushes or `Release`.

Web server: the threads of connections and the main loop go on (weak fairness); a `send()`
to a client that does not read is taken to return in the end, a client need not send its
request. GPIO: the alert thread and a started call of the main thread go on; edges, calls
and a failing `poll()` are free. MQTT: main thread and callbacks go on (weak fairness); the
library's thread leaves, when told to or cancelled, although messages keep coming (strong
fairness of `Leave` and `Cancelled`). Tracker: `loop()` is called again and again; nothing
is assumed of the scanner. Nodes: the client's loop and the worker go on.

## Findings

* **Teardown undone** (`gatt_teardown`). "disconnect() was requested mid-connect; tear
  down now" (`ble_client_base.cpp:147`), but a SERVICES_DISCOVERED queued behind the
  CONNECTED is applied without a look at the state and makes the client ESTABLISHED.
* **Reused slot, old device** (`proxy_device`). "BlueZ resolves the device by its
  object path, derived from the MAC" (`bluetooth_proxy.cpp:222`), but `host_` is made
  once per slot with the path of its first device.
* **Service data under another UUID** (`adv_service_uuid`). "16-bit service data: <uuid
  LE><payload>" (`bluetooth_proxy.cpp:100`), but UUIDs that came over the D-Bus backend
  have 128 bits, and `get_16bit()` of those is the low end of the Bluetooth base UUID: all
  service data is forwarded under 0x34FB.

Three more statements of the repository are refuted. Their properties are in the modules
and a cfg that names them reproduces the counterexample; they are not kept as runs.

* `DiscoveryReachesClient` (`GattClient`): "Service discovery and ESTABLISHED follow on
  SERVICES_DISCOVERED" (`ble_client_base.cpp:153`), but a `connect()` on a discovered link
  is answered with CONNECTED alone; CONNECTED has no time limit.
* `OneSlotPerDevice` (`BluetoothProxy`): INIT on allocation is meant "to avoid a race where
  multiple connection attempts are made" (`bluetooth_proxy.cpp:169-172`), but the scan
  stops at a free lower slot before it sees the slot that holds the address.
* `NoDuplicatePath` (`GattServer`): "Re-registering requires unregister first; BlueZ rejects
  a duplicate path" (`ble_gatt_server.cpp:692`), but the late error reply or `Release` of
  an earlier registration clears `adv_registered_` while the newer one stands.

Observed while modelling, not stated as properties:

* A client switched off, or disconnected by an action, is connected again by the next
  advertisement: `parse_device()` does not look at `enabled` (`ble_client_base.cpp:45`).
* A failed walk whose `Disconnect` fails too leaves the client at CONNECTED
  (`ble_gatt_host.cpp:1124`). `pending_agent_reply_` and `rssi_cb_` are single slots that
  a second request overwrites (`ble_gatt_host.cpp:837`, `ble_client_base.cpp:375`).
  `run_()` is not restarted after an error (`ble_gatt_host.cpp:71`); a server whose bus
  did not open is not started again (`ble_gatt_server.cpp:157`).
* With the API client away, `disconnect()` re-arms the DISCONNECTING timer of a slot every
  100 ms (`bluetooth_proxy.cpp:152`); a stream cut off by its loss stays at DONE
  (`bluetooth_proxy.cpp:351`); the batch left at an unsubscribe goes to the next client.
* A disconnect action on an idle client never goes on; a refused write, or a play while
  another is running, stalls the chain. A sensor keeps its handle across connections, and a
  failed read publishes NAN.
* `host_gatt_server_event.h:4-8` speaks of a lock around the values and of callbacks on
  the main thread; `value_` has no lock and callbacks run on the worker. A write of a
  descriptor does not look at `max_len_`. A long read evaluates the template anew for each
  offset, so its parts may be of different values.
* "adds and removes never race with a blocking poll()" (`gpio.h:30-32`), but `remove()` does
  not wait for the round under way, which still may call the removed callback, or read a
  descriptor that was reused (`StaleRoundOnly` says exactly when).
* A deferred disconnect and a tree may pass to the next attempt: after a disconnect that was
  deferred in CONNECTING, CONNECTED starts the teardown with `want_disconnect_` still set
  (`ble_client_base.cpp:146-148`), and a `connect()` in DISCONNECTING does not clear it
  (`ble_client_base.cpp:70-78`), so the CONNECTED of the new attempt tears that one down as
  well. A `connect()` on an ESTABLISHED client keeps the service tree while CONNECTING.
* A `PropertiesChanged` without RSSI (`Connected` alone, for instance) is delivered as an
  advertisement of signal strength 0, although the changed properties are called "enough"
  for ble_rssi (`esp32_ble_tracker.cpp:784-785`).
* UUIDs from the D-Bus backend always have 128 bits; the HCI backend gives them as they were
  sent. `operator==` tells the two apart (`ble_uuid.h:164`, `test_ble_uuid.cpp:172-174`), so a
  listener that compares UUIDs may see a device over one backend only.
* The last advertisement of a device that then goes quiet can be dropped for newer ones of
  other devices (`esp32_ble_tracker.cpp:337-338`).
* A `SET_VALUES` that fails is logged and not repeated: the line keeps its old level until it
  is configured again (`gpio.cpp:144-150`).
* `on_connect_` uses an event session that is published already, and that the main loop may
  have deleted (`web_server_host.cpp:536`). The hand-over of a socket leaks its request
  object. A blocking `send()` stalls the main loop.
* A callback that waits for `mu_` while `connect()` or `disconnect()` joins its thread is a
  deadlock: `JoinEnds` excepts exactly this case. So is an `on_disconnect_` that publishes
  when `connect()` calls it under `mu_`.
* A broadcaster does not retry a refused registration, nor register again after `Release`.

## Proofs

The proofs hold for every value of the constants, from the assumptions declared in the
modules only: `ProxyAssumption` (at least one slot, addresses and service counts are
positive), `GattClientAssumption` (types of the constants), `GattServerAssumption`
(finitely many devices, more ids than devices), `TrackerAssumption` (a queue with room, and
a version counter that the changes between two looks do not turn once round),
`GpioAssumption` (a descriptor for each pin), `ValuesAssumption`, `WebAssumption`,
`NodesAssumption`, `BroadcasterAssumption` and `MqttAssumption` (types of the constants), and
`CodecAssumption` (positive lengths, UUID widths that rise as 16, 32 and 128 bits do, the rest
of the base UUID, and reports that are bytes with an address of the right length).
Where a theorem needs more than these, it says so in its own statement; four do, all about
signals dispatched inside blocking calls, the constant `Reentrant` (below).

`BluetoothProxy_proofs` proves `TypeOK`, `SlotAccounting`, `UsedSlotIsLive`,
`StreamInRange`, `NoStaleIntent` and `ToldUpIsHeld` for any number of slots.

* `SlotAccounting` needs an argument by counting. `allocated` is searched by value and
  knows nothing of slots, so there is no matching of entries to slots to be kept; what
  is kept is that every value is held equally often on both sides. Lemma `Overwrite`
  says what overwriting one entry of a table does to those counts; `AccountStep` applies
  it to both tables. It needs that the searched value is present, which is the invariant
  itself.
* `LocalInv` is the inductive strengthening of the per-slot properties: it relates a
  slot's state, address, deferred disconnect, stream position, host and the worker's
  phase. For instance `StreamInRange` rests on the fact that a tree is only
  replaced in phase `up`, in which no stream can be under way.
* `ToldUpIsHeld` adds that nothing is told while no API client is there.

`GattClient_proofs` proves `TypeOK` and `ClientInv` for any bounds, operations and both
readings of `Reentrant`. `ClientInv` says what an idle, armed, CONNECTED and ESTABLISHED
client holds, not that attempts share nothing (see "Observed" above). It is inductive with
one addition, `HostBound`: events are only drained from a host that exists, so an
ESTABLISHED client has one. The worker and BlueZ cannot disturb it, since they touch no
variable of the main thread.

* `DiscoveredTracksLink` and `DropIsReported` share the invariant `NewsInv`. A claim that
  the link is up passes from BlueZ's signal to the worker's walk and its `discovered_`, to
  an event, to the state of the client. `NewsInv` says at each of these stages that, if the
  link is gone, the news of its loss is further back in the same pipeline, so it arrives
  later. Both theorems assume `Reentrant = FALSE`, the reading of libsystemd, whose
  `sd_bus_call()` waits for its own reply and leaves other messages queued; the comment at
  `ble_gatt_host.cpp:1113` allows for the other one.
  With `Reentrant = TRUE`, a loss dispatched inside a walk is processed before the walk
  ends, and the walk then sets `discovered_` over a dead link.
* `OneWalkAtATime` is proved twice. `WalksOneAtATimeUndisturbed` has `Reentrant = FALSE` and
  no other condition. `WalksOneAtATime` allows both readings and is about the behaviours
  without `LossInWalk`, a Connected=false dispatched inside a walk: that handler clears
  `discovering_`, the only thing that keeps a second walk out (`WalkInv`). The condition
  names exactly that interleaving and no other.
* `AnswersInOrder` is the refinement of `OpChannel` without its fairness: initial states map
  to initial states and every step to a step or a stutter. `ChannelInv` says that an
  accepted operation is in exactly one of four places (`commands_`, the batch, the call the
  worker is blocked in, the news), that ids rise inside each and from each to the one behind
  it, and that the ids in flight are precisely those accepted and not answered.

`GattServer_proofs` proves `TypeOK` and `AdvertisedIsCurrent`. The latter speaks of settled
states only. Its inductive strengthening `AdvInd` says of every state in which
`adv_registered_` is set and no failure is in the inbox that there is a registration, and
that if it read an old or torn content then somebody still owes a new one (`Due`): the
main thread inside its push, the flag, or the worker on its way to register. `StartOnce`
adds that nothing of an advertisement exists before the bus is open, which is why
`register_advertisement_()` without a bus drops no registration.

* `ClientsAreCentrals` also speaks of settled states, and needs to know what is true on the
  way there. `PresenceInv` has four parts. `IdInv`: ids are handed out one after the other
  and never to two devices. `Owned`: what the main thread keeps or is told belongs to a
  device. `Watched`: of a device no message in the inbox is about, the server believes
  (its clients with the queued events applied) exactly what is so, unless the enumeration
  has still to find it; and the last message about a device tells the truth. `NotStarted`:
  before `do_start_()` there is nobody to hear of.
* `NotifiedInOrder` (`ServerValues`) is inductive with `ValuesInv`: values swapped out exist
  only while the worker drains them, and before the server is up everything asked for is
  still queued.

`BleTracker_proofs` proves `TrackerTypeOK` with the limit of the queue,
`NoneLeftDiscovered` and `DeliveredInOrder`. `LagInv` counts the changes since `loop()` last
looked at the version: the promotions of the pass itself, the burst, one discovery per
client. The assumption keeps this count below a full turn, so equal versions mean that
nothing changed, and no client was discovered. `OrderInv` says that the numbers in
`drained` and `queue`, in this order, rise and lie between the last one delivered and the
last one heard.

`WebServer_proofs` proves `OneAnswerOneClose` and `HeldIsAlive` for any number of
connections. `ThreadInv` says for each position of a connection's thread who owns the socket
and whether it has been answered; `LoopInv` that the main loop's lists overlap neither each
other nor what was deleted; the link between both is that a session's socket belongs to a
thread about to publish it or to a published session. `WebNobodySleeps` proves the safety
that `StateReachesStream` rests on: while the loop is switched off, or about to be, every
published session has a wake-up pending or a thread that has yet to ask for one.

`HostServices_proofs` is about `GpioAlerts` and `MqttBackend`. It proves `ClaimsMatch`,
`OutputHeld` and `StaleRoundOnly` for any pins and descriptors. `LineInd` is about the main
thread in the middle of its calls: which line is open, in what mode, at which level, for
each position of `call`; the level is known of pins outside `refused` only. `RoundInd` is
about the alert thread: an entry of its snapshot whose descriptor was not closed since still
names the request of its pin (`Fresh`), and such a request does not block (`NoBlock`). It
also proves `MqttTypeOK` and `ThreadHasHandle`: the handle is replaced only at positions of
`caller` at which the thread is gone.

`BleData_proofs` is about `Broadcaster`, `AdvCodec` and `ClientNodes`. Most of it is about
loops over lists of any length. The library's induction theorems take an operator as a
parameter, which the provers cannot instantiate, so the module has its own over sets:
`NaturalSetInduction` (a set that holds 0 and with each number the next holds them all, by
way of its least exception) and `Recursion`, from which follow the lemmas that give each
recursive function of the model as a sequence of passes (`Passes`, `FieldReadingOf`,
`Applying`, `ReportReadingOf`, `Buffers`, `Framing`).

* `OnAirIsMarked` follows from the fact that `RegisterAdvertisement` is called at most once.
* `BeaconIsRecognised` holds for every UUID, major, minor and power. `BeaconBytes` lists the
  bytes of the payload, `SwappedUndoes` and `PowerUndoes` are the arithmetic of the byte order
  and of the sign, and `PayloadInv` says that what is on the air is what the encoder
  built from the configuration.
* `BthomeDecodes` holds for lists of any length. `SortedIsPermutation` is the sort: ranks are
  distinct and fill `1 .. n`. `PushBytes` and `ValueReadsBack` are one object of each width:
  its bytes, and that they are read back as the value nearest to the one configured.
  `InStep` says that after `k` passes of the encoder the decoder has passed exactly the objects
  with known ids among them and stands at the end of what was written; `StaysInStep` keeps it.
* `ForwardedReparses` rests on a round trip, `EncodedReadsBack`: encoded structures followed by
  anything that starts with no whole structure are read back as they were, and no more.
  `Keeps` follows the proxy's buffer: it is the encoding of a subsequence of the fields asked
  for, namely of all of them as long as nothing was left out. `CodecInv` says that delivered
  devices are well typed and each batched entry is what `Serialized` made of its device.
* `WholeReportsOnly`: `ReadsFramed` is a report that is all there, `FramedCutShort` one that is
  not; a cut anywhere leaves the event between two reports (`CutEvent`), and from the first
  that is short on the reader rests. `HandlesWhole` combines them.
* `BackendsAgree`: `Says` describes a device built from the first `k` fields by what it says
  and not in which order, kept by each AD type (`ApplyFieldSays`); `DbusDeviceIs` describes
  what comes out of the dictionaries when the signal carries them all, with the last entry of
  each key. `TextKeepsUuid`, `CompanyBytes` and `ReverseTwice` are the way of a UUID, of a
  company id and of an address over the bus and back. `SignalLimits` says that any other
  signal shows a part of that device, `PartsAlike` that parts of like devices are alike.
* `OutputHandleIsCurrent`: a characteristic that is missing leaves the output's handle alone,
  so a discovery has to find it forgotten already. `Apart` says that between any two discoveries
  (the one the output holds, those queued, the one a link not yet resolved may still post)
  there is a DISCONNECTED in the queue. A time limit, which dispatches one of its own ahead
  of the queue, only forgets earlier.

`BleClientBase_proofs` has what both users of the client record share: the operators keep a
record a `Client` and `ClientConsistent`, and what they do to host and tree.

Only model-checked:

* the liveness properties, which rest on fairness: `ConnectingEnds`, `DisconnectingEnds`,
  `DropIsNoticed`, the fairness half of the refinement of `OpChannel`, `RetriesEnd`,
  `EdgeIsRead`, `JoinEnds`, `LostOnlyToNewer`, `WriteChainGoesOn`, `StateReachesStream`.

Every other property of a passing run is the statement of a theorem, four of them under the
conditions on `Reentrant` given above. Liveness is outside what TLAPS 1.4.5 proves; for
`StateReachesStream`, `WebNobodySleeps` proves the safety half.

## Not modelled

`PROJECT.json` gives the reason for each part. `socketcan` and the I/O wrappers (`linux_i2c`,
`linux_spi`, `linux_w1`, `linux_sysfs_sensor`, `linux_time`, `linux_compat`) make one
synchronous call per operation and keep no state that a later one depends on. The Python
code generation under `components/*/__init__.py`, examples and scripts hold no state
machine. Inside modelled parts, left out are: pairing and the agent, the values and UUID
lookups of the client's service tree, the creation and removal of services before the
server starts, request parsing and authentication of the web server, and the tear-down of
threads at the end of the process.

## Plan

Done: the modules above, their runs and the theorems listed in `PROJECT.json`. Left:

1. Pairing: the agent's single pending reply, and the actions that wait for it. A timed
   variant of the DISCONNECTING limit.
2. The contents of the service tree: handles, lookups, and the values of notifications on
   their way from BlueZ to the nodes.
