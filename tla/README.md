# A TLA+ model of viu

viu creates USB devices in software, or forwards ("proxies") real ones, and
attaches them to the Linux kernel over USBIP. This directory holds TLA+ modules
for its core, the TLC configurations that check them on small instances, and
TLAPS proofs of the properties that matter most. Paths below are relative to
the repository's root; line numbers are in `PROJECT.json` under `map`.

Contents: [inventory](#inventory), [modules](#modules), [runs](#runs),
[fairness](#fairness), [proofs](#proofs), [findings](#findings),
[not modelled](#not-modelled), [plan](#plan).

## Inventory

| Component | State | Operations | Hard behaviour |
|---|---|---|---|
| `device::basic` (`src/usb_basic_impl.cpp`) | `commands_queue_`, `in_commands_`, `in_data_`, `replies_queue_`, `unlinked_seqnums_` | read, execute, unlink a command; pair IN data with IN commands; write replies | 19 threads per device; unlink against reply; pairing by position |
| `device::proxy` (`src/usb_device_proxy_impl.cpp`) | `usb_device_`, device thread, event thread | turn a command into a transfer; completion callbacks; control requests; attach and stop | callbacks on another thread; order of shutdown |
| `transfer::pending_map` (`src/transfer_impl.cpp`) | `pending_transfers_`, `transfers_canceled_` | attach, submit, completion, cancel, wait | calls to libusb outside the lock; ownership of memory |
| isochronous packets (`src/transfer_impl.cpp`, `src/usb_basic_impl.cpp`) | offsets and sizes of two loops | describe, collect, pack | packets that fail one by one |
| `usb::device` (`src/usb_impl.cpp`) | libusb handle, `alt_settings_`, descriptors | open, claim, configure, submit, control requests, close | partial failure of a reconfiguration |
| `vhci::driver` (`src/vhci_impl.cpp`) | `devices_`: port statuses | read statuses, choose a port, attach, close | status stale when used; ports run out |
| `daemon::service` (`src/daemon/daemon_impl.cpp`), `main.cpp`, `viud.service` | `virtual_devices_`, catalogs, `device_id_counter_`, socket file | proxydev, mock, plug, unplug, save, list, ...; start, signal, restart | commands that fail half-way; crash and restart |
| plugin catalogs (`src/plugin/`) | loaded libraries | register, look up, unload | a device's code is in the library |
| client (`src/client/`) | - | connect, send argv, read response | goes away at any time |
| descriptors (`src/descriptors/`), JSON (`src/json/`) | `tree`: a device's descriptors | build from libusb, pack, save, load, parse a document | a stream of unmarked numbers; saves that fail half-way |
| recorder plugin (`examples/playback/recording_proxy.cpp`) | `write_queue_`, two files | record, write, shut down | writer thread; two files written in steps, crashes, repeated sessions |
| playback plugin (`examples/playback/playback_device.cpp`) | `records_`, `current_index_`, `input_` | load, request, play, shut down | files in any state; records meet transfers by chance |
| mouse plugin, format helpers | - | - | - |

How they interact. A client sends one command over a Unix socket to the daemon,
whose single thread executes it. `mock`, `plug` and `proxydev` construct a
`proxy`; its base class `basic` starts the pipeline's threads and opens the vhci
driver; its own device thread attaches to a kernel port and then runs libusb's
events on a further thread. The kernel writes usbip commands into the socket. The
executor answers control requests itself and submits transfers for the rest;
completion callbacks (event thread, or a thread of the plugin of a mock) queue
OUT replies directly and IN data for the transfer thread of the endpoint. `unplug`
destroys the `proxy`: cancel all transfers, join the device thread, release the
`usb::device`; then its base `basic`: close queues and socket, join the pipeline.
`save` writes the descriptors of a real device to a file, which `mock` loads, or a
JSON document in its place. The recording plugin sits on a proxied device and
writes its transfers to files, which the playback plugin plays to a host as a mock.

What makes each correct:

- pipeline: every URB is given back once, never after it was unlinked, with its
  own data, in order, as long as libusb takes the transfers; unlinks never wait for
  the device;
- pending map: a transfer is freed once, never while libusb has it; cancel ends
  and leaves nothing in flight; a completion finds the transfer's entry;
- iso packets: bytes, sizes and descriptors agree and stay in the buffer;
- configuration: host and device agree on it, failures half-way are repaired,
  interfaces go back to the kernel's drivers;
- unplugging: both destructors return, and no thread uses what is gone;
- descriptors: a host reads the same bytes from the device, the proxy and the mock;
  an incomplete file is refused, and what a document does not say is 0;
- recording: playback gives the host the recorded buffers, in order, whatever the
  recorder went through; nothing is lost that did not fail;
- vhci: an attached device owns a port of its hub, or lost it to another; unplugging
  returns it;
- daemon: libraries outlive devices, ids are not reused, every client is served
  or disconnected unless a destructor hangs, the service recovers from a failure.

## Modules

| Module | Models | Size of the instance |
|---|---|---|
| `UrbContract` | abstract: a URB is submitted, then completed or cancelled, once | - |
| `DeviceBasic` | the pipeline of `basic` with the transfer half of `proxy`; refines `UrbContract` | `MCDeviceBasic` |
| `PendingMap` | `pending_map`, `submit_transfer_impl`, the end of the device thread | `MCPendingMap` |
| `Unplug` | extends `PendingMap`: the pipeline around it, `~proxy` and `~basic` | `MCUnplug` |
| `IsoPackets` | `fill_iso`'s packet size, `iso_descriptors`, `iso_data`, packing | `MCIsoPackets` |
| `ControlRequests` | `usb::device`'s configuration: open, SET_CONFIGURATION, SET_INTERFACE, close | `MCControlRequests` |
| `Descriptors` | the descriptor tree: build, pack, save, load (no state) | - |
| `DeviceConfig` | extends `Descriptors`: a device, its saved file or JSON document, a mock, and the answers of `proxy::descriptor` | `MCDeviceConfig` |
| `Recording` | `transfer_recorder` and its files; `load_transfers` | - |
| `Playback` | extends `Recording`: `playback_device` | `MCPlayback` |
| `Vhci` | `vhci::driver`, and when a device is constructed, attached, destroyed | `MCVhci` |
| `Daemon` | `service`, catalogs, clients, `main` and systemd | `MCDaemon` |

| Proofs | About | Extends |
|---|---|---|
| `DeviceBasicProofs` | types, pairing, unlinks, order of answers, refinement of `UrbContract` | `DeviceBasic` |
| `UnplugProofs` | the life of a transfer in `PendingMap` and `Unplug`, and the flow of commands through `Unplug` | `Unplug` |
| `IsoPacketsProofs` | packets, buffer and host | `IsoPackets` |
| `ControlRequestsProofs` | configurations, interfaces, drivers | `ControlRequests` |
| `DeviceConfigProofs` | the tree's answers, saving and loading it, documents | `DeviceConfig` |
| `PlaybackProofs` | the files, what is loaded, what is played | `Playback` |
| `VhciProofs` | ports | `Vhci` |
| `DaemonProofs` | libraries and ids | `Daemon` |

Operators introduced by "Planted bug" are deliberately wrong variants of the
definition that follows. They are used to confirm that a property notices the bug;
no specification uses them.

**DeviceBasic.** A command is its sequence number, an index into `sent`. Each
queue of the code is a sequence with the same name. The executor, the transfer
threads and the reply writer have a program counter wherever they do two things
that another thread can get between: submit an IN transfer / push its command;
mark a victim / queue RET_UNLINK; check the unlink set / write to the socket. The
bytes of IN data are abstracted to the command whose transfer brought them (which
the program does not record) and the transfer's status. libusb may refuse any
transfer: `SubmitTransfer` then only notes it in `refused`, which nothing in the
program reads, and the command goes on as if it were in flight. One step stands for
attach, check and submission; `PendingMap` takes them apart. The device completes the
transfers of one endpoint in the order of their submission, as libusb and the
kernel do on one pipe; TIMED_OUT and CANCELLED transfers never reach a callback
and timeouts are not set on proxied transfers, so they appear in `PendingMap`
only. The host unlinks a URB at most once, and may do so while the answer is under
way.

**PendingMap.** One step per critical section of `mutex_` and per call made with
it released. `handle` is libusb's view of a transfer, `freed` and `called` count,
`asserts` records failed assertions, by the place they are at. `mock` tells a mock (cancel frees; a plugin
thread completes) from a proxied device (libusb cancels and reports); `Mocks` says
which of them a run looks at.

**Unplug.** The whole of a device from the socket to its end. Commands have only a
kind here, and the queues behind the executor only a length: `DeviceBasic` says
which reply carries what, this module whether threads get stuck. The transfers are
those of `PendingMap`, attached and submitted by the executor and completed by the
event thread or the plugin. `CloseOrder` is the body of `~basic` up to the joins, one
step per queue, and `Threads` the order of the joins; the transfer threads are
represented by one endpoint's. A thread that waits for a queue is woken by its
closing, not by a stop request. A read on a socket that was shut down reports the end
of file, which ends the producer at once (`ProducerEnds`), or another error, which
ends it only when it is asked to stop. `UseDestroyed` is a step of the executor on
a device that is gone; nothing is said of what follows.

**Recording and Playback.** A byte of the payload file is named by its record and
place, so that a loaded record shows whose bytes it got. A write appends all, or some
when it fails or the process dies; a line of the index is whole, torn, or whole but
without its end, in which case the next session continues the line. `LoadTransfers`
is what the playback plugin makes of the files as they are. Interval and timestamps
are left out: they only say how long the playback thread waits. `taken` keeps what the
recorder was given: the whole buffer of a transfer, since `size()` is the length asked
for, not the one received, and transfers that failed, were cancelled or came up short
are recorded like others. `sent` says which places of the buffer the device filled;
the other bytes are of kind `"rest"`, and are recorded and played with the rest.

**Descriptors and DeviceConfig.** Structs are functions from field names to
numbers, in the order of `BOOST_DESCRIBE_STRUCT`; a file is the sequence of the
numbers written. Readers return the place they have reached, 0 once a number was
missing, where `lexical_cast` throws; `ReadElements` is the loop over a vector, a
recursive function of the number of elements read. The packing of libusb's own structs is kept
beside that of the tree, as what the device itself sends. `Save` stops anywhere,
`SaveTorn` inside a number, `WriteDocument` at any fault of a document that makes the
parser throw: a list or an object that is needed and not there, a value that is no
number. A key that is not there is no fault: `read_u32` gives 0 for it, and missing
`daExtra`, companions and capability data are no bytes. `Omissions` are the sets of
keys, by object, that documents leave out; a key that is left out of an object is left
out of all objects of its kind. `ShownTree` says what such a document stands for. The
documents of the repository leave out `bRefresh` and `bSynchAddress`. The field lists
of the JSON parser are transcribed separately from those of the structs, because
nothing in the code makes them agree.

**IsoPackets.** A byte is its position in the transfer buffer, so a payload shows
which byte landed where. The host unpacks by the actual lengths of the
descriptors, as `vhci_hcd` does.

**ControlRequests.** A step is one call to libusb, the ones that switch auto-detach
included, and `failures` counts those that are made to fail. `claimed` and `driven` are the owners of the interfaces as usbfs
sees them: it refuses to set a configuration while an interface has an owner, a
released interface goes back to its driver only if auto-detach is on, and a claim
takes it off the driver likewise. A host may ask for any configuration value; the
descriptors it is shown name only the one the device was opened in
(`pack_config_descriptor` ignores its index). `hostConfig` and `hostAlt` are what
the host has been told. Proxied devices only: for a mock these requests are calls of
the plugin.

**Vhci.** `known` is what a driver read into `devices_`, controller by controller,
when it was constructed; `owner` is the kernel's truth. A controller whose status does
not parse is passed over (`StatusUnparsed`): its ports keep a status that is not free.
Devices are plugged and unplugged in any order. `rivals` is history: who took a port
since the daemon began to read the statuses for a device.

**Daemon.** One action per outcome of a subcommand; those that only read
(`list`, `version`, ...) are `Query`, and a rejected command line is `Usage`. A step that leads to undefined
behaviour or an uncaught exception is `Fail`: the process ends, its connections are
closed, the socket file stays. `sound` says whether a device's thread will be able
to attach. Destructors of devices run on the daemon's thread, in `unplug`, at the end
of `save` and at shutdown. They may throw (`DestructorFails`), or never return
(`DestructorHangs`): `hung` stands for the cases that `UnplugEnds` exempts, after which
the process accepts and answers nobody. `issued` is history, the ids that were given
out. Arguments, names and messages are abstracted; so is what a plugged device does.

Throughout, assertions only log, as `viu::_assert` does unless the build defines
`VIU_ASSERT_ABORT`.

## Runs

All passing runs are exhaustive for their bounds. States are distinct states. Every
module states its type invariant; the runs `pipeline` and `recording` check theirs,
the others leave it to the properties about behaviour.

| Run | Checks | Bounds | States |
|---|---|---|---|
| `pipeline` | no reply after RET_UNLINK, one reply, own data until a refusal, order; the inductive invariant of unlinking; unlinks are answered though the device is silent; refinement of `UrbContract` | 3 commands; control, two IN endpoints, one OUT; transfers may fail or be refused | 113,004 |
| `unplug` | memory safety of an unplug, nothing leaked; completions find their entry; unplug ends; every command is answered while the device answers | 2 commands of any kind, 2 transfers, proxied or mock; submits may fail | 198,026 |
| `unplug_terminates` | *violation*, see findings | 1 command | |
| `plugin_completes_late` | *violation* | 2 transfers | |
| `iso_packets` | bounds, sizes, intact data | up to 3 packets, 4 buffer sizes, all fill levels and statuses | 5,300 |
| `configuration` | host and device agree, a repeated SET_CONFIGURATION repairs a failed one, drivers get interfaces back, a missing descriptor is read only after deconfiguration or a failure | 2 configurations with 2 and 1 interfaces, 3 altsettings, 2 failing calls | 360,190 |
| `descriptors` | answers are the device's bytes; a mock is its device, but for what a document leaves out; incomplete files are refused | 63 devices: every shape of configuration, every choice of strings and capabilities; 3 lengths; 7 sets of keys left out; files cut at every number | 144,564 |
| `recording` | playback is faithful to the recorded buffers and in order, nothing forgotten, loops back, answers, shuts down | 2 records of 2 shapes, 2 sessions, 1 request; writes fail, crashes | 318,895 |
| `vhci_ports` | an attached device owns a port of its hub or lost it to a rival; an unplug ends and returns it | 3 devices of 2 speeds, 4 ports on 2 controllers and 2 hubs; status files may be missing or not parse | 191,668 |
| `vhci_lost_attach` | *violation* | 2 devices, plugged in any order | |
| `daemon` | libraries outlive devices, ids are never given out again, clients end unless a destructor hangs | 3 clients, 2 catalogs, restarts | 284,014 |
| `daemon_restart` | *violation* | 2 clients | |

`KeepsContract`, the refinement, is `Contract!Safety` and, under `DeviceFairness`,
`Contract!Finishes(s) \/ <>Starved(s)` for every URB: it is given back once whatever the
device does, and is given back at all if the device completes what it is given, unless
libusb refused its transfer or an earlier one of its IN endpoint. `OwnData` says what
such a refusal does to the data: the refused command and those behind it on the
endpoint are answered with the data of a later transfer, never an earlier one.
`HostAgrees` exempts altsettings that a skipped SET_CONFIGURATION left alone
(`keptAlts`), `CommandsEnd` the clients of a daemon that hangs. `UnplugEnds` exempts a
transfer that slipped past `cancel()`, one that libusb refused to take, and what
follows the use of a destroyed device (see findings). `PlaybackFaithful` exempts
records of which a write failed, `MockIsDevice` and `WholeOrRefused` files that end
inside a number and documents whose strings have another length than their `bLength`
(`Aligned`): the code notices none of them.

Why the bounds are enough. Three commands let one IN command be unlinked while
another on the same endpoint is queued behind it, and an unlink name a reply in
each of its places; OUT and IN with the same endpoint number, and two IN
endpoints, exercise the indexing. Two transfers put one in the executor's hands
while the other is in flight or with the completing thread, and two commands let one
wait in a queue that is closed while the other is executed. Two records let one be
torn, dropped or unterminated and the other follow it, in the same or the next
session; the record of the endpoint that is played has two bytes and a packet
descriptor, so that a write can be cut inside it, and the host asks for one byte.
The sample devices have extra bytes at every level, endpoints of either length, one
and two altsettings and interfaces, and none, one or two of most that is counted;
their fields have values that tell them apart. Buffers of 1, 2, 5 and 6 bytes give packets of length 0, packets that divide
evenly, and a rest. Two controllers let a port change between two status files; two devices of one hub and one of
the other let an attach be lost to a device of the same hub and not of the other. A
device of a speed that viu does not support ends as one without a free port does, in
`AttachThrows`, and is left to the proofs. Three
clients let one be killed, one be served and one wait. Two interfaces let a loop
fail at its first or its second call, and two failures let a request fail twice.

Runs say `CHECK_DEADLOCK FALSE` where the modelled system comes to rest: the host
has sent its bounded number of commands, the device object is destroyed, the reply
is delivered, all devices were unplugged, the daemon's thread hangs in a destructor.

## Fairness

- `DeviceBasic!FairSpec`: weak fairness of each thread. The threads are plain
  loops over blocking queues. Nothing is assumed of the host, and nothing of the
  device's endpoint transfers; a control request is a synchronous call.
  `DeviceFairness`, that the device completes what it was given, is not part of it
  but the hypothesis of the liveness in `KeepsContract`: an idle device does not
  complete its IN transfers, and unlinks must be answered all the same.
- `Unplug!FairUnplugSpec`: the threads run, and libusb reports a transfer it was
  asked to cancel, as its documentation promises. Nobody has to unplug the device,
  and it need not answer: `UnplugEnds` must hold for a silent one. `AllAnswered` has
  `DeviceAnswers`, that it completes what it was given, as its hypothesis.
- `Playback!Spec`: both plugins' threads run and a destructor that was entered goes
  on; nobody has to plug, unplug or request anything. Spurious wake-ups may happen
  but are not relied upon.
- `Vhci!FairSpec`: threads run; the kernel frees the port of a closed socket.
- `Daemon!FairSpec`: systemd restarts what failed (`Restart=on-failure`), the
  daemon's thread runs, a connected client sends its command or goes away.

## Proofs

Every invariant and the safety half of every refinement that the runs check is
proved for all values of the constants, from the assumptions the modules state
about them. `PROJECT.json` lists the theorems. Each module has one inductive invariant, a conjunction of named parts, one
lemma per part or per action that says the action preserves it, and short theorems
that read the checked properties off it. The inductive invariants were checked with
TLC on the instances of the runs before they were proved.

**Pairing** (`DeviceBasicProofs`). `OwnData` looks only at the socket and is not
inductive. The inductive invariant is
`TypeOK /\ CommandOrder /\ Sorted /\ Paired /\ AnswersMatch`:

- `CommandOrder`: commands are pulled in the order sent (socket and
  `commands_queue_` are FIFO), so the command in the executor's hands is the
  number of commands pulled;
- `Sorted`: what a queue holds was pulled, and is of the kind and the endpoint of
  that queue;
- `Paired`, the heart: for each IN endpoint, the commands waiting for data (in the
  transfer thread's hands, then queued, then about to be pushed by the executor) and
  the data and in-flight transfers are the same commands in the same order, up to the
  first command whose transfer was refused. From there on the transfer at each place
  is of a later command than the waiter at that place, and waiters are left over at
  the end, all behind a refusal. That the executor's hands count matters: without them a
  completion between submit and push breaks the invariant;
- `AnswersMatch`: `OwnData` for replies still on their way.

**Unlinking** (`DeviceBasicProofs`). `UnlinkInv` is `UnlinksSubmits /\ CommandOrder /\
Sorted /\ InTurn /\ AnsweredInTurn /\ MarksHold`. A command is in one place at a
time and its place moves forward: `InTurn` orders everything still in progress by
pipe, `AnsweredInTurn` puts what is answered before it, and `MarksHold` says that the
entry of a victim in the unlink set outlasts every place the victim's reply can
still come from. `AtMostOneReply` and `AnsweredInOrder` are `AnsweredInTurn` at the
socket, `NoReplyAfterUnlink` is part of `MarksHold`. `ContractTheorem` shows step by
step that the pipeline implements `UrbContract!Safety`: `CommandOrder` and `MarksHold`
are what makes a written reply a legal step of the contract.

**Transfers** (`UnplugProofs`). `Life` is inductive for `PendingMap` alone:

- `Modes`: libusb has no transfer of a mock, a proxied device's plugin has none;
- `Hands`: what the executor, the plugin and the completing thread may hold;
- `Owned`: what is in the map was not freed, what is being called back is neither in
  the map nor freed;
- `Proxied`: a proxied transfer is in the map until it is done, and once done it is
  freed or in the completing thread's hands;
- `Late`: when `cancel()` has seen the map empty, only what the executor attached
  since is left, which submit will refuse. This is the window between submit's check
  and submission: `CancelQuiesces` needs that nobody is inside it then.

`UnplugImplementsPendingMap` carries the results over to the whole device with both
destructors. `ProxiedFindsEntryTheorem` is the positive side of the run
`plugin_completes_late`: the assertion that fails for a mock never fails for a
proxied device, nor does the one for cancelled transfers.

`Flow`, proved in `FlowTheorem`, is a conservation law for the whole device. `Under` is the set of transfers
that were attached and whose callback has not run; `Attach` adds one to it, `Callback`
removes one, and no other step changes it, so its IN and OUT parts are counted with
the theorems on finite sets. The commands queued or in hand, the transfers under way,
the data and the replies are together at most the commands sent, and the IN commands
in the pipeline are at most the IN transfers still due. The proof needs `Life`: a
transfer is called back at most once because it is freed right after.
`UnplugTypeTheorem`, which bounds every queue by the number of commands, follows.

**Isochronous packets** (`IsoPacketsProofs`). The invariant asserts a function `S` of
partial sums with `data_size` as its last value. It takes the place of a recursive
sum, so that no induction over the packets is needed: each iteration extends `S`
by one. `Fetched` and `Handed` say where the collected bytes stand in terms of `S`.

**Configuration** (`ControlRequestsProofs`). `Always` holds whatever failed;
`Ownership` and `HostView` hold under a history without failing calls, or for two
reconfigurations in a row without one, which is what `RetryTakesEffect` needs.
`TypeCorrect` bounds the loops and settings by the greatest number of interfaces of a
configuration, whose existence is proved from the finite number of configurations.

**Descriptors** (`DeviceConfigProofs`). The invariant `Kept` says that the tree is
`Build(device)`, that the file is a beginning of what `save` writes for it or for
what a document shows of it, all of it if it is whole, and that the mock is what `load` makes of the file. All the work is in
what these operators compute, for trees of any shape and size:

- `SavedTreeLoads`: of the numbers that `save` writes, `load` gives the tree back if
  it has them all and throws if one is missing. `Reads` says of a reader and a part of
  the tree that it takes exactly the part's numbers, wherever they stand, and fails
  on anything shorter. `Then` composes two such readers, one lemma turns the reader
  of an element into that of a vector, and from these there is one lemma per
  descriptor, from bytes and endpoints up to the tree. They need that a struct's
  members fit the widths they are read with, and that languages are written in
  ascending order, each once (`Ascending`), so that the map they are read into is
  the map that was saved;
- `DocumentIsSave`: the numbers the JSON parser makes of a document about a device
  without some keys are those `save` writes for what the document stands for
  (`ShownTree`), which is the device's tree if no key is left out. The set of keys is
  any set. This is where the two transcriptions of the field
  lists, the companion descriptors and capabilities that are spelled out, and the
  strings given as texts are shown to agree, and that a number or object that is left
  out moves nothing behind it. A string's `bLength` has to be its length
  (`Describable`): the parser writes the one and `load` counts with it;
- `AnswersHold`: the bytes that the tree's packing makes are those of libusb's structs,
  level by level.

Vectors and the recursive function of `ReadElements` call for induction over data. The
library's theorems on induction take an operator, which the provers cannot
instantiate. The lemma `Induction` takes the set of the numbers for which a claim holds
instead, and shows that its complement has no least element; each use states its claim
as such a set. `TypeCorrect` exempts the mock of a file torn inside a number or of a
document whose strings are not as long as they say.

**Recording and playback** (`PlaybackProofs`). `Placed` says where in the payload
file the bytes of a record stand, from the writer's hands on; appending keeps them
there, also a cut or failed append. `Ordered` says that the index, the writer's hands
and the queue hold increasing records, in this order; `Kept` that every record not
lost is in one of them. `Playing` says the same of the records the playback device
has loaded, whatever the recorder has done to the files since. `LoadTransfers` picks
the k-th line that loads by counting; that the lines can be counted off (`Counting`)
is proved with the least number that would be skipped instead of an induction.

**Ports** (`VhciProofs`). `PortFits` needs no assumption on the user, only that a
device that owns a port is through with attach (`OwnersAttached`).
`LostOnlyToRival` assumes nothing of the order of plugging either. `FreeOrRival` says
that a port a device takes to be free is free still, or was taken by one of its
`rivals`; the run `vhci_lost_attach` shows that devices do lose ports so.

**Daemon** (`DaemonProofs`). `Inv` is the type invariant, `PluginOutlivesDevice`, and
that all ids of devices were issued and all issued ids are below `device_id_counter`;
`IdsAreFresh`, which is about steps, follows from it.

Only model-checked is liveness under fairness, which is out of the prover's reach:
`UnlinkAnswered`, `UnplugEnds`, `AllAnswered`, `LoopsBack`, `RequestsAnswered`,
`DestructorsReturn`, `PortsReturn`, `CommandsEnd`, and the liveness of `UrbContract` in
`KeepsContract`.

## Findings

Each is a run whose counterexample is a behaviour of the code that contradicts an
assertion, message or unit file of the repository; `PROJECT.json` quotes the lines.

1. `plugin_completes_late`: a mock's plugin completes a transfer that cancel freed.
2. `unplug_terminates`: the executor runs a queued command on a device that
   `~proxy` has released.
3. `vhci_lost_attach`: EBUSY is never seen, and the device has no port.
4. `daemon_restart`: a stale socket file keeps the daemon from restarting.

Also noticed, with no run of their own:

- IN transfers that failed reach the host with status 0, against the assertion at
  `src/usb_device_proxy_impl.cpp:209`;
- a transfer that passed submit's check before `cancel()` set its flag is given to
  libusb after the sweep (`src/transfer_impl.cpp:164`): nothing cancels it, and
  unplugging waits for it as long as the device is silent, with the daemon's only
  thread inside (`Slipped`, which `UnplugEnds` exempts);
- sizes disagree, against the assertion at `src/usb_basic_impl.cpp:345`, when an
  isochronous packet fails after it has brought some bytes: `iso_descriptors` counts
  them, `iso_data` skips them and does not advance `offset`, so that later packets
  are read from the wrong place; `IntactUpToFailure` is as strong as the code allows;
- an entry attached between the end of `wait_for_canceled_transfers` and the
  `clear()` after it is gone when submit looks for it, against the assertion at
  `src/transfer_impl.cpp:156`; the transfer is still freed once (`FreedOnce`);
- when `libusb_submit_transfer` itself fails (line 165 only asserts), the entry stays
  in the map and nothing ever completes it: a later unplug waits for ever, with the
  daemon's only thread in it, so that all clients wait too (`hung`). An OUT command is
  answered by an unlink at most. An IN command is queued for data all the same
  (`src/usb_basic_impl.cpp:231`) and is answered with the data of the endpoint's next
  transfer, the next command with that of the one after it, and so on, with one
  command short of data for good (`OwnData`, `Starved`);
- SET_CONFIGURATION(0), which Linux sends when a device is unconfigured by hand, is
  carried out and followed by `claim_interfaces`, which reads through the null
  descriptor that `src/usb_impl.cpp:243` asserts is not there
  (`CountInterfacesCrashes`); the same when the device refuses a configuration and
  the kernel is left with none;
- after a failed claim the next SET_CONFIGURATION may be lost too, to the kernel's
  driver, and the host is told of success both times (`RetryTakesEffect` says that
  it is at most one);
- a SET_CONFIGURATION for the configuration in use does not reset altsettings
  (`keptAlts`);
- when no port is free, `usbip_port.value()` after the assertion at
  `src/vhci_impl.cpp:499` throws, and the exception leaves the device
  thread, which is `std::terminate` for the daemon;
- `save_config` reports success without a look at the stream
  (`src/usb_impl.cpp:542`), and a file that ends inside its last number is loaded
  with the digits that are there;
- a device's strings behind one that is missing or empty are not offered to the
  host; a device without a BOS descriptor is answered for with zero bytes where it
  would stall; a host that asks for more than a device descriptor gets the
  configuration after it (`src/usb_impl.cpp:291`); every configuration index is
  answered with the same configuration, every interface with the report descriptor
  of interface 0;
- a key that a JSON document lacks, or spells in another way, is read as 0 without a
  word (`src/json/json_impl.cpp:273`), a string with a wrong or missing `bLength` shifts
  all that follows it, and some such documents load with a wrong tree;
- a JSON document may list several configurations, all of which are written while
  `load` reads one;
- when a write to the payload file fails, the line of the record is written all the
  same, and a later session may fill the gap that its offset points at;
- the recorder keeps the whole buffer of a transfer, whatever its status and
  `actual_length`, and playback gives the host bytes the device never sent;
- playback completes a transfer of endpoint 0x81 without data when the record at
  hand is of another endpoint, against the assertion at
  `src/usb_device_proxy_impl.cpp:210`, and never completes transfers of other
  endpoints (a TODO of the source);
- a recorder whose files cannot be opened goes on queueing records nobody takes.

## Not modelled

- Argument parsing, formatting, logging, and the function tables and macros of the
  plugin ABI: transformations without state. The byte layout of usbip headers.
- The control requests that are only forwarded, or answered by `GET_STATUS` and its
  like: `DeviceBasic` says that each gets one reply, not what is in it.
- Endpoint types by altsetting (`ep_transfer_type`).
- The wrap-around of sequence numbers: it takes 2^32 commands.
- `control_setup_recorder` and `control_setup_playback_engine`: the same writer loop
  and loader as those of `Recording`, with files of their own. Two recorders on the
  same files at the same time.
- JSON documents that contradict themselves in other ways than by what they leave out
  (several configurations, a language that is a list, numbers that do not fit their
  field), documents that leave a key out of one object and not of others of its kind,
  and the schema, which the program does not read. The tree of a mock that was loaded
  from a document with strings of another length than they say.
- The mouse plugin, which makes up its movements; how a plugin's thread holds and
  completes transfers is in `PendingMap` and `Unplug`.

## Plan

Done: the pipeline with its contract; the pending map, composed with the pipeline and
both destructors; iso packets; the device's configuration; descriptors from the
device to the mock; recorder and playback; ports; the daemon. All invariants
are proved.

Next, in this order:

1. Endpoint types in `ControlRequests`: `ep_transfer_type` by the configuration
   descriptor of the time the device was opened.
2. Two recorders on one pair of files, and the control requests of both plugins.
