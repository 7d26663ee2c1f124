# Verification of ngfw_pkgs

TLA+ models, TLC runs and TLAPS proofs for the programs of this repository that
have state and concurrency of their own. The repository is mostly Debian
packaging: configuration files, maintainer scripts, metapackages. Its programs
are a logging daemon in C++ (`untangle-nflogd`), a web user interface in Vue
(`untangle-vue-ui`, with the setup wizard of the appliance) and the JSON-RPC
client below it, a GPIO driver in C for the boards of some appliances, a daemon
in Python that uses it for a button and an LED, and the scripts and factory
settings with which an appliance comes up the first time.

Run everything from this directory:

    tlc -workers 2 -config NetworkServerList.cfg MCNetworkServer.tla
    tlapm NetworkServerProofs.tla

`PROJECT.json` lists the components, the runs, the lines of source each
definition models ("map"), a bug each property detects ("mutants"), the
findings, the hazards and the theorems.

## 1. Inventory

| Part | State | Operations | Interacts with |
|---|---|---|---|
| nflogd, network server (`netserver.cpp`, `netclient.cpp`) | singly linked list of `NetworkClient` objects, a descriptor in each | accept and insert; recv, unlink and delete at end of file; walk and send a message to each | network thread and capture thread share the list without a lock |
| nflogd, process (`nflogd.cpp`, `capture.cpp`) | `g_shutdown`, `g_logrecycle`, two semaphores, netfilter handles | start threads, one second loop, signals, capture and restart, join and delete | kernel (netfilter log), signals, the network server |
| Wizard, "Identify Network Cards" (`Network.vue`) | grid of interfaces, devices not available, refresh flag | load, retry, remap, refresh every 3 s, check and save | server over JSON-RPC callbacks |
| Wizard, steps and progress (`Wizard.vue`, `SetupSelect.vue`, the step components, `store/setup.js`, `setupUtil.js`) | shown step, list of steps, overlay (browser); completed step, completion, list (server); session | load and sync, run, resume, next and back of each step, complete | browser store, server over JSON-RPC, authentication over HTTP |
| Web UI pages and `store/settings.js` | cached settings objects | fetch, edit, save | server over JSON-RPC, the vuntangle library (not here) |
| JSON-RPC client (`jsonrpc.js`, two copies) | queues of requests and answers, requests in flight, pool, count of active requests | call, callback, cancel; toJSON with fixups and back | every page of the web UI, `XMLHttpRequest`, the server's bridge |
| GPIO driver (`gpio-nuvoton`) | registers, mode and selected device of the chip, the reserved port | store and show of sysfs attributes, exported functions | processes (through sysfs), kernel modules |
| Button and LED monitor | LED as noted, registered devices and their links, time of a press, pid file | load, check file, message and button, set LED, start, stop | GPIO driver (files in sysfs), network.js, kernel messages, service manager |
| First boot and factory settings (`firmware.d`, `appliance-network-config.js`, `postinst`) | flash partitions, flags, network.js | flash, resize, set NVRAM, copy, reboot | power, packages, the wizard's network pages |
| pyconnector | connection to the cloud | connect, forward, reconnect | cloud, local server |
| Hook and maintenance scripts, drivers, packages | files | one-shot | operating system |

What is hard in each, and what makes it correct:

* *Network server.* Two threads interleave on pointers, descriptors are closed
  and reused, sends are partial, peers come, go or stop reading. Correct: the
  list stays well formed, a descriptor belongs to one client, no thread blocks
  where it must not, each peer gets whole messages, shutdown ends both threads.
* *Process.* Start and end of three threads, each call may fail, signals arrive
  anywhere. Correct: threads do not outlive what they use, handles do not leak,
  a hangup is honoured, a shutdown ends the process.
* *Network cards.* Timers and answers interleave with edits; the device status
  is always older than the device. Correct: a save sends a permutation of
  devices that were there; one refresh chain; status goes with the device.
* *Wizard.* Answers outlive the step that asked; reloads keep half of the state;
  the session expires; progress lives on the server. Correct: no step is
  skipped, none is remembered that was not done, the wizard can be finished.

* *JSON-RPC client.* Answers come in any order, callbacks call and cancel, a
  send may throw in the middle of the timer handler. Correct: one callback at
  most per call, none after a cancel, nothing leaks, nothing is forgotten; a
  value arrives in the shape in which it was sent.
* *GPIO driver.* A read-modify-write goes through a mode and a selection that
  the whole machine shares, and only the users of sysfs exclude each other;
  seven chips have fourteen tables. Correct: what is shown is what was written,
  the chip is left as it was found.
* *Button and LED monitor.* Signals interrupt any line, messages are lost, files
  fail, a look comes once per second. Correct: the LED tells the truth, a press
  is judged by its length, the daemon comes back.
* *First boot.* The power fails between any two lines of a script; two browsers
  save whole copies of the settings. Correct: what is cut short is done again,
  reboots end, no upgrade or boot resets saved settings, addresses and
  bridges stay consistent, and the user who moves an address still finds it.

The other parts are listed under "components" in `PROJECT.json` with the reason
they are not modelled.

## 2. Modules

| Module | Models | State and actions |
|---|---|---|
| `NetworkServer` | `netserver.cpp`, `netclient.cpp`, `nflogd.h` | `heap`/`alive`/`ClientList` are the objects and the list, `fds` the descriptor table, `srv`, `curr`, `nxt`, `ready` the network thread, `cap`, `work`, `off` the capture thread. One action per pointer write, system call and delete |
| `MCNetworkServer` | instances | peers, heap blocks, symmetry |
| `NetworkServerProofs` | theorems | |
| `Nflogd` | `nflogd.cpp`, `capture.cpp`, start and end of the network thread | `main`, `server`, `capture` are program counters; semaphores, flags, handles numbered by the `nflog_open()` that made them. One action per call that blocks or fails |
| `NflogdProofs` | theorems | |
| `SetupNetwork` | `Network.vue` | `gridData`, `unavailable`, `enableAutoRefresh` as in the component; `polls` counts refreshes by what they wait for; one action per stretch between two awaits |
| `MCSetupNetwork`, `SetupNetworkProofs` | instances, theorems | |
| `SetupWizard` | `Wizard.vue`, `SetupSelect.vue`, the steps, `store/setup.js`, `setupUtil.js` | the server's `wizardSettings`, the browser's store, the calls under way per step; one action per handler or answer |
| `SetupWizardProofs` | theorems | |
| `RpcCalls` | abstract: what a caller relies on | per call one of new, waiting, called, canceled, lost |
| `JsonRpc` | `jsonrpc.js`, asynchronous calls | the queues and counters under their names; `handler` is where `_async_handler()` is, so a callback interleaves with calls and cancels. One action per turn of its loops, answer, call |
| `RpcMarshal` | `toJSON()` and `applyFixups()` | `stack` is the recursion, `marker` what is attached to objects; one action per item visited, marker removed, fixup applied |
| `JsonRpcProofs` | theorems about both | |
| `NuvotonGpio` | `nuvoton_main.c`, the seven `nct*.c` | `regs`, `ext`, `dev` are the chip; one action per access of it. The tables of each chip are functions from ports to registers |
| `MCNuvotonGpio`, `NuvotonGpioProofs` | symmetry; theorems | |
| `ButtonMonitor` | `ut-button-led-monitor.py`, its watchers, `nuvoton_*.py` | `pc` is where the loop is; one action per check, one for what a signal does in between |
| `ButtonMonitorProofs` | theorems | |
| `ApplianceNetwork` | the eleven `appliance-network-config.js` | five tables of rules and interfaces (files that are alike share one) |
| `Appliance` | `firmware.d`, `postinst`, the network pages of the wizard | `at` and `done` are the script and the line; one action per line that changes something, one per save |
| `ApplianceProofs` | theorems | |

`ButtonMonitor` uses the driver through files whose reads and writes may fail;
`NuvotonGpio` is what is behind them (select, direction and output of two pins).
`Appliance` extends `ApplianceNetwork`: the tables are what the scripts copy and
the pages change. `SetupWizard` says when those pages are shown, `SetupNetwork`
how the first of them comes to what it saves, `Appliance` what the saves do to
the settings.

`JsonRpc` implements `RpcCalls`: `Promise` instantiates it `WITH status <- Status`,
the refinement mapping that derives the status of a call from how often its
callback ran and from the history of cancels and failed sends, and `Promised`,
the abstract specification, is a property of the run.

`Nflogd` and `NetworkServer` share a boundary, not state: `Nflogd` brings the
network thread to its loop and joins it, `NetworkServer` begins with the thread
in its loop and the semaphore given. `Nflogd`'s `CaptureBroadcast` may hang
(`CanStick`), since a broadcast to a descriptor closed meanwhile spins until
shutdown, and `ShutdownEnds` is checked with it. `SetupWizard` treats the save of
`SetupNetwork` as one call of the step Interfaces that is answered or fails. The
overlay may stay behind when a call fails: `SetupNetwork` says when it does, in
`SetupWizard` every step has the choice, for what throws past the handlers.

What the models abstract: the bytes of a log message are units (message, part);
an exception or an error code is one failure branch; form
contents other than those of the network pages and MAC addresses are absent; the
dialogs an error raises are absent. All addresses of the factory files are in one
/16, so an address is its last sixteen bits. The text of sysfs, of JSON and of
kernel messages is what it stands for.

Undefined behaviour: reading a deleted `NetworkClient` either finds the members
as they were (the block may have been reused since, which the heap shows) or ends
the process (`WildAccess`). Freed netfilter handles are recorded in `misused`.

## 3. Runs

| Run | Checks | Size |
|---|---|---|
| `list` | list, descriptors, blocking reads, walk, with 3 peers, 3 blocks, 3 descriptors, 1 message | 0.97 M states |
| `streams` | types, streams, stop of the threads, with 2 peers, 2 messages of 2 units | 0.93 M states |
| `use_after_delete` | finding: a client is deleted in use | violation |
| `process` | startup, handles, hangup, shutdown, with 3 opens, 2 hangups | seconds |
| `network_cards` | all of `SetupNetwork`, 3 interfaces and devices | 25 s |
| `wizard` | steps, progress, completion, end of the wizard, with a WAN and a wireless interface | 0.15 M states |
| `gpio` | every chip, 2 users, 1 module, 2 calls, 5 pins | 52 s |
| `jsonrpc` | queues, refinement of `RpcCalls`, every call settled, 4 calls | 29 k states |
| `marshal` | every graph of 3 objects with 2 references, 4 settings | 40 s |
| `button` | LED, judged presses, return of the daemon, 2 devices, 3 events | 0.62 M states |
| `button_factory` | finding: a short press resets to factory defaults | violation |
| `appliance` | first boot and settings, 5 boxes, 2 browsers, 2 incidents | 0.39 M states |

Properties that say one thing together are one conjunction with named parts:
`StreamsOK` is `StreamsWhole` (no unit lost, doubled or out of order) and
`Delivered`; `ThreadOrder` is `WorkerHasSocket`, `LoopAfterStartup` and
`ServerOutlivesThreads`; `RemapOK` is `SaveRearranges` and `MissingFollowsDevice`;
`LetGo` is the end of polling and of the overlay; `Accounted` is types, pool
and nothing forgotten; `Faithful` is no endless walk, verdict, and the shape, of which
each setting promises its own part (see below); `LedTrue`
is the LED of a running and of an ended daemon; `Serves` is all liveness of it.

Why the bounds are enough:

* Three peers and three blocks let a client be removed from the head, the middle
  and the end of the list while another is inserted; a peer connects once, so a
  new connection on an old block or descriptor comes from another peer. Three
  descriptors are fewer than needed once one has leaked, so "no descriptor left"
  happens. One message suffices for the walk: the list properties do not
  depend on what was sent before.
* Two messages of two units have a partial write, the boundary of two messages
  and a client that joins between them. Two messages with three peers do not
  fit the time; the theorems cover every size for the list and the walk.
* Three calls of `nflog_open()` are the start, a restart and a restart after
  which the pointers are old; two hangups make one arrive during the
  handling of another.
* Three interfaces are the fewest where a remap of two leaves a third that
  must not change, and where two remaps do not commute.
* `MaxDetours = 3`: three things may go wrong (or three reloads, steps back,
  impatient clicks), e.g. an expired session, a reload and a refused password in
  one behaviour. `MaxDetours = 4` was checked once as well. `MaxCalls = 2` is a
  double click. `Nets = {5, 7}` (Internet and Wireless, no internal network) is
  where the default list and the synced list differ.

* Four calls with two active at a time let two wait while two are in flight, and
  a spare pool of one makes the pool both empty and full.
* Three objects with two references hold every sharing pattern the marker walk
  distinguishes: itself, its parent, its grandparent, a sibling, a cousin.
* Five pins, one per special case: a plain one of port 0, one of the NCT6796D's
  renamed ports, a bit beyond the eighth, port 8 of the chips whose getter
  differs, and a port that wraps at 256. Two calls are a store and the show of
  it, or any two at once. Each board of the table, and one that is not in it.
* `Interval = 2` seconds stands for six: shorter, equal and longer presses
  exist. Three events are a press, a fault and a signal, or an order to stop that is
  swallowed, an order to start and a change of the settings. Four events, with one
  device and one message, were checked once as well. In `ButtonMonitorFactory.cfg` two
  presses suffice.
* Two incidents on an appliance (power failures, upgrades, saves): two cuts in one
  boot sequence, a save and an upgrade, two saves over the same copy. `Typed` is an
  address that another interface of one box has, and lies in its subnet; the pages
  type it for the inside and for the WAN. `Masks` is a netmask wider than the
  factory's, so that subnets could come to overlap; /24 is the page's own.

`CHECK_DEADLOCK FALSE` is given where the program stops: a daemon that has
shut down, a component that was destroyed, a completed wizard, and where a bound
of the calls, events or incidents is used up.

### Fairness

* `NetworkServer!FairSpec`: the network thread runs, and the capture thread runs
  where it does not wait for a peer. A `send()` on a socket that `select()`
  found writable returns: it takes what fits. Nothing is assumed of
  `TransmitReady`: a peer may never read again, and `ThreadsStop` holds all the
  same.
* `Nflogd!FairSpec`: `main()`, the network thread and the capture thread run; the
  alarm, once set, fires. Nothing is assumed of a write that hangs or of signals.
* `SetupNetwork!FairSpec`: timers fire and every call is answered, if only by an
  error; the user need not do anything.
* `SetupWizard!FairSpec`: the user keeps going (Next, Run, Resume, a reload of a
  page that leads nowhere) and calls are answered. `WizardFinishes` is a claim
  about such a user, no less: one who only goes back never finishes. Detours
  are bounded, which says that things do not go wrong forever.
* `JsonRpc!FairSpec`: the browser fires timers and runs handlers to their end,
  callbacks return, and every request is answered, if only by an error. There is no
  timeout in the client: without the answers `Settled` would be false.
* `RpcMarshal!MarshalSpec`: one thread that goes on.
* `ButtonMonitor!Spec`: the loop goes on, and the service manager starts, clears and
  ends the daemon as it was told; nothing is assumed of events.
* `Appliance!FairSpec`: a script runs to its end, the power comes back, resize2fs
  ends. Nothing is assumed of users.

### History variables

`serial`, `inserted`, `cutoff` (order of insertion), `dangled` (clients closed
while the capture thread was on them), `misused`, `seen`, `sent`, `done` and
`hasty` record what happened and restrict nothing, and so do `called`, `canceled`, `failed`
(`JsonRpc`), `want`, `harm` (`NuvotonGpio`), `held`, `longest`, `presses`, `ended`,
`faulted`, `slow` (`ButtonMonitor`), `interrupted`, `excused` (`Appliance`). Some are
conditions:

* `WalkSafe` and `StreamsOK` hold while `dangled` is empty. The
  finding of `use_after_delete` is exactly the other case, so the run
  says that this one race is the only way the walk goes wrong.
* `ThreadOrder` and `ShutdownEnds` except the process whose network thread could not be
  created: it runs on without one, and its last join may do anything (`JoinGarbage`).
  `HandlesOK` is about the handles the library did not refuse to unbind or close
  (`refused`).
* `LetGo` excepts a page that was destroyed while it loaded (`"abandoned"`), which polls
  on, and an overlay that stays because the progress could not be noted (`"threw"`).
  Both are errors of the page, see below.
* `Covered` holds while `hasty` is 0. ServerSettings
  has no overlay: a user who clicks Next twice, or gives up an authentication
  and goes on, gets a second answer that moves the wizard on from
  wherever it then is, past a step. No property catches that step; `WizardFinishes` is
  checked with such users.
* `Faithful` claims of each setting what the code can give. Duplicates combined (`dup`):
  the shape, circles included. Duplicates written again: the same tree, if nothing
  contains itself. If something does and circular references are allowed, references
  are lost (see below), and what is left is that no path leads to an object that was not
  there and that one copy of each object has all its references (`Genuine`, `Complete`).
* `Displayed` holds while `harm` is free of `raced` (a kernel module without a lock was
  in the chip with somebody else), `stray` (a store for a pin that the chip does not
  have) and `guessed` (two chips with one id that could not be told apart). The
  ports of `Misread`, for which a getter looks elsewhere than the setter, are
  named in the model and left out: they are errors of the driver, see below.
* `Judged` speaks of a single press seen by loops of one second; what becomes of a
  second press is the finding.
* `LedTrue` and `LedSettles` (of `Serves`) except a daemon that runs on although a signal
  has stopped its monitor (`Deaf`): its LED is wrong until it is started anew.
* `Addressing` excepts a bridge to nothing, a box whose disabled interface is taken for the
  internal one, and overlaps of an internal subnet with a static WAN address: the three
  things the wizard itself brings about.
* `Flashed`, `Provisioned` and `Settles` except what is in `interrupted`: a flash, copy or
  resize that was cut short and that the scripts do not repair. `Found` excepts the
  browsers in `excused`: another user took their address away, the Internet page took
  away the WAN address they use, their save was lost when the page was redirected first
  or put back another WAN address than the one they were led to, or they typed an
  address and then chose the bridge.

## 4. Findings

Two runs must find a violation; their quotes are in `PROJECT.json`.

1. A client is deleted while the capture thread uses it (`netserver.cpp:255`).
2. A second, short press is judged by the time since the first one and resets the
   appliance (`nuvoton_reset_button.py:165`).

Other places where the code differs from what it or its comments say. The models
contain this behaviour, and the properties name it as an exception or do not claim
the contrary; there is no run for each.

* A broadcast to a descriptor closed meanwhile spins until shutdown, since a failed
  `select()` only goes round the loop (`netclient.cpp:105`).
* Shutdown during the 1000 s pause of a restart ends by the alarm's abort
  (`capture.cpp:156`).
* Handles of a failed restart are freed twice, at the last shutdown only
  (`capture.cpp:248`; the part of `HandlesOK` about `misused`). One that
  `nflog_unbind_group()` or `nflog_close()` refused is only logged, and the next startup
  overwrites the pointer to it (`capture.cpp:255`, `:262`).
* Nobody looks at what `pthread_create()` returns for the network thread
  (`netserver.cpp:27`): if it failed, the daemon runs on and accepts nobody, and the
  destructor joins a handle that was never assigned (line 97).
* A page "Identify Network Cards" destroyed while its first load is awaited turns the
  polling on when the load returns (`Network.vue:193-201`), and polls until an error.
* When the progress cannot be noted after a save, the overlay stays (`Network.vue:541`).
* A second click on Next of ServerSettings (`System.vue:248`), or an authentication that
  was cancelled but is answered later (`SetupSelect.vue:158`), leads past a step.
* A row without status record leads to an interface saved without a device
  (`Network.vue:358`; `RemapOK` and `SaveChecked` assume `AllRecords`).
* The Internet step is shown without a WAN interface, where its Next does nothing
  (`Wizard.vue:155`, `Internet.vue:303`).
* A reload of a completed wizard undoes the completion (`Wizard.vue:141`).
* Select of the NCT6104D and ports 0, 1, 6, 7 and 8 of the NCT6796D is shown from
  another register or bit than it is set in; inversion of port 8 of the NCT6116D is
  read from port 7's base (`nct6116d.c:547`); the condition
  `port >= 6 || port <= 9` takes every port (`nct6775f.c:76`); an unknown chip is
  taken for the first of the table (`nuvoton_main.c:716`).
* SIGTERM is swallowed by a bare `except` in `set_led()` (`nuvoton_leds.py:119`), in
  `open_gpio()` (line 79), in the look at a carrier (`nuvoton_monitor.py:63`) and in the
  set-up of the button (`nuvoton_reset_button.py:121`): the daemon goes on with its
  monitor stopped until the next signal. The service manager repeats its signal, so it
  takes a single one, or a start that comes before the next, for this to last. (The
  `except` of `check_input()`, line 157, swallows it too, but the loop it was called from
  then ends the daemon.) A `network.js` that is not written in full ends the daemon
  (`nuvoton_monitor.py:34`), and so does a real error of `recv()`, which should be
  recovered from (`netlink_watcher.py:69`).
* A flash that was cut short behind its first 100 kB counts as done
  (`000flashsecondarypartition:10`), a Caswell installation cut short never copies its
  settings (`untangle-hardware-caswell-q8.postinst:11`), a copy cut short is never
  repaired (`30netsettings:6`), and the flag of the resized file system precedes the
  resize (`00resizerootpartition:59`).
* On the Asus box the wizard takes the disabled root device for the internal interface
  (`Interface.vue:247`); bridge mode sets no `bridgedTo`; a redirect precedes the save
  whose answer it should follow (`Interface.vue:318`).
* A static address and netmask of the WAN are saved as typed (`Internet.vue:345-356`): no
  page compares them with the internal subnet, e.g. 192.168.2.5/24 on the Caswell box.
* `jsonrpc.js:205-241`: with duplicates written again and circular references allowed, a
  circular reference met in the second copy of an object is listed with the path of the
  first, whose marker it reads. With `a = {x: b, y: b}` and `b = {z: a}` the fixup of
  `x.z` comes twice and `y.z` is lost, which is not what lines 79-91 and 499-505 promise.
* `jsonrpc.js:716-726` says that a request whose response waits for its callback can still
  be canceled; a queued response carries no `requestId` (line 813), so it is never found.
* Outside of the models: `101-mark-src-intf-hack` of the Turris box marks packets of
  `br.eth1` while its bridge is `br.eth0`; the cache of methods of `jsonrpc.js` keeps an
  empty entry after a failed `listMethods` (line 591).

## 5. Proofs

TLAPS proves the following for all values of the constants that satisfy the
assumptions of the modules (`NetworkServerAssumption`, `NflogdAssumption`,
`SetupNetworkAssumption`, `SetupWizardAssumption`, `DriverAssumption`,
`RpcAssumption`, `MarshalAssumption`, `MonitorAssumption`, `ApplianceAssumption`: sizes
are naturals, null values are not members). The number of messages, opens, hangups, calls and power
failures is bounded by a constant that is any natural number, so by none.

* `TypeCorrect`: `TypeOK` is inductive with `ControlOK` (a broadcast has a
  message and a client, a removal has a client).
* `ListCorrect`: `ListOK` is inductive only with what each program counter knows:
  `ServerOK` (where `curr` and `nxt` are during a removal) and `SerialOK` (no
  serial number is above `inserted`). The order of insertion decreases
  along `next`, which excludes cycles and gives each object one predecessor.
  `InsertKeepsList` and `UnlinkKeepsList` are the two pointer writes; all other
  steps leave the list alone (`OtherStepsKeepList`).
* `SocketsCorrect`: adds `ConnectionsOK`. accept() only returns a free descriptor
  and a descriptor is freed only by the destructor of its owner.
* `NoBlockingRecvCorrect`: `ReadyInv` says that the clients still to be tested in
  this round (those inserted before `curr`'s successor) are readable if
  their bit is set; an accepted client is in front of the walk or has a
  descriptor whose bit is clear, since only descriptors of existing clients were
  watched.
* `WalkCorrect`: `WalkInv` says that the capture thread is on a linked object, or
  on the one being removed and then `dangled` will tell.
* `StreamsCorrect`: the list is sorted by age (`OrderInv`: the newest first), so a walk
  without a lock skips nobody who was there when it began. `FeedInv` says how much of
  the current message each client has: those passed all of it, those to come what ended
  before it, the one being written to as far as `off`, those inserted meanwhile nothing.
  The peer of a client that is removed is gone (`GoneInv`). `StreamInv` is `FeedInv`
  while `dangled` is empty.
* `TypeCorrect` of `NflogdProofs`, `SetupNetworkProofs` and `SetupWizardProofs`:
  parts of the invariants below, on which the types depend (that a semaphore is not
  posted twice, that no count of refreshes falls below zero).
* `ThreadsCorrect`, `HandlesCorrect`: one invariant (`IInv` of `NflogdProofs`) with
  `StartInv` (what the position of `main()` implies about the threads and the
  semaphores) and `HandleInv` (what the position of the capture thread implies about
  its handles, apart from those the library refused to let go).
* `PollingCorrect`, `RemapCorrect`, `SaveCheckedCorrect`: one invariant (`IInv` of
  `SetupNetworkProofs`). `setInterfacesMap` swaps two devices, so the grid stays one
  to one and onto; a row's `deviceName` equals its `physicalDev`. The last two
  assume `AllRecords`, that the server reports on every device: without it they are
  false, as section 4 says.
* `CoveredCorrect` (`SetupWizardProofs`): `Covered` is inductive only with what can
  bring a step back: the copy of the settings that `SetupSelect` made, the step an
  authentication will resume (`SeenOK`), and the call under way, whose step the wizard
  has not passed and which is the only one unless the user was hasty (`PendingOK`).
  `NextIs` says that the next step of any list skips none that the interfaces need.
* `DriverCorrect` (`NuvotonGpioProofs`): `IInv` is `TypeOK` with `CallsOK` (a caller at
  work has a loaded driver and a pin the setter accepts: `TypeCorrect`, which is
  inductive by itself), `Reserved` (the port is reserved by exactly the user who is
  inside, hence `UsersApartCorrect`), `Alone` (without a race one caller is inside),
  `Undisturbed` (a setter that nobody raced finds the mode, the device and the register
  as it left them) and `ModeOwned` (the mode is on only while a setter is in it, or after
  a missing port). `QuietCorrect` follows from `Reserved` and `ModeOwned`;
  `OneBitCorrect` from `Undisturbed`, since `val` is then what the register still holds:
  the write changes one bit, whatever the tables of the chip are (`WriteOne`).
* `DisplayedCorrect` (`NuvotonGpioProofs`): here the tables do matter. Lemmas about each
  of the seven chips say that two pins never share a bit (`Distinct`), that a getter
  looks where the setter writes (`GetIs`, `SelectReads`) and that the loop of a show
  comes by every port (`LoopCovers`), in each case but for the ports of `Misread`.
  `ShowInv` then has `StoredOK` (a bit is set just when the last store of its pin set
  it) and `ShowsOK` (what a show has printed so far are the registers, which nobody
  writes meanwhile); `KindOK` and `PinOK` say that the chip is the one on the board and
  that its setters work on pins it has.
* `AccountedCorrect` (`JsonRpcProofs`): `IInv` is `TypeOK` with `PlacesOK` (a request
  is in one place: one of the queues, the network, the hands of the handler, or gone),
  `CanceledOK`, `TimerOK` (`async_timeout` is set just while the timer is due; the
  handler sends only after it has delivered), `PoolInv` and `NotForgotten`. That an
  object is free when one has to be taken is a count (`InUseFree`).
* `PromiseKept`: `JsonRpc` implements `RpcCalls`. Each action is mapped to a step of
  the abstract specification or to a stutter; `PlacesOK` gives that a response
  delivered belongs to a call that is still waiting, `CanceledOK` that a canceled call
  is skipped.
* `FaithfulCorrect` (`JsonRpcProofs`), for every finite graph of objects, however wide,
  in the four settings of the flags. `MarshalInv` has one part for each thing the code
  relies on:
  - `StackInv`: the running calls are a path of the graph from its root.
  - `WalkInv` (`SearchInv`): the markers form a tree that gives each object a path and a
    chain of parents. The objects F that the conversion is through with are ranked:
    their references go down in rank, or back into the chain if that is allowed.
    A circular reference thus shows that the value is cyclic (`CircularIsCyclic`), and
    a conversion that came to its end without one that it is not (the rank would have
    to fall along a cycle).
  - `WireWalk`, `WireInv`: while duplicates are combined the json has each object once;
    of every place the json is sure of, a reference is nothing, written, still to come, or
    left out with a fixup that names another path of the same object. Sure are all places
    where the value comes out as a whole, else the first place of each object (`Sure`,
    `Unlisted`), which is enough for `Complete`.
  - `BuiltInv`: what the receiver has set leads to the same object as here, what it has
    not is still listed.
  - `ListInv`, `VerdictInv`: the markers are linked without a gap, so that all are
    removed; an exception is on its way only if it is deserved.

  The chains and paths are recursive functions, and what they compute is found by
  induction over the tree: a set of depths at which a claim fails would have a
  least member (`NatMin`, `PathInduction`), and the tree itself has only one pair of
  functions (`TreeUnique`). `MarshalInv` is about sequences and functions of any
  size; its instance with three objects of two references each was model-checked
  before it was proved.
* `LedCorrect` (`ButtonMonitorProofs`) needs `LinksOK` (what the daemon believes of a
  device is its carrier unless a message about it waits) and `NoteOK` (the note of the
  LED is the LED, but between the write and the note; once a swallowed signal has stopped
  the monitor, only a note that says "off" still is). `JudgedCorrect` needs `PressOK`
  and `MeasureOK`: the daemon measures a press a second short at most, or a second
  long once it is over.
* `FlashedCorrect`, `ProvisionedCorrect`, `OwnFieldsCorrect` (`ApplianceProofs`): one
  invariant, by script. `PlaceOK` says which script of which box runs and how far it
  can be; `FlashOK` and `FileOK` what each script finds, given what was cut short;
  `ResizeOK` and `NvramOK` that from the line that sets a flag to the restart it asks
  for, the reboot is still to come (`Restarts`); `ListsOK` that the settings loaded,
  copied and saved have interfaces and a copy differs from what was loaded in its
  page's fields. The bounds on power failures, upgrades and saves play no part.
* `AddressingCorrect`, `AdmitsCorrect`, `FoundCorrect` (`ApplianceProofs`): on top of
  that invariant, `LikeOK` says that every list of interfaces, loaded, copied or saved,
  is `Like` the one the factory made: the same interfaces at the same places, each
  configured the same way but for the first WAN, which stays addressed and has no DHCP
  range, and the first internal one, which is as one of the pages leaves it, whatever address and
  netmask were typed (`InternetCases`, `InternalCases`). Lemmas about the tables of the eleven factory files (`FactoryIs`, `Shape`,
  `FactoryFits`) say what such a list can be, and `Addressing` follows; `Admits` from
  the rules alone, of which the last closes the WAN and the first ones open the inside
  (`RulesClosed`, `RulesOpen`). `HostOK` says that the address of each browser answers
  in what its page has loaded and, once it was led elsewhere, in what it is about to
  save, unless it is excused; hence `Found`.

Only model-checked: every liveness property (`ThreadsStop`, `HangupHonoured`,
`ShutdownEnds`, `MissingNoticed`, `LetGo`, `WizardFinishes`, `Settled`, `Ends`, `Serves`,
`Settles`), since fairness and ENABLED are out of the prover's reach.

## 6. Not modelled

* nflogd: option parsing, forking, the format of a log line, the console.
* Wizard: remote mode, the contents of the forms that do not concern the network,
  connectivity tests (a page that stays open after one is closed and opened again), what
  is typed into the fields of a router before a bridge is chosen, except its address, the
  dialogs of `handleException()`.
* JSON-RPC client: the cache of methods per class, references to callable objects,
  proxies, synchronous calls other than their use of the pool.
* GPIO driver: registration of the device, the printed text, the bits that were set
  before it was loaded.
* Button monitor: forking into the background, blinking, boards without a button.
* Appliances: QoS, UPnP mappings, bypass and NAT sections of the settings; scripts of
  `firmware.d` that load modules, name interfaces or drive LEDs and keep no state.
* Settings store and pages of the web UI: forms over objects of a library that is not
  in the repository. `store/settings.js` itself (fetch, cache, save, refetch) has
  little concurrency of its own.
* pyconnector: a reconnect loop around a library's client; its state is the connection.
* Hook and maintenance scripts: I/O once per event. The cluster upgrade of PostgreSQL
  is the one that could be interrupted with an effect.
* Everything else listed as `not_modelled` in `PROJECT.json`.

## 7. Plan

Done, most important first: the list of the network server and its proofs; the
process; the network cards step; the wizard; the GPIO driver; the JSON-RPC client with
its abstract specification; the button monitor, the factory settings and the first
boot; and the proofs of all their safety properties.

What would come next: an abstract specification of the message feed that
`NetworkServer` implements while `dangled` is empty; the method cache of
`jsonrpc.js`; the PostgreSQL upgrade interrupted at any step.
