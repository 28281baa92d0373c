# Better GroBro in TLA+

Better GroBro is a Home Assistant add-on that stands between Growatt devices and Home
Assistant: it reads the devices' packets from a *source* MQTT broker, publishes them to
Home Assistant's *target* broker, turns commands of Home Assistant into packets for the
devices, and optionally relays everything to Growatt Cloud. This directory holds TLA+
models of the parts of it that keep state, TLC runs that check them on small instances,
and TLAPS proofs of what holds for every instance. Paths are relative to `src/`; `client.py`
alone means `grobro/ha/client.py` in modules about Home Assistant and
`grobro/grobro/client.py` in `CloudForward`, `ConfigWrites` and `GatewayLink`. `parser.py` and
`noah_0103.py` are in `grobro/grobro/`, `modbus_message.py` in `grobro/model/`.

    tlc -config MCSettings1.cfg MCSettings      # one run
    tlapm SettingsProofs.tla                    # one module of proofs

## The system

    Growatt device -> source MQTT -> grobro.Client -> parser -> ha.Client -> target MQTT -> Home Assistant
    Home Assistant -> target MQTT -> ha.Client -> grobro.Client -> source MQTT -> device
    device <-> grobro.Client <-> one MQTT client per device <-> Growatt Cloud

Everything runs in one process. The threads that enter the code are: the network thread
of the source connection (packets, subscription acknowledgements), the network thread of
the Home Assistant connection (commands, birth message, connect), one `threading.Timer`
thread per armed timer, the network thread of every cloud client, the web server's threads,
a diagnostic writer, and the main thread, which starts and stops both clients. `ha.Client`
has one *runtime lock* (`timer_runtime.guard_runtime`, `client.py:740, 753`): every entry
point takes it, so each of its handlers is one action of a model. What the lock does not
order is a step of its own: a timer thread that woke up and waits for the lock, a flag
raised before the lock is asked for, a publish that Paho accepted and the broker never got.

### Inventory

| component | state | operations | hard because of | correct when |
|---|---|---|---|---|
| config reads (`ha/client.py`) | per device: queue, read in flight, active marker, start and read timer | Read All, automatic refresh, answer, 60 s timeout, recovery, stop | late timers, answers nobody waits for, failing starts | a sequence always ends, in order, and can be started again |
| availability (`ha/client.py`) | retained topics, publish cache, `last_seen`, a timer per device, last will | telemetry, timeout, reconnect, birth, stop, crash | rejected and lost publishes, timers racing with traffic | caches tell the truth; silent devices go offline, live ones do not |
| cloud forwarding (`grobro/client.py`) | cloud clients, their connection and subscription, stop flag | packet, first connect, cloud message, stop with workers | echo loop, stop racing a connect, hanging threads | no loop, no way around the filters, nothing survives stop |
| publication (`ha/client.py`, `discovery_*.py`, `performance.py`) | retained discovery, its caches, state caches | packet, config, migration, repair, reconnect, Home Assistant restart | Paho's acceptance is not delivery; Home Assistant forgets states | nothing is skipped that Home Assistant does not have |
| config store (`config_runtime.py`, `device_config.py`) | cache, snapshot, `config_<device>.json`, dirty set | partial packets, save, retry, restart | failed writes, kills, stale snapshots, unreadable files | known values survive, failed saves are retried |
| battery positions (`battery_position.py`) | stable and manual maps, two files | packet, user's choice, save, restart | packs moved, replaced and absent; failed reads | each pack is shown at its slot, and two meet only where the user put the serial number both report |
| gateway links (`grobro/client.py`) | link, dirty set, `gateway_<id>.json`, and the gateway's config file | announcement, readback, restart | two clients persist it at different times | a saved link is the link after a restart |
| settings, NEO power (`ha/client.py`, `neo_power_runtime.py`) | readback cache, retained value, probe timer, requested set | command, read, answer, telemetry, probe | answers that overtake commands, mirrored values, lost links | what is shown settles on what the device has |
| config writes, clock (`grobro/client.py`, `time_sync_runtime.py`) | pending writes per device, tracking disabled, clock timer | write, rollback, acknowledgement, clock | lost, unnamed and foreign acknowledgements, the limit | an acknowledgement is not taken for one of a later write |
| message routing (`grobro/client.py`) | none of its own | dispatch by message type | | modelled in the modules of what is called |
| wire formats (`parser.py`, `noah_0103.py`, `modbus_message.py`, `builder.py`) | the place a parser has reached and what it has found | messages, acknowledgements, values of registers, config answers, device information, hidden blocks | lengths inside the packet that do not fit it, trailers, a search that skips places | what is taken out is what the packet says, all of it or nothing |
| register maps, families, localization, discovery payload | none (data) | look-ups, formatting | | |
| firmware composition (`firmware_runtime.py`) | parts of a version per device | compose | | a change makes discovery due |
| device inventory (`device_inventory.py`) | a dictionary under a lock | record, list | | |
| register capture (`register_debug.py`) | last values, last bytes of blocks | compare, record, hand on | two caches over the same registers, discarded captures | no change is missing in the file |
| diagnostic writer (`diagnostic_io.py`) | bounded queue, a thread, a file and its backups | submit, write, rotate, repair, stop | stop racing with submit, a write or a rotation cut off | bounded; nothing waits for ever; files stay readable |
| web interface (`battery_ingress.py`) | request threads, their tokens and deadlines | connect, read headers and body, answer | clients that trickle or stay, threads that do not start | each token comes back, each connection ends |
| add-on options (`supervisor_config.py`) | options at the Supervisor, their lock, restart threads | read, merge, save, restart | another save, and a second writer outside the process; failing calls | saves do not undo each other; a promised restart is asked for |
| start and shutdown (`ha_bridge.py`, `signals.py`) | stage | start, stop | a failing start | both clients are stopped |

`PROJECT.json` lists the hazards of this code at their lines, each with the properties that
would catch it or a note saying why none does. Two that are modelled have none: the publish on a
cloud client that `stop()` has disconnected (`grobro/client.py:929`), which loses a packet and
nothing else, and a config file that cannot be read (`device_config.py:103`), under which the
promise to keep known values does not hold (below).

## Modules

Each component has a module (state, actions, properties), an `MC` module that declares TLC's
model values, a `.cfg`, and proofs. `ReadSweep` is an abstract
specification; `GatewayLink` composes with `DeviceConfigStore`, `RegisterDebug` with
`WireFormats`, and `Diagnostics` with `RegisterDebug` and `DiagnosticWriter`. Operators named
`…Anyway`, `…Never`, and so on, introduced as "a mutant of X", are X with a plausible bug; no
specification uses them. They exist so that each property can be shown to fail for some bug.

**`ReadSweep` and `ConfigReads`.** `reads[d]` has the queue, the read in flight, the two timers
and the timer threads of a device. A thread that `fired` waits for the lock and cannot be
cancelled; it then finds whether the map still holds it. Actions are the button
(`ReadAllPressed`), answers, activity, timer threads, the readiness flag and its handler
(two steps, client.py:619), Home Assistant's return, and stop. Starting a thread and
publishing may fail at each place where the code handles it. `ReadSweep` says what a
sequence is, with neither queue nor timer: registers in map order, one at a time.

**`Availability`.** A publish of `ha.Client` has three outcomes: rejected (no socket), accepted
and delivered, accepted and lost (`link = "dying"`). `on_connect` waits for the lock, so
packets are handled on a new connection before it (`SocketUp`, `ConnectHandled`). Time is
one bit per device: whether its timeout has passed since its last activity. `StartFails` is
the set of devices whose timer threads may fail to start; within it every outcome is possible.

**`CloudForward`.** The source thread is in `__publish_to_growatt_server` (`src`), at the look-up,
the connect under the lifecycle lock, or the publish after it. Messages have an identity and
an origin, which is what makes "the same packet twice" expressible. `stop()` is its flag and
snapshot, one worker per client, the join of the source thread, and a deadline that passes.

**`Publication`.** A handler publishes in stages and the connection may break between any two
(`Outcome`). Discovery is a function of slots, identity and firmware; its text is left out.
Home Assistant is assumed to subscribe as soon as it is up. Metadata and availability
publishes of the same handlers are left out. A QoS 0 publish is rejected only without a
connection, which `on_connect` and its clearing of the caches follow.

**`DeviceConfigStore`.** One device, because devices share no file and no entry. `kept`, `vol` and
`secret` are the three kinds of fields the code tells apart: compared and saved, saved with
them, never saved. A write is done, fails, or is cut by a kill before or after `os.replace`.
Every `os.replace` is taken to change the file's signature (mtime, size, inode). `ReadsFail`
allows an existing file to be unreadable for a while.

**`BatteryPosition`.** A packet is a report (any serial numbers in slots 2..4, the same one in
two slots included, which `_serials_from_payload` lets through) and does everything the code does
under `_PERSISTENCE_LOCK`: loading the maps, assigning, saving, placing. Properties quantify over
every packet that may come next, so a state is wrong as soon as some report would be shown
wrongly. `KeepsSlot` and `NeverStolen` are about reports with each battery once, because two slots
cannot both be shown at the one the battery keeps. `Picks` bounds the choices users make in
TLC; the proofs take any `Picks`.

**`GatewayLink`** EXTENDS `DeviceConfigStore`: a config packet of a ShineWeLink changes the config
file of the gateway through one client and the link and its file through the other.
A kill inside a write of the link is a failed write followed by a kill. Packets carry only
the serial number, because links depend on nothing else.

**`Settings`.** Per register: the value in the device, requests and answers on their way (in
order, lost with the connection), what is retained for Home Assistant, and the cache that
skips equal answers. A "deaf" source connection takes messages and gets no answers: before its
subscription is in place and when it is about to break. `fresh` is a history variable: a read
was sent and since then its answer was not lost and nobody else changed the register.
`requested` means MQTT took the read. It is not repeated until the next recovery if it is lost.

**`ConfigWrites`.** `send_config_message` is a reservation, the publish, and for a refused one the
rollback, each a step, because acknowledgements are handled in another thread in between. The
runtime lock lets one write run at a time (`sender`), of a command or of the clock timer, which
writes to each device with a clock in turn. `StrayAck` is an acknowledgement of a write made by
Growatt Cloud or by an earlier process.

**`WireFormats`.** A packet is the bytes behind its fixed header, and the header is one bit:
whether its length is the one of a message of that size. Each loop of a parser is an action that
looks at one place (`BlockRead`, `EntryRead`, `CandidateTried`), with the guards and early
returns of the code: a report's metadata, the smallest block, the trailer, the fallbacks of a
config answer and of device information, and the search for a block hidden in a 0x0103 packet,
which tries every other place. The entries of an answer are a sequence. Device information is a
function from registers to values, as the code's dictionary: a later entry of a register replaces
an earlier one (`Assigned`), and registers `DeviceConfig` has no field for are dropped at the end
(`Information`, `Parameters`). `GetData` is what all readers of registers use. Sizes of the
format that only scale (metadata, longest entry, largest hidden block) are constants.

**`RegisterDebug`** EXTENDS `WireFormats`: what a parser accepts is captured block by block.
`last` and `cached` are the two caches of the code; blocks that are the same are skipped
before their values are compared, and blocks that share a register with a new one are
forgotten. The writer takes the records or discards them, which is left open here. `filed`,
`reported` and `missing` are history: what the file says of a register, what the device said
last, and the registers whose last record was discarded.

**`DiagnosticWriter`.** Texts are sequences of record sizes, records are numbered as they are
accepted, and a line of a file is a record, a record without its newline, or a part of one.
`submit`, the thread's look at the queue, its write, `stop()` and the end of its join are
actions. A write that fails, and a process that dies, leave any prefix of what the write does
(`Interrupted`), the moves of a rotation included (`Cut`), and the next write repairs the tail
(`Repaired`). The point between the last move and the first byte of the new file is not one of
them: what can follow is what can follow the part of a line in its place. One file: files share the queue and nothing else.

**`Diagnostics`** puts the two next to each other. No step of one depends on the other, so one
runs while the other rests (`part`); their interleavings would say nothing new.

**`WebInterface`.** A request thread is at a stage: reading headers or a body, fetching what a
page shows, waiting for the options' lock, reading or writing them, answering. A deadline is a
bit that may be set while a client is awaited, and is reset only by complete headers or a
complete body. Options are functions from names to values; `foreign` notes what the
Supervisor's page has set between a save's read and its write. A save may be accepted while
its answer is lost. The promised restart has a thread of its own or, without one, the request's;
the Supervisor restarts the process (`Restarts`) or refuses. A POST with battery positions
is `SaveChoice` of `BatteryPosition`.

## Runs

Eleven runs check properties that hold, under `CHECK_DEADLOCK` unless the system really stops
(`cloud` and `config_writes`: shutdown is final and messages are bounded).

| run | instance | properties |
|---|---|---|
| `config_reads` | two devices with 2 and 1 registers, two timers each | `NoStuckRead` whatever makes Read All a duplicate has a live thread that ends it; `RetryAfterAbort` an aborted sequence gives the automatic refresh back; `SweepInOrder` implements `ReadSweep`; `SequenceEnds` |
| `availability` | two devices, one may fail to start threads, two timers each | `CacheTellsTruth`, `OnlineIsWatched`, `LiveStaysOnline`, `KnownSilentGoOffline` |
| `cloud` | three devices, two allowed, config filter on, two messages | `NoEchoLoop`, `NothingLeftConnected`, `StopCompletes` |
| `publication` | one device, two slot layouts, two identities, one firmware and none, one state | `DiscoveryNotSuppressed`, `StateNotSuppressed`, `DeviceShown` |
| `config_store` | two values per field | `KnownSurvives`; `KnownSaved` what the process knows is in the file in the end, though writes are saved by comparing with a snapshot; `SecretsLeave` |
| `battery` | one device, three batteries, three choices | `OneSource`, `ChoiceWins`, `KeepsSlot`, `HistoryKept`; `AssignmentsSaved` a slot given to a battery is in the file in the end |
| `gateway` | two inverters and the gateway's own serial number | `SavedLinkSurvives`, `LinkSaved` |
| `settings` | the power switch of one NEO, two values, three messages on their way | `Settled`, `PowerAsked` |
| `config_writes` | one device, two registers, limit 2, four writes | `TracksUnanswered`, `NamesNoLaterWrite`, `ClockKept` |
| `diagnostics` | all packets of up to five words 0..2 and of one to three whole config entries, also shifted by a byte; fourteen messages in any order; two jobs, three bytes, a file of three and two backups, four records | `RegistersExact` blocks, values and hidden blocks have the bytes the packet has for them; `EntriesExact` the entries of an answer rebuild it without its trailer, and device information has the last value of each known register and no other; `FileCurrent` no change is missing in a capture; `Accounted` the byte budget leaks nothing; `FilesReadable`, `OldestDropped` no interrupted write or rotation loses or repeats a record; `CapturesSettle` |
| `web` | three connections for two tokens, two options and a retired one, one restart thread when a connection is accepted | `SlotsHeld` no token is lost; `SavesDoNotMeet` two saves do not undo each other; `PromiseKept`; `RequestsEnd` |

The type invariants, and invariants that follow a proved one closely (`TimersOwned`, `OneWatcher`,
`PolicyHolds`, `CacheOnDisk`, `AutoOnDisk`, `NothingStranded`, `StopMeansSettled`), were checked
while their proofs were written. They are proved (below) and not run.

**Bounds.** `TimerId` has two identities: one timer in the map and one orphan waiting for the lock
is the most that one cancellation leaves, and a start that finds none free is a failing
start. Two devices are enough where devices share the lock and nothing else. `MsgId`: one
packet and one more beside its echo. `Limit = 2` is `MAX_PENDING_CONFIG_WRITES = 128` made
reachable, and four writes go past it. `MaxWaiting = 3`: a write, its read and one other read;
`Room` leaves one place for reads that are made without Home Assistant, which are never held
back by the bound. Two ordinary settings together exceed a short run; they are independent,
and the proofs cover any set. One device in `battery` and `publication`: per-device maps are
only joined in a file, which the proofs cover for any set of devices. `Packets`: a word is a
register, a length or a value, so 0, 1 and 2 make every length too short, exact and too long, and
five words hold one block or one entry with a trailer; the shift by a byte gives odd sizes.
`EntryTexts`: one, two and three whole entries with values of one and of two bytes, of register 1,
which is in `Parameters`, and of register 3, which is not, so that registers repeat, are dropped
and alternate, with and without a trailer. `Telegrams`: messages of one and of two blocks, in
layouts of one and of two registers that share registers, each in two values, and one message
with a register beyond `MaxRegister = 1`. `MaxFile = MaxBytes = 3` makes every other write a
rotation; two backups are the fewest of which one moves and one is dropped. `Slots = 2` stands
for `max_requests = 8`, with one connection more than tokens; `MaxTimers` bounds the
restart threads that sleep when a connection is accepted.

**Fairness**, and why the code gives it:

- `ConfigReads`, `Availability`: timer threads that fired and network threads get the runtime lock
  (its holders never block on each other), and timers expire.
- `CloudForward`: only the source thread and the main thread run. Workers and cloud threads
  may stall for ever; that is what `StopCompletes` is about.
- `Publication`: devices keep sending (weak), `on_connect` and the birth message are handled.
- `DeviceConfigStore`, `GatewayLink`, `BatteryPosition`: the process is started again, and again and
  again a packet of the device meets a time in which reads and writes succeed (strong, because
  failures and kills disable it in between).
- `Settings`: the device takes its messages, answers are handled, telemetry goes on and the
  probe's timer runs.
- `Diagnostics`: the writer's thread gets the lock, and a write that may fail any number of times
  ends.
- `WebInterface`: deadlines pass; a thread that does not wait for its client goes on, because
  every call of the Supervisor has a timeout; and the options' lock, which is often taken,
  is not given to others for ever (strong). Clients owe nothing.

`SequenceEnds`, `KnownSilentGoOffline` and `DeviceShown` condition on the outside world settling
(no recovery for ever, a connection that stays up), since no code can promise anything else.

### What the code does and its documentation does not say

One run checks a statement of the repository that the code breaks, and TLC shows how:

- `battery_stolen`: "New batteries therefore cannot steal them" (`battery_position.py:447`). A fourth
  serial number gets no stable slot and is placed at its physical one, which may be the stable
  slot of a battery placed after it. While all reported batteries have a slot they keep it
  (`KeepsSlot`, proved).

Other divergences met while modelling, which no run states:

- "Preserve known values when a later device config packet is partial" (`config_runtime.py:40`).
  `from_file` answers `None` both for a missing file and for one it cannot read; the next partial
  packet then replaces an intact file. A restart, one failed read and one packet are enough
  (`ReadsFail = TRUE`). Without failing reads the promise holds (`KnownSurvives`, proved).
- "Dedicated links survive partial gateway config packets and restart" (`grobro/client.py:244`). A
  link restored from a config file is never written to a link file, and the gateway's next packet
  overwrites the config file. A *saved* link survives (`SavedLinkSurvives`, proved).
- Options are saved before the page is answered, and the restart that makes them effective is
  scheduled after it. If the answer cannot be sent, they stay saved and no restart follows
  (`battery_ingress.py:1162`; `Confirmed` in `WebInterface`).
- "Synthetic/unit-built messages may omit it", the trailer (`modbus_message.py:328`). The length in the
  header has to be the packet's less 8 (`:271`), which leaves the trailer out of the count, and
  `msg_len` (`:224`) writes that number: of a message built without a trailer it is two too
  many, and the parser refuses it.
- "An identified pack owns its logical destination" (`battery_position.py:585`). When two slots report
  one serial number and the user gave it a slot, both are placed there without a look at
  `used_slots` (`:504-509`), and of two values with the same key the later one in the packet stays
  (`:593`). `OneSource` allows two physical slots to meet there and nowhere else.
- In changes-only mode a value that was captured but discarded by the full writer is taken as
  known, and is not captured again until it changes (`missing` in `RegisterDebug`).
- CONFIGURATION.md:32 promises traffic "between the local broker and Growatt Cloud". A cloud client
  subscribes once, right after `connect()` (`grobro/client.py:952`), and has no `on_connect`: after
  Paho reconnects it with a clean session it still uploads and gets nothing. In `CloudForward`,
  `Reconnects` and `Connacked` lead to `link = "up"` with `sub = "no"`.
- DEVELOPMENT.md:87-89 forbids publishing to a forward client before its CONNACK. The code
  publishes the first packet right after `connect()` (`grobro/client.py:929`), and loses it if the
  cloud refuses the connection.
- DEVELOPMENT.md:95-99 lists "removal of obsolete components". `set_config` makes the migration
  due again (`ha/client.py:327`), which retains the migration payloads of the old topics; their
  cleanup runs once per process. `legacy` in `Publication` stays "migrating" after a config
  change that follows the cleanup.
- A device whose config was never saved stays retained as online when the process crashes: only
  devices restored from files are taken offline by the next process (`ha/client.py:260`).
  `KnownSilentGoOffline` is about known devices for that reason.
- Acknowledgements of writes made by Growatt Cloud, or by the process before a restart, are matched
  to pending writes of this one. `NamesNoLaterWrite` holds for devices that sent none. The
  queue only names settings in the log.

## Proofs

The theorems hold for every value of the constants under the named assumptions of the modules
(disjointness of `None`, `NoTimer`, … from the values, `Regs` a function to sequences, and so on).
Each proof module defines an inductive invariant, proves that `Init` and every action
establish it, and derives the properties.

| module | inductive invariant, beyond typing | theorems |
|---|---|---|
| `ConfigReadsProofs` | per device: the sequence is recoverable, every thread not fired is in its map, the queue is the rest of the register map; nothing is active when stopped. `NoStuckRead` alone is not inductive: an answer hands over to the next read only if its timer is the owned one, and `SweepInOrder` needs the queue to be a suffix of `Regs[d]` | `ReadsNeverStick`, `NoStrayTimer`, `AbortedReadsRetry`, `ReadsSweepInOrder` (refinement of `ReadSweep`), `TypeCorrect` |
| `AvailabilityProofs` | threads belong to the map unless fired; caches are true and online devices watched while a handled connection is up; a process that does not run has no connection | `CachesTellTheTruth`, `OnlineDevicesAreWatched`, `AtMostOneTimer`, `LiveDevicesStayOnline`, `TypeCorrect` |
| `CloudForwardProofs` | a packet is in one place on its way up, or was uploaded once (`NoSecondWay`), all that moves belongs to allowed devices, and `stop()` knows every client not yet closed (`StopKnows`) | `NoEchoes`, `PolicyIsKept`, `NoClientSurvivesStop`, `TypeCorrect` |
| `PublicationProofs` | both suppression invariants; they need the recoveries that are due as a case | `StatesAreShown`, `DiscoveryIsCurrent`, `TypeCorrect` |
| `ConfigProofs`, config files | a current snapshot is the file, a dirty device is cached, the cache covers the file (the last needs `~ReadsFail` and is what makes a merge keep old fields) | `CacheIsOnDisk`, `KnownValuesSurvive` (assuming `~ReadsFail`), `TypeCorrect` |
| `ConfigProofs`, gateway links | a process with a link file knows a link, and the same one unless it is unsaved | `SavedLinksSurvive`, `LinkTypeCorrect` (both assuming `~ReadsFail`), `ImplementsStore` (refinement of `DeviceConfigStore`), `GatewayCacheOnDisk` |
| `ConfigProofs`, config writes | pending writes, writes on their way and acknowledgements on their way are each in the order they were made, a write being made is later than what is on its way, and what may still be acknowledged is pending. `NamesNoLaterWrite` follows because an acknowledgement takes the first write that matches, at or before its own; removing that one leaves the later ones | `UnansweredTracked`, `NoLaterWriteNamed`, `ClockComesBack` |
| `PageProofs`, positions | memory extends the file and is on disk or dirty. The placement itself is a lemma about `Placed` for any map and report: two physical slots get one logical slot only if both report the battery chosen for it | `OneSourceHolds`, `ChoiceAlwaysWins`, `SlotsAreKept`, `HistoryIsKept`, `AutoIsOnDisk`, `TypeCorrect` |
| `PageProofs`, options | tokens are counted by the threads that have one, promises by the threads that sleep; who reads or writes options has the lock. The counts need the set of threads to be finite, which is kept because each step adds one at most, so connections need not be | `TokensComeBack`, `SavesExclude`, `PromisesAreKept` |
| `SettingsProofs` | what a `fresh` register rests on: its read is the last message to the device, or the answer is the last one back, or it is shown; and once a recovery is done the cache holds only what is retained | `ReadbackReplaces`, `CacheIsShown`, `TypeCorrect` |
| `DiagnosticsProofs`, packets | elements that were read are laid side by side from the first place on; a message is refused at a place where no block fits, an answer ends where no entry fits, and the block found of a 0x0103 packet is the first exact one in front of the place that is tried next (`ReadRight`). Of device information, what was read so far is, for each register of an entry at a place in front of the next one, the value of the last such entry (`FieldsRead`). `RegistersExact` and `EntriesExact` follow by induction over the elements: each fills the tiling up to the place behind it, and the bytes rebuilt of them are those of the packet up to there | `RegistersAreExact` (with values of every size and at every register), `EntriesAreExact`, `BlocksFillMessages` |
| `DiagnosticsProofs`, capture | each known value is in the records, in the file, or missing there, and the bytes kept of a block are those of its registers, because blocks that share one are forgotten | `FileIsCurrent`, `ImplementsParts` (`Diagnostics` implements both of its parts) |
| `DiagnosticsProofs`, writer | a text that waits has a thread awake, and the thread ends only closed and drained; the bytes counted are the sum over queue and active job; every file keeps its limit and only a last line is incomplete. What a write does to the disk (`Sound`) is proved line by line, for every line after which it may be cut off | `NoWakeUpLost`, `StopTellsTruth`, `BudgetExact`, `FilesStayReadable`, `OnlyOldestDropped` |

Every invariant and every action property that a run checks is stated by a theorem. Only
model-checked is liveness (`SequenceEnds`, `KnownSilentGoOffline`, `StopCompletes`, `DeviceShown`,
`KnownSaved`, `SecretsLeave`, `AssignmentsSaved`, `LinkSaved`, `PowerAsked`, `CapturesSettle`,
`RequestsEnd`), because the prover handles neither fairness nor `ENABLED`.

No module declares a RECURSIVE operator: sums, the lines of a write, the tiling of a packet and the
history of the files are recursive functions. The induction theorems of the library take an
operator, which the provers cannot instantiate, so `DiagnosticsProofs` states induction for sets:
`Least` (a set of numbers has a least one, from the well-founded order of the library), `AllUpTo`
(a set with 0 that is closed under the next number has all up to a bound) and `RecursionExists`
(a step function has a recursive function). A recursive definition is a CHOOSE of a function that
satisfies its equation, so each is unfolded by showing first that there is one (`TotalSums`,
`RecordsFunction`, `WroteFunction`, `OlderFunction`, `FlattenFunction`, `TiledFunction`).

## Not modelled

- Scrambling and CRC, which are arithmetic on every byte; the fixed layouts of NOAH packets
  (`parse_noah_*`), which read constant offsets of packets of a constant size; and the commands
  that are built (`modbus_function.py`, `builder.py`), which have no lengths to get wrong.
- Register maps, localization, the discovery payload: pure functions or data.
- Smart-meter states; holding registers other than settings; the optional binary sensor copy of
  availability; MQTT redelivery by Paho (source traffic is QoS 0).
- The record of detected battery serial numbers for the web page, and the text of the pages.
- The device inventory: no step reads what it holds.
- Captures other than the register capture: each appends one text per packet to the diagnostic
  writer and keeps nothing.
- The order of the two clients in `ha_bridge`, and signals that arrive while they start; `stop()`
  of each component is in its module.

## Plan

1. The detected serial numbers in `BatteryPosition`, smart-meter states in `Publication`,
   firmware composition as parts.
2. `ha_bridge`: start, failing start, signals and stop, over abstract clients.
3. An abstract specification of a retained topic with a cache ("what is skipped is there") that
   `Availability`, `Publication` and `Settings` each implement, with the refinements proved.
