# PartRack firmware: TLA+ models, checks and proofs

PartRack is a storage rack of 25 slots. Its nRF52840 firmware keeps a table that
binds slots to parts, lights slots on command, and talks to a phone over
Bluetooth LE. The portable logic is in `protocol/`, the Zephyr application in
`firmware/nrf52/app/src/`. This directory models that logic as TLA+ modules,
checks them with TLC on small instances and proves their main invariants with
TLAPS for instances of every size.

Paths below are relative to the root of the repository. Run the tools here:
`tlc -config <run>.cfg MC<Module>.tla`, `tlapm <Module>_proofs.tla`.

## 1. Inventory

### Where code runs

| context | runs | may be overtaken by |
|---|---|---|
| main thread (preemptible) | `main`: boot, `app_ble_start`, LED loop | everything |
| Bluetooth RX thread (cooperative) | GATT reads and writes, `connected`, `disconnected` | others only where it waits: flash write, SPI transfer, HCI command |
| system workqueue (cooperative) | lifecycle `process`, READ_ALL pacer, light timeout | the same |
| GPIO interrupt (peripheral build only) | `nfc_fd_handler` | - (it interrupts everything not under `irq_lock`) |

One connection at a time (`CONFIG_BT_MAX_CONN=1`), though up to ten phones may be
paired (`CONFIG_BT_MAX_PAIRED=10`) and take turns; connectable advertising is
one-shot and must be started again after each connection. Which thread runs
`disconnected` is a matter of the Bluetooth host's version; the models let it come in
the middle of a command that waits for the flash.

### Components

| component | state | operations | what must hold |
|---|---|---|---|
| BLE lifecycle (`protocol/viberack_ble_lifecycle.c`, `app_ble.c`, `nfc_wake.c`) | ready, connected, advertising_running, work_pending, two generations; work item | start, process, connected, disconnected, three reports | no invalidation of the advertising payload is lost; the rack is on the air when nobody is connected; what is counted as applied is what the air shows |
| Binding table (`viberack_binding_table_model.c`, `viberack_storage.c`, `binding_table.c`) | 25 records, table_seq; a settings entry in flash | read, write, clear, insert, remove, move block, set quantity, factory reset; boot | records carry their own slot and check byte; shifts lose nothing; a crash leaves the old or the new table; a boot serves what is stored; table_seq tells of every change |
| Binding Control Point (`viberack_ble_dispatcher_model.c`, `app_ble.c`) | none but the command being handled | one per opcode; answer; Table Info | answers are true, and survive; their order; a client can recover from a lost answer without having its command carried out twice |
| READ_ALL pacer (`viberack_read_all_pacer.c`, `app_ble.c`) | active, next_slot; delayable work | start, cancel, process | frames in order, none missing; it ends; torn reads are noticeable; nothing leaks into the next connection |
| Light control (`light_control.c`, `viberack_light_state.c`, `viberack_light_policy.c`) | mode, expiry; strip buffer, power gate, timeout work | apply, timeout | every light goes off; power only for a light; strip, state and report agree |
| Advertising payload (`viberack_adv_payload.c`) | adv_msd | build | it is fresh (`BleLifecycle`); its battery fields are true (`DeviceHealth`); the byte layout is not modelled |
| Light frame and times (`viberack_light_frame.c`, `remaining_s`) | none | pure functions | mask B over mask A, no light longer than its mode allows (`LightControl`) |
| Device health (`viberack_device_health.c`, `device_health.c`) | battery, reset reason, sticky fault, watchdog | init, sample, feed, encode | a level shown without the fault bit is true; the reset reason is this boot's; the watchdog resets the stuck and nobody else |
| Boot and main loop (`main.c`) | ble_connected | boot order, endless error loops, LED loop | boot ends in time for the watchdog, and a boot that fails is reset (`DeviceHealth`); the LEDs are not modelled |
| Tools, hardware, boards | - | - | no behaviour of the device |

Interaction: the phone writes the Binding Control Point; the RX thread runs the
table operation, flash write included, sends the status, then reports the change
to the lifecycle, which notifies Table Info or, with nobody connected, rebuilds
the advertising payload on the workqueue. READ_ALL only starts the pacer, which
streams from the workqueue while other commands go on. Light Commands and the
light timeout drive the strip from two threads and report to the lifecycle.

The hazards, each with its line and the properties aimed at it, are listed in
`PROJECT.json`.

## 2. Modules

| module | models | checked by | proved in |
|---|---|---|---|
| `AdvertisingContract` | abstract: a payload that is owed to scanners until the air shows it | refined in `lifecycle_peripheral` | `BleLifecycleContract_proofs` |
| `BleLifecycle` | advertising lifecycle, controller, boot; `KeepsContract` | `lifecycle_*` | `BleLifecycle_proofs`, `BleLifecycleContract_proofs` |
| `TableContract` | abstract: a shelf that changes by whole operations, its version, and what clients see of it | refined in `binding_table` | `BindingTableContract_proofs` |
| `BindingTable` | table operations, flash, crash, boot; `KeepsContract` | `binding_table`, `table_read_error` | `BindingTable_proofs`, `BindingTableContract_proofs` |
| `BindingControlPoint` | dispatcher, client and other phones over an instance of `BindingTable` | `control_point*` | `BindingControlPoint_proofs` |
| `ReadAll` | pacer, delayable work, table changing underneath, client's mirror | `read_all` | `ReadAll_proofs` |
| `LightControl` | light commands, their pictures and seconds, timeout, strip, power | `light_*` | `LightControl_proofs` |
| `DeviceHealth` | boot, main loop, battery, reset reason, watchdog | `device_health` | `DeviceHealth_proofs` |

The `MC*` modules extend these and define the sets that a `.cfg` cannot write down:
the commands of the clients (`ClientCommands`, `OtherCommands`, `OneInsertion`), the ADC
readings (`EdgeReadings`) and the symmetry of parts (`PartSymmetry`). All other
sizes and bounds are in the `.cfg` files. In
each module a definition marked "Seeded bug" is a plausible mistake in the
definition after it; none is used by the specification. They document which
property would notice which mistake.

### BleLifecycle

Each `irq_lock` section of the C code is one action, and everything between two
sections interleaves: `StartSample`/`StartCommit` and `ProcessSample`/
`ProcessCommit` are the two sections of `start` and `process`, between them
`FillAdvMsd` reads the data and `AdvStart`, `AdvUpdate`, `AdvRefused` or `AdvFault`
is the Bluetooth call. `pending` (work_pending) is set in the lock section, the
work item is submitted afterwards (`Submit`). `gen` and `applied` are the two
generations. The radio runs ahead of the host: `link` is `coming` or `going` until
the callback has run. `lit`, `unreported`, `fillStale` and `airStale` abstract
what the payload shows: whether the buffer and the air lag behind the data.

Environment parameters: `HasNfc` (the peripheral build; the bare XIAO board has no
NFC alias) and `SessionInWindow` (a whole connection may come and go within one
advertising call, which the Bluetooth timing makes remote, not impossible).

Three handlers change what is shown and report it afterwards (`Source`): a binding
command and a light command in the RX thread, one at a time (`RxFree`), and the light
timeout (`OffWork`), which needs no connection. A binding command changes the table only
when its flash write is over (`BindingCpWrite`, then `ChangeBinding` or `SaveFailed`); if
the host runs `disconnected` in another thread, that may be after the link has gone,
while `process` is already applying a new payload. The timeout is an item of the same
workqueue as `process`: it begins while the worker is idle, and the worker does not
enter `process` before it has reported.

`AdvertisingContract` says what all this is for: from power-on the rack owes scanners a
payload, every report and every departure of a client is a new debt, and the debt is
forgotten (`Settle`) only when the air shows what was reported or a client is connected.
The mapping takes the debt from `~ready` and the two generations, the air from the radio,
`advertising_running` and the work item not at all: both may be wrong for a while
(`FlagTruth` needs an assumption), and the contract holds all the same. That a debt is
settled at last is not part of it; `InvalidationsApplied` and `ResumesUnlessGivenUp` are.

### BindingTable

A record is slot, part, quantity and a check byte, the latter modelled as what it
was computed over. Every operation builds the next table (`With...`), `Propose`
starts the flash write, `SaveDone`/`SaveFailed` end it, `CommitRam` takes the table
over. The properties read what the code does not keep: `job` names the operation whose
flash write is running. `Crash` is possible between all of them. A boot ends in one of
two ways: `SettingsSet` loads the entry, or starts over if it is absent or damaged;
`ReadFailed` is `read_cb` returning an error, which leaves the blank table at table_seq 1
in use and the entry as it is. `unread` remembers that until something is saved or the
device goes down. `FlashDamage` stands for a snapshot whose length, magic, version or
CRC-16 is wrong for good. Settings/NVS is taken to keep the old or the new value of an
entry; that `settings_load` only logs the error of a handler is Zephyr's behaviour.

`TableContract` says the same without any of it: `Operate` changes a shelf of slots to
one of the results that the protocol names and advances its version, `Show` lets the
clients see it, `PowerLoss` hides it, `Damage` empties it. The refinement mapping takes
the shelf from the flash, not from RAM: an operation takes effect when `SaveDone` has
stored it, and `CommitRam` only shows it. So a crash between the two loses nothing, and
the contract's `Operate` requires that clients have seen the previous operation. A boot
that could not read the entry is the contract's `Overlook`: clients are shown an empty
shelf, an operation then replaces the stored one by what it makes of the empty one, and
a power cycle before any operation brings the stored one back. That is what the code
promises, no more; that it should promise more is finding 4.

### BindingControlPoint

`BindingCpWrite` runs the operation of `BindingTable` (an instance on the same
variables), `CommitTable` its flash write, `NotifyBinding` the status,
`NotifyTableInfo` the Table Info of a successful change. All run in the RX thread,
so `TableInfoRead` and `Connect` wait for them; `Disconnected` need not, and the answers
then go nowhere. Any notification may be
refused (`bt_gatt_notify`'s result is ignored) or lost with the link. Length errors and
unknown opcodes are one command, `Malformed`: all are answered alike.

The client is external: one command at a time, sent only with a table_seq confirmed
since the last OK, and Table Info read after connecting and when an answer stays out.
That read gives a `verdict`: table_seq is still the one the command was sent under, or
not. A command left unconfirmed may be sent again (`Resend`): after a reconnection, as
`docs/app-ble-retry-and-pairing.md:26` tells clients to, or, if `Careful`, only when
table_seq says that it changed nothing. Between two connections of the client other
paired phones may connect and send commands (`Other`); `foreign` counts their changes
while the client waits for an answer. `took`, `before`, `foreign` and `restarted` are
history: changes by this sending of the command, whether an earlier sending made one,
changes by others, and whether table_seq started over.

### ReadAll

`process` is split at its notification: `ProcessFrame` picks the frame, `Notify` or
`NotifyRefused` hands it over, `ProcessReturn` does the rest. `scheduled` and
`canceling` are the state of the delayable work item: `k_work_schedule` is ignored
while the item is pending, and refused while a cancelled handler still runs. A
record's content is the table_seq that last changed it, which is all that tearing
needs. `RestartInNotify` says whether the RX thread may handle a READ_ALL (or a new
connection) while the workqueue is inside `bt_gatt_notify`.

### LightControl

Two threads, `rx` and `worker`, each with a place (`pc`) and what it drives.
`Apply` takes a whole Light Command: mode, two masks with their colours, timeout.
`Frame` is the picture it asks for (B over A, OFF dark whatever its masks say),
`ResolvedTimeout` its seconds after default, maximum and the shorter cap on FX. `Show`
copies the picture and starts the transfer, or waits for the other's; `TransferEnd`
leaves in the strip what was sent, or what got into the shared buffer meanwhile, or, if
the driver fails, what was there before. Cooperative threads run from one wait to the
next (`MayRun`). The power gate follows `set_light_outputs`, which `drive_leds_command`
calls before the transfer and `drive_leds_off` after it. `Tick` lets a second pass for
the state's expiry (`remaining`) and for the work item (`delay`), anywhere, inside a
transfer too; `TimerExpires` puts the item into the queue some time after its delay.

### DeviceHealth

`main` walks through the boot (`EarlyInit` ... `AdvStart`), every step with the outcomes
its drivers may have, to the loop or to one of the endless error loops: "dead" before
the watchdog exists, "fatal" (`fatal_ble_error`) after. `SampleBattery` has the three
outcomes of `sample_battery`: no ADC in this build (100 %), one of its failures (the
fault bit, the old level), or a reading. A worker or RX sample waits for the ADC (`Ask`)
and ends in `FillAdvMsd` or `DeviceHealthRead`, so samples overlap. `Tick` counts
seconds since the watchdog was fed; it does not pass a moment at which `main` is due,
because the cooperative threads leave it the processor, nor stretch a boot beyond
`BootLimit`. `Reset` clears RAM, stops the watchdog and adds its cause to the register
(`Cause` holds only causes that do stop it: power, pin, watchdog, debugger), which only
`LoadResetReason` or a loss of power clears. `cleared`, `last` and `fresh` are history.

## 3. What the runs show

| run | bounds | shows |
|---|---|---|
| `lifecycle_bare` | 6 generations, 2 failed calls | without interrupt: no lost invalidation, the flag agrees with the radio, invalidations get applied and advertising resumes, unless a call fails |
| `lifecycle_peripheral` | 7 generations, 2 failed calls | with the interrupt and sessions inside a call: work flag and queue agree, one user of the payload buffer, clean means fresh; it implements `AdvertisingContract` |
| `binding_table` | 4 slots, 2 parts, 2 quantities, table_seq modulo 3 | sealed records, order kept by shifts, rotation by moves, reboot safety, table_seq, boots that cannot read the flash included; it implements `TableContract` |
| `table_read_error` | 2 slots, 1 part | finding 4 |
| `read_all` | 3 slots, 2 changes, 1 refused notification, 2 requests | order, end, exact snapshots, no leak between connections |
| `light_control` | 3 lit modes, 2 slots, 6 commands, timeouts of 2, 3 and 5 s | strip, report, power and timer agree; no light ends early or stays for ever |
| `control_point` | 3 slots, 1 part, table_seq modulo 4, 1 change by others per lost answer | true and durable answers, Table Info only after OK, table_seq settles lost answers, a careful client repeats nothing |
| `control_point_resend` | 2 slots, INSERT_AT only, one phone | finding 5 |
| `device_health` | all four builds, readings of -3, 3186 and 4300 mV, boots of up to 4 s | battery level, reset reason, watchdog |

Why the bounds suffice. Generations and table_seq are only compared for equality and
advanced by one; six or seven generations let a report fall into every gap of several
consecutive attempts, and two failed calls a retry fail again. Four slots are the fewest
with a block of two moved in both directions past another record, a shift that stops at
an inner gap and one that runs to the end; three slots do for the control point, where
the table is full, has a gap, or shifts. The moduli are small so that wrapping occurs;
`MaxForeign` is the most changes by others that a number modulo 4 can tell from none,
and one is enough to make the verdict ambiguous. `PartSymmetry` is sound because no
operation does more with parts than compare them and all properties of the run are
safety properties. The finding runs need only the smallest table. Two changes and two
requests put a change before, inside and after a restarted stream. The lights' state is
finite without a bound on commands; the timeouts keep their order (FX 2, default 3,
maximum 5 for 10, 30 and 300 s), and the commands ask for the default, for more than the
maximum, for more and for less than the FX cap, and name a slot that does not exist. The
three readings are one below zero, one at which rounding and the low-battery flag meet,
and one above full; 4 s of boot are half of the watchdog's 8. The proofs remove these
bounds where they exist.

Fairness. The scheduler runs threads that are ready, so the steps of the workqueue,
of the host's callbacks, of a thread that has flagged work and of a handler that
owes a report are weakly fair, and so are kernel timers and the clock. Nothing is
assumed of clients, radio, NFC readers or flash. `StreamEnds` counts on a subscribed
client's notifications being refused only finitely often (`MaxErrors`): a pacer that is
refused for ever retries for ever. `LightTimesOut` speaks of the time after the last
command, since each command may renew the light. `DeviceHealth` is fair to the clock
and the hardware watchdog only: `FatalGetsReset` must not rest on any thread running.
`CHECK_DEADLOCK FALSE` appears where the firmware may rest: no client, no dirty
payload, lights off.

### Where code and documents disagree

Each of these is a run that TLC ends with a counterexample.

1. `lifecycle_start_window`: `start` samples the generation, applies, then sets
   `ready`. A report in between is marked dirty but not scheduled (`ready` was still
   false), and `start`, unlike `process`, does not look again. The lifecycle design
   (line 243) says that pending invalidations are processed after BLE becomes
   ready. The consequence is an old payload until the next report.
2. `lifecycle_restart_fault`: when `apply_advertising` fails in `process`, nothing
   tries again. One failed restart after a disconnection leaves the rack
   invisible; the Android guide (line 48) says the device resumes advertising.
3. `light_power_race`: the timeout handler sets OFF, drives the strip dark and then
   cuts the power. A command applied during that transfer switches the power on
   and is lit by its state, status and advertising bit, but the handler then cuts
   its power. `light_control` shows what still holds: the strip was sent the right
   picture (without power it shows nothing) and the light still times out.
4. `table_read_error`: when the settings backend fails to read the entry at boot,
   `binding_table_settings_set` returns the error, the boot goes on, and clients are
   served a blank table at table_seq 1 over the good one in flash; the first write then
   replaces that one. `docs/pending-verification-plan.md:30` and `docs/milestones.md:35`
   say that the records are read back after a restart and that table_seq does not go back.
5. `control_point_resend`: the retry guide (line 26) tells clients to send unconfirmed
   commands again after connecting again. The dispatcher recognises no repetition, so an
   INSERT_AT (or REMOVE_AT, MOVE_BLOCK) whose answer was lost is carried out twice.
   `control_point`, with the same losses, shows the way out: a client that reads Table
   Info first and sends again only under an unchanged table_seq repeats nothing.

Starting over. After a damaged snapshot, and after a boot that could not read it,
table_seq counts from 1 again. From then on it may equal a number that a client
remembers for other records, and such a client sees no change. `SeqTellsChange` names
both cases, and `SeqSettlesUnconfirmed` and `RetryActsOnce` say nothing of a command
during which one of them happened (`restarted`).

Observed without a run. `MOVE_BLOCK` with `from = to` is answered OK and announced by
Table Info, with table_seq unchanged, where `docs/milestones.md:13` says that it
increments after write-class operations; `AnswerIsTrue` exempts such a move by name. A
wrong check byte is answered `0x01`, never `0x04`: the dispatcher design (line 132)
expects `0x04`, while the contract (line 93) and the retry guide (line 22), which also
know `0x04`, list the CRC under `0x01` too. `remaining_s` is 0 from `expires_at_ms` on, while the
work item runs a little later, so Light Status may say 0
seconds of a mode that is still lit, where `docs/app-ble-retry-and-pairing.md:37` expects
more than 0. A negative ADC reading, cast to 16 bits, is shown as a full battery;
`ShownLevelIsTrue` exempts it by name. `READ_ALL` with a restart inside a notification skips slot 1
(`RestartInNotify = TRUE` makes `StreamInOrder` fail). Whether Zephyr lets the RX
thread run there depends on the build, so this is recorded as a hazard. The
re-scheduling at the end of `process` and `work_pending` overlap: whoever dirties
the payload while the worker applies it schedules the work anyway.

## 4. What is proved

For every value of the constants, from the named assumptions on constants only:

| theorem | statement | assumption beyond the constants |
|---|---|---|
| `BleLifecycle_proofs!TypeCorrect` | types | - |
| `BleLifecycle_proofs!PendingMatches` | `PendingMatchesQueue` | - |
| `BleLifecycle_proofs!BufferExclusive` | `AdvBufferExclusive` | - |
| `BleLifecycle_proofs!CleanIsFresh` | `CleanMeansFresh` | - |
| `BleLifecycle_proofs!FlagIsTrue` | `FlagTruth` | `~SessionInWindow` |
| `BleLifecycle_proofs!NoInvalidationLost` | `NoLostInvalidation` | `~SessionInWindow`, `~HasNfc` |
| `BleLifecycleContract_proofs!ContractKept` | `KeepsContract`: `BleLifecycle` implements `AdvertisingContract` | - |
| `BleLifecycleContract_proofs!PromiseKept` | `Contract!Promise`: without a debt, a silent rack has a client and a stale one a report coming | - |
| `BindingTable_proofs!TypeCorrect` | types; table_seq is never 0 | - |
| `BindingTable_proofs!RecordsSealed` | `SlotsSealed` | - |
| `BindingTable_proofs!RebootSafe` | `RebootKeepsTable`, a failed read included | - |
| `BindingTable_proofs!SeqReveals` | `SeqTellsChange`, a failed read included | - |
| `BindingTable_proofs!ShiftsKeepOrder` | `ShiftKeepsOrder` | - |
| `BindingTable_proofs!MoveRotates` | `MoveIsRotation` | - |
| `BindingTableContract_proofs!ContractKept` | `KeepsContract`: `BindingTable` implements `TableContract` | - |
| `BindingControlPoint_proofs!ControlPointTypeCorrect` | types | - |
| `BindingControlPoint_proofs!AnswerTrue` | `AnswerIsTrue` | - |
| `BindingControlPoint_proofs!InfoAfterOk` | `InfoOnlyAfterOk` | - |
| `BindingControlPoint_proofs!KnownCurrent` | `KnownIsCurrent` | - |
| `BindingControlPoint_proofs!SeqSettles` | `SeqSettlesUnconfirmed` | - |
| `BindingControlPoint_proofs!RetryOnce` | `RetryActsOnce` | `Careful`: the client compares table_seq first |
| `BindingControlPoint_proofs!DrivesTable` | `Table!Spec`: the dispatcher takes only steps of `BindingTable` | - |
| `BindingControlPoint_proofs!TableServed` | `Table!SlotsSealed`, `RebootKeepsTable`, `ShiftKeepsOrder`, `MoveIsRotation` | - |
| `BindingControlPoint_proofs!ContractServed` | `Table!KeepsContract`: its clients see `TableContract` | - |
| `ReadAll_proofs!TypeCorrect` | types | - |
| `ReadAll_proofs!NeverStalls` | `PacerNeverStalls` | `RestartInNotify = FALSE` |
| `ReadAll_proofs!InOrder` | `StreamInOrder` | the same |
| `ReadAll_proofs!SnapshotExact` | `SnapshotIfSeqUnchanged` | the same |
| `ReadAll_proofs!NoneUnrequested` | `NoUnrequestedFrames` | the same |
| `LightControl_proofs!TypeCorrect` | types | - |
| `LightControl_proofs!PowerSafe` | `PowerOnlyWhileLit` | - |
| `LightControl_proofs!StripIsCommand` | `StripShowsCommand` | - |
| `LightControl_proofs!NeverEarly` | `NoEarlyOff` | - |
| `LightControl_proofs!OwnTimer` | `LitHasOwnTimer` | - |
| `LightControl_proofs!ReportTrue` | `ReportedIsMode` | - |
| `DeviceHealth_proofs!TypeCorrect` | types | - |
| `DeviceHealth_proofs!LevelTrue` | `ShownLevelIsTrue` | - |
| `DeviceHealth_proofs!ReasonNamed` | `ReasonNamesLastReset` | - |
| `DeviceHealth_proofs!LivingSpared` | `WatchdogSparesTheLiving` | - |

The bounds (`MaxGen`, `MaxChanges`, ...) are ordinary constants, so the results hold for
each value of them. The proofs use one: `MaxForeign + 2 < SeqMod`, that fewer changes by
other phones come between a command and the read that judges it than table_seq has
numbers (2^32 - 1 in the code). The assumptions on constants are those the code fixes:
there is a slot, zero is a quantity and a blank record holds no part (`TableAssumption`,
repeated by `ControlPointAssumption`), table_seq has at least two values (`SeqMod > 2`,
the code has 2^32 - 1), a boot is shorter than the watchdog (`BootLimit < Timeout`,
about a second against eight), every modelled reset stops the watchdog, a reading fits
16 bits once converted.

The arguments:

- Lifecycle. `WorkInv`: exactly one of "flagged", "queued" and "taken" is true when
  `work_pending` is, and only `ready` lets the worker apply, which `start` sets after
  its own attempt; this gives the exclusive buffer. `GenInv`: a sampled or applied
  generation never overtakes the counter. `FreshInv`: stale data in the buffer or on
  the air is either unreported or has moved the counter past the target. `FlagInv`
  follows the radio through both calls; `BareInv` adds that a dirty payload has an
  attempt coming.
- Advertising contract. `AirInv`: an attempt that succeeded with the present generation
  has something on the air or a connection that ended it, and the air never shows newer
  data than the buffer. With it each lock section maps to one step of the contract:
  the one that clears the debt finds it justified, `start` and `process` alike.
- Table. `IInv`: tables in RAM, in the proposal and in flash are sealed, and the
  flash holds the old image while saving, the new one when saved; if the boot could not
  read it, RAM is blank at table_seq 1 instead until something is saved. Each operation has
  a lemma that its proposal is sealed. Rotation is arithmetic on the concatenation
  of three slices (`RestFacts`, `MovedFacts`). That a shift keeps the order is shown by
  naming where each bound record goes (`InsertKeepsRecords`, `RemoveKeepsRecords`): an
  increasing map from the old bound slots onto the new ones, one slot up between the
  inserted slot and the gap, one slot down behind the removed one.
- READ_ALL. `WorkInv` ties the pacer's flag to the work item and the request,
  `PosInv` ties the client's count to `next_slot`, `SnapInv` says that the prefix
  received agrees with the table as long as table_seq has not moved.
- Contract. The proposal in a flash write is one of the contract's results on the shelf
  in RAM, which is what clients were shown and, unless the boot overlooked it, the shelf
  in flash until the write ends (`ContractInv`). One lemma
  per operation shows that the record-level table, renumbered and resealed, has the
  contents the contract names; then every step is one of the contract's or a stutter.
- Control point. `StageInv` and `OwnInv` follow a command through its flash write and
  say when `took` has become 1; `AirInv` lists the four things that can be on the air;
  `SeqInv` relates what the client knows to `Stored`, the table_seq that clients see or
  will see after a crash: while an answer is outstanding it is `took + foreign` numbers
  `Ahead` of the known one, until it starts over. RAM alone would not do, for it is
  behind between the write and the commit, and gone after a crash. `AheadFacts`: fewer
  changes than there are numbers never lead back to the same one, so an unchanged number
  means that neither the client's command nor anybody else's took effect, which is what
  lets a careful client send it again. `TableInv` is all that these need of
  `BindingTable`.
- Composition. Every step of the control point is a step of its table or leaves it alone
  (`TableStep`: each opcode's frame is one that `BindingTable` admits), so the theorems
  about `BindingTable` are instantiated (`TableProofs`) and carried over; the `Same...`
  lemmas say that the two instances of its operators agree.
- Lights. A pending timeout finds both threads idle (`Timer`), hence the handler never
  waits for the strip, and a command that overtakes it waits until the handler has
  returned (`Threads`); so the cancelled item is free again when
  `light_control_apply` schedules it, and its delay is never behind the state's expiry,
  which is `NoEarlyOff`.
- Device health. `CounterInv`: the counter runs exactly when the watchdog is enabled,
  stays within `BootLimit` until the loop, and in the loop the time since the last feed
  and the rest of the sleep stay below the timeout, unless a refused feed has set the
  fault bit. `RegisterInv`: until it is read, the register holds the last reset, alone
  if it had been cleared. The level is arithmetic on one sample (`PercentNearest`).

Only model-checked: the liveness properties `InvalidationsApplied`,
`ResumesUnlessGivenUp`, `StreamEnds`, `LightTimesOut` and `FatalGetsReset` (fairness is
out of the prover's reach). Every other property of a passing run is a theorem.

## 5. Not modelled

- Byte layouts, CRC arithmetic, the checks of reserved bits.
- Pairing and encryption: a write that is not encrypted does not reach the handler.
- Status LEDs, logging; devicetree and Kconfig; the Python tools.
- `vbrk_light_state_tick` and `dispatch_read_all`, which the firmware does not reach.
- Resets that leave the watchdog running (a soft reset, a CPU lockup): the firmware
  asks for none, and `HealthAssumption` excludes them.
- 32-bit overflow of the generations, which would take 2^32 reports between two
  attempts; times finer than a second.
- Scheduling of `main` by the cooperative threads: that they leave it the processor
  within its second is a premise of `DeviceHealth`, not a result.
- The 50 ms debounce of the NFC interrupt: `BleLifecycle` lets edges come at will.

## 6. Plan

Done: all modules above with their runs, abstract specifications of the table and of
advertising with their refinements, and proofs of every safety property of every
component; the table's also for the control point composed with it.

1. A contract for READ_ALL (a request is answered by one ascending stream, cut only by
   the end of the connection or a new request) that `ReadAll` implements.
2. `Payloads`: pure operators for the bytes of the advertising payload (16-bit
   table_seq) and of the records, and the CRCs, against reference definitions.
3. A composition of lights, table and lifecycle, so that `ReportedIsMode` and
   `CleanMeansFresh` become one statement about what a scanner sees.
