# Verification of the Felicity bank aggregator

`aggregator/` is a daemon for a Victron GX device. It reads two 4S battery
packs over two USB/RS485 adapters, treats them as one 8S bank, and publishes
the bank on D-Bus. This directory holds TLA+ models of it, the TLC
configurations that check them, and TLAPS proofs about them.

## Inventory

| part | state it keeps | operations | what is hard about it | what makes it correct |
|---|---|---|---|---|
| `felicity_reader.py` | none between calls; the serial port during one | `read_pack()`: nine register reads, each a request and a wait with a deadline | replies may be late, lost, split by the reset of the input buffer, or damaged, and do not name their register | no reply is taken for another register; no partial reading; a silent pack never looks present; every call ends; a sentinel is no value |
| `discovery.py` | `pack_mapping.json` (serial to slot); the status of each slot, handed back by the caller | `scan()` / `rescan()`: refresh claimed slots, probe other ports, assign slots, optional padding with simulated packs | a scan is seconds of blocking reads; it can be killed anywhere; device nodes are renumbered; the file may fail | a pack keeps its slot for ever; a slot shows only its own pack; presence follows the failure count; simulation never masks a pack |
| `params.py` | none | `build_bank_params()` | guards compare sums or extremes over the packs present; sentinels; half a string; ids counted after filtering | charging is refused only for a reason, and always when the bank is full; alarms are not raised by a missing pack or an unpopulated register; limits fit every pack; ids name registers |
| `history.py` | `history.json`; `_last_saved_monotonic` | load, update (coulomb counter, cycle counter with hysteresis), throttled and forced save | two clocks, of which one can be set and the other restarts; kills; failed reads and writes | no charge or cycle counted twice; bounded loss by a kill, none by SIGTERM; lifetime counters never go back |
| `dbus-felicity-bank.py` | `packs`, `history_state` | constructor, `_cycle` every 2 s, `_on_redetect`, `_on_request_id`, shutdown | one GLib thread: timer, D-Bus calls and idle callbacks have priorities, and callbacks may be slow | what is published is what was scanned; every press of `/Redetect` is reset |
| `dbusservice.py` | the published values | `_add_paths`, `update`, `reset_redetect`, two write callbacks | the value written by a client is stored only after the callback returns | see above |
| `ext/velib_python/vedbus.py` | value of each D-Bus object; in a reader, the cached value of each importer | `SetValue`, `GetValue`, `local_set_value`, with-blocks; `VeDbusItemImport`, `set_value`, signal handlers | signals, replies and calls cross; changes of a with-block are one signal, others are single; the service may be killed with all of them under way | a reader that has caught up shows what the service has; it never shows half of a bank |
| `ext/velib_python/` others, `service/run`, `simtest/` | - | one settings lookup; restart under daemontools; tests | - | - |

The daemon calls `discovery.scan` (which calls `read_pack` per port), then
`build_bank_params`, `update_history`, `save_history` and `svc.update`, all in
the main thread. D-Bus clients call `SetValue`. Everything that survives the
process is in the two JSON files. The hazards this gives rise to are listed, each at its line,
in `PROJECT.json`.

## Modules

**`ModbusRead`** (with `MCModbusRead`): one port and one pack. `call` counts
calls of `read_pack()`, `cur` is the register it waits for, `resp` the input
buffer since its last reset; `pending` and `wire` are the pack and the line.
`Open`, `Accept` and `Fail` are the reader; `Answer`, `AnswerNoise`, `Ignore`
and `Arrive` are outside. What a register's value was a reply to is kept in
`got`, which is what the properties are about.

**`PackDirectory`**: what discovery promises, in two variables: an append-only
directory of slots, and a display that shows a pack only in its slot.

**`Discovery`** (with `MCDiscovery`): `scan()` with one step per blocking read:
`BeginScan`, `RefreshOk`/`RefreshFail` per claimed slot in order, `BeginProbe`,
`ProbeOk`/`ProbeFail`/`ProbeBankFull` per candidate port in order, `EndScan`.
`file` is `pack_mapping.json`, `known` is `self.packs`, `result` and `mapping`
are the scan's own copies. `Restart` may happen between any two steps and may
renumber ports, as a reboot does. `Hotplug` adds moving adapters under the live
daemon, `MappingFaults` failing reads and writes of the file, `Simulate` the
padding switch, which is shipped off.

**`PackReading`**: operators for what `read_pack()` makes of the words it has
read (`Block` to `Reading`): sentinels, signs, fault bits, FET bits, the serial
as joined decimal numbers; and for the simulated pack. Values keep the unit of
their register, so that no floating point is needed.

**`BankParams`** (extends `PackReading`): `build_bank_params()` as operators
over the readings of two slots: sums, averages and minima, cell and sensor ids,
the guard, all eleven alarms, the whole published record (`Bank`) and the entry
of each pack (`PackEntry`). The function has no state, so its inputs only
appear and disappear.

**`Acquisition`** (with `MCAcquisition`; extends `BankParams`): a slot's reading
is decoded from a block of registers, or simulated. `registers` remembers the
block, so that the properties can compare what is published with what the
registers said. It implements `BankParams` (a theorem).

**`History`** (with `MCHistory`): `hist` is `history_state`, `file` is
`history.json`. `Cycle` and `Start` (the constructor with its first cycle) are
`update_history` followed by `save_history`; `Shutdown` is the forced save;
`Crash`, `Reboot`, `SetClock` and `Tick` are the environment. Charge is counted
in units per tick; energy, voltage extremes and the last discharge are left
out, since they scale, bound or copy what is there. Four history variables
(`elapsed`, `fulls`, `dipped`, `leaps`) say what really happened and three
(`killed`, `unread`, `unwritten`) what went wrong.

**`Daemon`**: the main loop. `timerDue`, `inbox` and `idle` are the three
sources of callbacks; `packs` is the last scan (the SoC of each pack),
`history` the coulomb counter and the arming of the full-charge detection,
`bus` the published values. `Poll` is `_cycle()`; `HandleSame`, `HandleClear`
and `HandleRedetect` are the three ways a `SetValue` of `/Redetect` can go, in
the order of `vedbus.py`: callback first, value stored after it; `HandleRequest`
is the selector, checked as `int(value)` but stored as written; `ResetRedetect`
is the idle callback.

**`BusMirror`** (with `MCBusMirror`): the other side of the bus. The service is
registered, publishes its first cycle, then runs; `update()` writes inside a
with-block and sends one `ItemsChanged`, `reset_redetect()` and `SetValue` send
`PropertiesChanged`. The reader imports paths one by one: `Import` is the
constructor with its `GetValue`, `Press` is `set_value()` with its read-back,
`Dispatch` the two signal handlers. While the reader waits for a reply, signals
queue in `wire`, and the reply overtakes them; calls time out (`CallFails`),
other clients write, the daemon is killed with everything under way, and the
reader then drops its importers, as `vedbus.py` tells its users to do.

`DiscoveryProofs`, `HistoryProofs`, `DaemonProofs`, `BankParamsProofs`,
`ReadingProofs`, `AcquisitionProofs`, `BusMirrorProofs` and `ModbusProofs` hold
the theorems; `ReadingProofs` is about the operators of `PackReading`, for
`AcquisitionProofs` to use.
Operators marked `Variant` are plausible mistakes in the code next to which
they stand; `PROJECT.json` pairs each with the property that detects it.

## Runs

| run | expected | what it shows |
|---|---|---|
| `modbus` | pass | six calls against a pack that answers late, never or with noise: `RightRegister`, `ReadingShowsLife`, `ReadEnds` |
| `discovery` | pass | the shipped setting: packs keep their slots through failures, kills and reboots (`SeatsMatchFile`, `NeverReassigned`), discovery implements `PackDirectory`, an answering pack is shown again and a silent one leaves |
| `discovery_faults` | pass | what still holds with padding, moved adapters and file faults: one pack per slot, presence follows failures, present slots have their own data, simulation masks nothing |
| `history` | pass | cycles are not invented or lost, charge is not counted twice, what a kill loses is bounded, lifetime counters are kept |
| `acquisition` | pass | what the bank makes of registers at every threshold, unpopulated or negative: charging is refused for a populated cause and always at the ceiling; imbalance and fault alarms have a pack of their own; no pack is offered more current than its registers allow (`LimitsFitEveryPack`) and its voltage limits are in order; ids and serials name what they should, under the conditions the properties state; losing a pack raises no alarm |
| `daemon` | pass | `/Redetect` always has a reset coming and falls back to 0 if the loop is ever idle; the bus shows the last scan; the counter is shown again after a rescan; a full charge is every present pack's |
| `bus` | pass | a reader that has handled everything shows exactly what the service has, never half of a bank, and a value that stays is shown in the end |
| `discovery_replug` | violated: `SeatsMatchFile` | adapters renumbered under the live daemon: a claimed slot is read on its old port and shows the other pack, against `discovery.py:13` |
| `discovery_forget` | violated: `NeverReassigned` | one failed read of the mapping file, then a new pack overwrites it, against `discovery.py:15` |
| `daemon_starved` | violated: `RedetectNeverStuck` | if every cycle outlasts the poll interval, the idle callback never runs and `/Redetect` stays set, against `dbusservice.py:391-393`. Three ports that do not answer, a second each, are enough |
| `daemon_consumed` | violated: `ConsumedIsCounted` | a rescan publishes the SoC approximation over the counter, against `history.py:293-296` |
| `acquisition_unread` | violated: `BlockIsRead` | a total voltage that reads as the sentinel is decoded as 327.67 V, and a limit that does leaves the sum of limits but not its pack's voltage the sum of voltages: healthy packs are refused a charge, against `params.py:348-351` |

Some properties state conditions, and these are what the code needs and does
not check: `BlockIsReadIfVoltagesAre` supposes voltages and limits to be
populated; the third part of `LimitsFitEveryPack` (`VoltageLimitsInOrder`) both
voltage limits of every pack to be populated and in order; `IdsNameRegisters`
that sentinels come last in the row of cells; and `SerialNamesPack` allows equal
serials where numbers of different length meet (1, 23 and 12, 3 are both "123").
The other two parts of `LimitsFitEveryPack` suppose nothing: they compare the
charge and the discharge current of the bank with the registers of every pack.

### Bounds, and why they are enough

* Discovery: two slots as in the code, and three packs, so that one is left
  over; three ports so that a pack can move to a free one. `FailThreshold` is
  the code's 3 and `fail_count` saturates there (`FailCap`), since it is only
  compared with it. With every fault on, two ports keep the space small. Packs
  are interchangeable, hence symmetry in `discovery_faults`; ports are not,
  since scans visit them in order, and `discovery`, with its liveness, uses none.
  A port without a pack may or may not be found by the glob (`Globs`): it is an
  adapter with nothing behind it, which is probed, or no device node.
* History: capacity 2, currents of -1 and 2 (`MaxCurrent` 2), five ticks, one clock change of
  -2 or +4 against `MaxDt` 2: both a step back and one beyond what is integrated
  occur, as do kills on both sides of a save (`SaveInterval` 2) and a full
  charge, a partial discharge and a second full charge.
* Daemon: two calls waiting, or resets and calls together, so that a
  press meets a pending reset or another press; SoC 0 to 1, the full and the
  empty pack; writes of 0, 1 and None to `/Redetect`, and of 1, 3, a fraction and
  a text to the selector.
* Acquisition: every pair of blocks, each of which differs from a healthy one in
  its cells, in what decides a charge (voltage, limit, temperatures), in its
  SoC, in its bit registers, in its pair of current limits (`Currents`, all
  combinations, 0 and the sentinel among them), in its pair of voltage limits
  (`MinVs`, `MaxVs`, in order or not) or in its serial, with values at each threshold, at
  the sentinel and at the sign bit. Two cells per row, three where a sentinel
  leads or follows; two numbers per serial. The simulated packs have the
  extremes of the jitter of every cell.
* BusMirror: the paths are `/Redetect`, one that becomes None with the pack, one
  that does not, and a cell that is not written when the pack is gone. Two calls
  may wait, and new work is begun with at most one signal waiting: a rescan in
  between sends three.
* ModbusRead: the nine real register counts; `Held`, the number of requests the
  pack and the line can hold, is 3. That is an assumption (`Recognisable`), not
  only a bound: a reply is recognised by its length alone, so the registers that
  late replies can reach, the first `Held + 1`, must have different counts. With
  four requests they do not, and over seven calls `RightRegister` then fails, a
  temperature being taken for a SoC. A Modbus slave serves one request at a
  time, so 3 (one in work, one in its buffer, one reply under way) is generous.

`CHECK_DEADLOCK FALSE` in `modbus` only: calls are bounded there, and the model
stops after the last one. `History` stops at its last tick only in that clocks
stand still; starts and kills go on or the process can be rebooted.

### Fairness

* `Discovery`: weak fairness of the scan as a whole. The timer comes back for
  ever and each read has a deadline. Nothing is assumed of packs: the liveness
  properties name the behaviour of the pack they are about.
* `Daemon`: weak fairness of the timer, its callback and the dispatch of waiting
  calls, all of one priority, which GLib serves in turn. Strong fairness of the
  idle callback: if the loop is idle again and again it is dispatched in such an
  iteration. It does not give idleness itself: `RedetectResets` supposes it and
  `daemon_starved` shows that the code does not provide it.
* `BusMirror`: weak fairness of the service's start, first cycle and answers,
  since daemontools restarts it and its loop serves every call, and of the reader
  taking a reply that is there; strong fairness of `Dispatch`, because the
  reader's own calls interrupt the handling of signals, which its main loop
  takes up again after each. Nothing is assumed of scans, clients or
  kills; a call may fail or not.
* `ModbusRead`: weak fairness of the reader, because of its deadline; none of
  the pack. The deadline itself (`felicity_reader.py:208`) is thereby assumed:
  `ReadEnds` shows that nothing else can keep a call from ending.

## What is proved

Every safety invariant and every action property of the passing runs is a
theorem, and so is the refinement of `PackDirectory`: for any number of packs,
slots, ports, paths and registers, rows of any length, any readings,
thresholds, capacities and queue lengths, from the named assumptions on the
constants.

* `DiscoveryProofs`: types (`TypeInv`, with what is known of each phase);
  `MappingInjective`, since a new assignment takes an unused slot and a failed
  write leaves the old file; `NeverReassigned` for a working file, where the
  scan's copy is the file or is out of scope; `SeatsMatchFile` without hot
  re-plugging and file faults, by `SeatInv`, which says it of the working copy
  too together with what the claimed port leads to: without that part a refresh
  could change the pack; `PresenceTracksFailures`, `PresentHasData` and
  `SimulationNeverMasks` by `Shape`, one statement about each slot and phase of
  the scan; and that every step implements a step or a stutter of
  `PackDirectory`.
* `HistoryProofs`: types with the clamps; `CyclesNotInvented` by `CycleInv`. A
  count may lag the truth by the full charge that is still to be counted, so
  the bound alone is not inductive: when armed and no dip was seen since the
  last full charge, the counter is at least one behind, and this holds of the
  file as well, from which an older state can come back. `LifetimeCountersKept`
  by `AheadInv` (the running history is never behind the file); `NoCycleLost` by
  `CountInv`; `ChargeNotInvented` by `PaceInv`, which bounds the total by the
  time of the last update and not by the present; `LossBounded` by `LossInv`:
  while the daemon is up, what is not saved is bounded by the age of the last
  save, and that age by the throttle. Both bounds are a time multiplied by
  `MaxCurrent`, whatever that is, so the proofs use only that `Charge` is
  additive and grows.
* `DaemonProofs`: types, `ResetScheduled` and `BusIsScan`, inductive together,
  and `FullChargeIsEveryPacks`: the bank is full only if its least full pack is.
* `BankParamsProofs`: types of the aggregates; `ChargeBlockHasCulprit`, by the
  lemma that a series sum at the summed limit puts some pack at its own, and
  `FullBankBlocks`, by its converse; `ImbalanceBelongsToOnePack`; and
  `DropRaisesNoAlarm`, alarm by alarm: the worst spread, the faults and the SoC
  of fewer packs are no worse, and the string's voltage is then unknown.
* `ReadingProofs`: what the filters and the joined serial compute, for rows of
  any length, by induction over the row. The induction theorems of the library
  take an operator, which no prover here can instantiate; `InductionUpTo` takes a
  set instead and follows from the least-number principle, which the library has
  for relations (`WFMin`). With it: the populated values of a row are values of
  the row and, if sentinels come last, at their own places; the digits of a
  number determine it; so do joined rows of numbers with the same lengths.
  `ReadableIsReading`: whatever the registers are, one populated cell makes them
  a well-formed reading.
* `AcquisitionProofs`: `Acquisition` implements `BankParams`, so that what is
  proved there holds of registers too; each slot shows what its registers decode
  to (`AcqTypeOK`), and from it and `ReadingProofs` the properties that compare
  what is published with registers: `FaultAlarmsAreRead`, `UnreadSocHidesNoAlarm`,
  `LimitsFitEveryPack` (for both currents by one lemma on the least of the values
  reported, for voltages by one on their sums), `BlockIsReadIfVoltagesAre`, `SerialNamesPack` and
  `IdsNameRegisters`. Two of them use `FixedByCode`: `SerialNamesPack` that
  serials are read from as many registers of every pack, and
  `BlockIsReadIfVoltagesAre` that a simulated pack, jitter included, forbids no
  charge.
* `BusMirrorProofs`: types and `MirrorExact`. A cache may lag, so the invariant
  (`MirrorInv`) is about what waits: the last signal that names a path gives it
  its present value (`WireInv`), and a path no waiting signal names is already
  shown with it (`CacheInv`), or is about to be by the reply that is
  there (`ReplyInv`).
  `WholeBank` speaks of every moment, not only of those when nothing waits, and
  signals name single paths or whole banks: so what a reader will show after
  each signal that waits must be known to be whole as well. `SteadyInv` says
  that there is a history of whole banks from what the reader shows to what the
  service has, one step per waiting signal (`AlwaysWhole`), for a reader that is
  `steady`: a cycle adds one whole bank at its end, a handled signal removes one
  at its front, and reset, press and read-back touch `/Redetect` only, which no
  bank contains.
* `ModbusProofs`: types; `RightRegister` and `ReadingShowsLife` for every number
  of requests with which the counts are `Recognisable`. The requests that are
  still alive arrive in the order in which they were made, and there are at most
  `Held`. A call whose reads are answered by older requests (`Behind`) uses one
  up with each register (`Debt`), so within the first `Held + 1` registers, where
  counts tell them apart, it ends or is answered by its own (`InTouch`); and
  behind a request for the first register there is none for a far one (`Near`),
  so that what a later call meets is within them too (`LateInv`).

Only model-checked: liveness, which needs fairness and ENABLED
(`AnsweringPackRejoins`, `SilentPackLeaves`, `RedetectResets`,
`CounterShownAgain`, `ReadEnds`, `MirrorCatchesUp`), and the five violations,
each of which is one behaviour.

## What is not modelled

* Arithmetic without control: energy and voltage extremes of the history, the
  firmware string, rounding. Values are integers in the units of the registers,
  while the code divides them first and compares floating-point sums: at exactly
  a threshold (a spread of 0.1 V, say) the code may decide either way.
* `scan()`'s exception path: nothing it calls raises. Mapping files edited by
  hand.
* The log of FET observations, the device-instance setting, the device-info
  paths; of `vedbus`, `GetItems` and the tree export, texts, descriptions, type
  coercion and removal of paths, which the daemon does not use.
* A signal is handed to the bus and matched with its readers in one step, and
  what a reader shows between the death of the service and the bus telling it of
  that is not followed.
* Tests, service scripts and the vendored helpers. A restart is an action.

## Plan

Done: all modules of the plan, their runs and the theorems above. Left:

1. A composition of `Discovery`'s slots with `Acquisition`, so that the
   readings carried through the grace period reach the guard, and of `Daemon`
   with `History`, for what is published across restarts.
2. With them, the theorems that carry over: that what is proved of `BankParams`
   holds of the slots `Discovery` shows.
3. `GetItems`, should a reader of the service use it.
