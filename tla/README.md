# TLA+ specifications of the Aquagem pump integration

These modules specify the control logic of the Home Assistant integration
`custom_components/aquagem_isaver`: what it does on the RS485 bus, when, in which
order, and what survives concurrency, cancellation, failures and restarts. TLC checks
them on small instances; TLAPS proves the central results for every value of the
constants. Source paths below are relative to `src/custom_components/aquagem_isaver/`.

Run, in this directory:

    tlc -workers 2 -config Rs485Bus.cfg Rs485Bus.tla      # any cfg with its module
    tlapm Coordinator_proofs.tla                          # any *_proofs module

## 1. The system

The integration polls a pump over RS485, directly (serial) or through a transparent
TCP gateway, in one of two protocols: the proprietary iSaver C3/D0 frames or Modbus.
Each pump is a config entry with a coordinator, a client and a transport of its own;
transports of the same endpoint share a process-wide bus manager. All code runs on one
asyncio event loop, so concurrency is interleaving at suspension points (`await`), and a
cancellation arrives as an exception at one.

| Component | State it keeps | Operations | Talks to | Model |
|---|---|---|---|---|
| `Rs485BusManager` (transport.py) | deque of futures, `last_exchange_end` | acquire, release | every transport of the endpoint | `Rs485Bus`, `FifoLock` |
| `SerialTransport` | stream, shared bus | exchange, send, test, close | bus manager, serial driver | `SerialPort` |
| `TcpTransport` | shared bus | the same, a connection each | bus manager | bus part in `Rs485Bus` |
| `AquagemClient` (protocol.py) | protocol, unit, lock, extended-register support | read, write, detect, validate | transport | lock and exchanges in `Coordinator`, extended registers in `FaultMap`; decoding and the scan of units planned |
| `AquagemCoordinator` (coordinator.py) | published data, debounce, quiet window, pending target, interval | refresh, set speed, two settings | client, tracker, Home Assistant's timer | `Coordinator` |
| `AquagemRuntimeTracker` (runtime.py) | total, running, last tick, next save, the file | update, set, shutdown, load | coordinator, options flow, `Store` | `RuntimeTracker` |
| Config flow and identity (config_flow.py, `__init__.py`) | entries' data and unique ids, flows in progress | add (TCP, manual, serial), reconfigure, set up | Home Assistant's flow manager | `ConfigFlow` |
| Setup, unload, migration (`__init__.py`) | `hass.data`, the listener for options | setup, unload, reload | all of the above | parts in `PumpEntry`, `RuntimeTracker`, `ConfigFlow`, `FaultMap` |
| Fault bits (binary_sensor.py) | one-shot reload flag, V1.5 memory, registered entities | choose the fault map, remove entities, reload | coordinator, client, entity registry | `FaultMap` |
| Fan, speed number, options (fan.py, number.py, config_flow.py) | the number's limits, the entry's options | on, off, percentage, preset, number; the settings form | coordinator, Home Assistant's percentages | `Speeds`, `PumpEntry` |
| Sensors, switch, entity base | display | | coordinator | calls in `Coordinator`, the panel sensor in `PumpEntry` |
| tools/dm15_full_probe.py | its place in the test sequence | read, test by hand, command, stop | a pump, an operator | `FullProbe` |
| the other tools | none | read once and print, CI checks | | not modelled |

What is hard here, and what makes each part correct:

- **Bus manager.** A waiter may be cancelled before or after its future is completed;
  cancelled futures linger in the deque until their tasks run. Correct: one owner, no
  lost wakeup, arrival order, no starvation.
- **Serial transport.** Replies come late; a write may be acknowledged; a transaction can
  fail or be cancelled anywhere. Correct: the port is closed when the bus is released, a
  frame is preceded by silence, a decoder accepts only the answer to its request.
- **Coordinator.** A refresh suspends for the client lock and for the wire, and commands
  and settings run in between. Correct: availability follows the count of failures; the
  quiet window after a command is kept so that the pump's remote override really ends
  when the panel is announced; the optimistic state is the pump's; changes are blamed on
  the panel only if something else changed the pump; polling never stops.
- **Counter.** Updates, delayed saves, explicit sets, reloads and crashes overlap.
  Correct: no confirmed second is lost or counted twice, and a crash costs a bounded amount.
- **Config flow.** Checks are made before or after a probe that awaits, against data or
  against unique ids that lag behind. Correct: one entry per pump, one protocol per bus.
- **Fault map.** What a pump is becomes known late, by registers that may fail or be
  refused, and entities are removed by what is known at setup. Correct: the map becomes
  the pump's, reloads end, no entity of the right map is lost and none of another stays.
- **Entry, fan and number.** Options, reloads and restarts come at any moment, also inside a
  quiet window and during a setup, and the fan and the number take their limits from
  different moments. Correct: every command is one the pump takes and the user's limits
  allow, what is shown commands the same again, the panel is announced only when it has
  control, and the options get into force.
- **Validation tool.** The pump is in an operator's hands while the tool tests it. Correct:
  nothing is written before the evidence and the typed consent for it, nothing after a
  fault, and success is only reported if it was earned.

## 2. Modules

**`FifoLock`** is what a bus promises: an owner, a set of waiters, and the order in which
they came. **`Rs485Bus`** is the manager's code: `waiters` is the deque (a future is named
by its task), `fut` the state of each task's future, `mustCancel` a cancellation that
arrived after the future was done. `AcquireFree`, `AcquireQueued`, `Resume`, `Abandon`,
`Release` are the pieces of `acquire`/`transaction` between suspension points. The
refinement (`Owner`, `LiveTasks`, `Before`) maps it to `FifoLock`.

**`Coordinator`** composes `AquagemCoordinator` with the client's lock (`lockQ`, holder
first), Home Assistant's refresh timer and the pump. A refresh is `StartRefresh` (or
`SkipQuietRefresh`), `SendRead`, then `StatusCompletes`, `RefreshFails`, or, for Modbus,
`StatusThenExtended`, `SendExtended`, `ExtendedCompletes`; the success branch is `Accept`.
A command is `StartCommand`, `SendWrite` (executed by the pump or not), `CommandCompletes`
or `CommandFails`. `InFlight` are the coroutines between their request for the lock and its
release, and `LockUsers` says that the lock's queue holds exactly these. `SetAssist` and `SetIdle` are the two settings. A control state
`(pump_on, speed if on else 0)` is one number, 0 for OFF. Deadlines are kept as the time
that is left. `overtaken`, `staled`, `drift` and `handover` are history variables: they
constrain nothing and let the properties name the races.

**`SerialPort`** is `SerialTransport` over the fair lock of `FifoLock` (which `Rs485Bus`
implements): a transaction queues (`Request`, `Granted`), opens the port and sends
(`SendFrame`, after the guard time), and ends in `ExchangeCompletes`, `SendCompletes`,
`TransactionFails`, `OpenFails`, `TestOrClose` or a cancellation. `air` holds replies on
their way; `ReplyArrives` delivers each to a port that is open, or to none. A reply is its
unit, the kind of request it answers and whether that is the last one; bytes and CRC are
abstracted. Three histories name what the code cannot know: `cancelled` (transports whose
last transaction was cancelled on the wire), `late` (transports that gave up a status
exchange whose reply may still turn up) and `unrecorded` (the last transaction on the wire
failed or was cancelled, so that its end was not recorded).

**`RuntimeTracker`** has the tracker's fields relative to now (`unticked`, `saveIn`), the
file (`store`), whether the entry is in `hass.data` (`entry`), and the ghost `truth`: the
value set last plus the confirmed running time since.

**`ConfigFlow`** has the entries' stored pump (`data`), their unique id (`uid`), the entries
whose setup is still to come (`reload`), the clients of setups that await their first refresh
(`client`), and the flows. A submitted flow is `probing` until its probe ends; `Submit*` are
the checks before, `*Found` what follows. `async_setup_entry` is three steps: `SetupBegins`
synchronises the unique id and builds the client from the data of then; after the refresh,
with other flows' steps in between, `SetupAnswers` writes the client's protocol and unit into
the data of now and synchronises the unique id again (`WriteBack`, `__init__.py`:212-248), and
`SetupUnanswered` leaves them. A submission that the bus check or the identity check sends
back to the form changes nothing and is modelled as not possible. The history `escaped` holds
the entries that a check did not see: stored, or written back, behind the checks of a serial
flow (`Behind`), still under the unique id of their former pump when a flow asked for their
new one (`Unseen`), or turned into another entry's pump by their own setup (`Doubled`);
`contested` holds the serial ports that got an entry behind a check for the other protocol.
`MCConfigFlow` adds the symmetry of entries, flows and units and the bound `OneSetup`.

**`FaultMap`** follows one entry over setups. `pump` is what is connected: an iSaver, or a
Modbus pump that refuses registers 2007..2009 (`legacy`), that reports a V1.5 mode code
(`v15`) or another one (`other`). `Setup` is `async_setup_entry` up to the first refresh,
`SetupFaults` the binary sensors' platform setup, `Reload` and `Restart` end a setup
(`Down`), after which a reconfigured entry may stand for another pump of its protocol. A
refresh is a status exchange (`StatusFails`, `StatusAnswers`) and, when they are due, the
extended registers (`ExtendedRefused`, `ExtendedFails`, `ExtendedAnswers`); `Publish` gives
the result to `ReloadWhenKnown` and to the entities (`See`). `Keys` keeps of the fault
tables what is in one Modbus map only and what is in both, which is all that the choice
and the removals tell apart. A refusal is only modelled of a pump without the registers.

**`Speeds`** is the arithmetic alone: each protocol's limits and grid, the normalisation of a
command, the two percentage conversions, what `write_speed` refuses and what the settings
form accepts. Percentages come back from Home Assistant as floats; they are kept in
hundredths, which is exact, and Python's rounding to even is kept too.

**`PumpEntry`** follows one entry over its setups (`phase`), with the options, the restored
assist switch and the pump. `Build` is `async_setup_entry` up to the first refresh,
`FinishSetup` the rest, with or without an answer; `Reload` and `Restart` end a setup.
`SubmitOptions` is the settings form, `OptionsChanged` the listener that reloads. The fan's
services (`SetPercentage`, `SetPreset`, `TurnOn`, `TurnOff`) read the options when they are
used, the number (`SetNumber`) has the limits of its setup; each becomes a `Command` or,
where `write_speed` refuses the value, a `Refuse`. A refresh is `PollStarts` (no window was
found, it waits for the client), for Modbus `PollSamples` (the status is read, the extended
registers are not), and `PollAccepts` or `PollFails`; commands, settings and time come between
them. A command is one step, because nothing else runs between the end of its write and the
publication; it reaches the pump or, for an iSaver, may be lost unnoticed, and `CommandFails`
is one that the pump executed and the client reports as failed. Time is `WindowEnds` and
`RemoteEnds`: the window lasts at least as long as the override, as with the default 70 s
against 60 s; shorter windows are listed as a gap. `cut` records why an override may stand
without a window of its own: the user commanded without assist or switched it off (`"user"`),
a reload or restart forgot it (`"reload"`), a refresh that began before the command read in it
(`"overtaken"`), or the command failed (`"lost"`). The end of a setup drops a refresh that is
in flight; that such a read could still go out and prolong the override of a command in the
next setup is not modelled. `MCPumpEntry` gives the forms, of which three must
be refused, and the states the panel leaves, some off the grid or below the minimum.

**`FullProbe`** is `tools/dm15_full_probe.py`. `pc` names what the tool does next, one step
per prompt, transaction and decision; the pump may change between any two of them, each
transaction may fail, and the operator may abort or close the input anywhere. `frames`,
`shown`, `proved`, `unlocked`, `lastFault` and `stopped` are the evidence so far. `MCFullProbe`
gives it the tool's own four speeds and four registers.

The operators named `...` after a comment "Mutant:" stand before the definition they alter;
no specification uses them. They show that the properties notice such a bug.

### Modelled from outside the repository

- Home Assistant's `DataUpdateCoordinator`: one refresh at a time; a refresh cancels the
  timer when it starts and arms it from `update_interval` when it ends;
  `async_set_updated_data` rearms it. While a refresh is in flight the timer's own value
  does not matter and is kept at 0.
- Home Assistant skips service calls on unavailable entities, so commands start only
  while the pump is available.
- `Store`: a write is atomic, a save with delay 0 happens before time passes.
- The flow manager: `async_set_unique_id` refuses the unique id of another open flow;
  finishing a flow replaces an entry with the same unique id and ends the other flows of it.
- asyncio: futures, FIFO `asyncio.Lock`, cancellation.
- `async_reload`: one at a time, never during a setup; entities that a setup adds are
  registered until they are removed, over reloads and restarts.
- Home Assistant's percentage helpers for a range, its check of a number against the
  number's limits, and the restored state of the assist switch (`Speeds`, `PumpEntry`).
- The pump: reports a command's target at once and its panel is not used between the
  execution and the acknowledgement of a command (the repository says nothing of ramps);
  a status read during the remote override prolongs it (coordinator.py:64-69).

## 3. Runs

Properties of passing runs hold in every reachable state (or behaviour) of the instance.

| Run | Instance | Shows |
|---|---|---|
| `bus` | 4 tasks | `IInv`, `MutualExclusion`, `NoLostWakeup`; `ImplementsFifoLock` (arrival order, withdrawals disturb nobody); `NoStarvation` under fairness |
| `coordinator_isaver` | 2 concurrent commands, one commandable speed and a ramp below it, normal interval 1, offline 2, override 2, windows 1 and 3, threshold 2 | all safety properties of `Coordinator` for the iSaver profile |
| `coordinator_modbus` | 1 command, 1 speed, normal interval 2, offline 3, threshold 3, created with the other profile's minimum speed, fair | `IInv` (with all safety properties in it) and `OptimisticStateIsTrue`, which the second exchange and the acknowledged write could break; `Converges`: left alone, the published state becomes the pump's for good, and the pump is available |
| `coordinator_quiet` | as `coordinator_isaver` | violation, see findings |
| `serial_port` | 2 transports, guard 1, 1 reply per buffer, 2 on their way (1.1 million states) | `OpenOnlyOnWire`, `SilenceBeforeFrames`, `AcceptsTheAnswer` |
| `serial_cancel` | the same | violation, see findings |
| `runtime_tracker` | counter up to 9 from 1, set to 0 or 3, save interval 3, gap 2 | `CountsConfirmedTime`, `LossBounded` |
| `config_flow` | 2 entries, 2 flows, a gateway and a serial port, 2 units; entries, flows and units symmetric; one setup at a time in its first refresh (0.9 million states) | `IInv`, `OneEntryPerPump`, `UniqueIdIsIdentity`, `OneProtocolPerBus`, `NeverReplaced` |
| `config_duplicate` | a serial port alone | violation, see findings |
| `fault_map` | each kind of pump, with and without a stored protocol and registered entities, retry after 2, 2 reloads waiting, fair | `BitsRemembered`, `RegistryIsCurrent`, `OwnFaultsKept`; `MapSettles`: once reads stop to fail, the map is the pump's and reloads end |
| `pump_entry` | both protocols, stored or not; 5 forms, 3 of them invalid; percentages 0, 1; number values 33, 1250; panel states 600, 1250 (iSaver), 0, 33 (Modbus); fair (137 thousand states) | `IInv` (options in force, refusals, the resumed speed), `CommandsInLimits`, `SliderRepeats` (for every speed of the range in force), `PanelShownTruly`; `EntrySettles`: left alone, the entry is loaded with its options in force and the panel gets control back |
| `full_probe` | the tool's 4 speeds and 4 registers, with and without `--read-only` | `WritesAreEarned`; `IInv`, which has `VerdictIsEarned` and the evidence at each point of the program |

Why the bounds are enough: four tasks give a holder, a woken head, a cancelled waiter and a
live one behind it, the longest pattern `_wake_next` distinguishes. In `Coordinator` the
races are between one refresh, two commands and the settings; the code's comparisons of
times (window against override, window against normal interval, settle against window) all
occur in both orders with the values chosen, and a threshold of 2 separates the first
failure from the last (three, in the Modbus run, has one in between). Two transports make
one that fails and one that hears; further ones only repeat them, because the bus hands over
one at a time. Two entries and two flows are the two sides of a check made too early, and with two units an
entry can be reconfigured to one while its setup still has the other. The symmetry is sound
because no definition tells one entry, flow or unit from another and the run has no liveness
property. `OneSetup` keeps the run short; without it the instance has 1.6 million states and
passes too, and the theorems do not have it. In
`FaultMap` the reads, failures and setups are not bounded at all; `Retry` only has to
outlast a refresh. `PumpEntry` needs one range besides the default one, one form per way to
be invalid, and values below and off the grid; the upper end of each range is reached by
the presets and, for percentages, by `SliderRepeats`, which goes through every speed of the
range. Its reads, commands and setups are not bounded. `FullProbe` is checked as it is. `InputBound`, `AirBound`, `Horizon`, `MaxHours`, `MaxReloads`, `EntryIds`,
`Flows` and `OneSetup` are the bounds the code does not have; each is named where it is declared.

Conditions inside properties are the known races, not conveniences. Each becomes true exactly
at the step where the code has the gap its comment describes: `drift`, `staled`, `overtaken`
(`Coordinator`), `cancelled`, `late`, `unrecorded` (`SerialPort`), `raced` (`RuntimeTracker`),
`escaped`, `contested` (`ConfigFlow`), `cut`, `missed` (`PumpEntry`). A property with such a
condition says that this is the only way. Three gaps that contradict a comment or document are
shown by violation runs; the others are listed below them.

### Fairness

`Rs485Bus`: a ready task runs (`Resume`, `Abandon`) because the loop serves every callback,
and a transaction ends because opening, writing and reading are under `asyncio.timeout`
(closing a stream is not, and is assumed to return). `Coordinator`: time passes, an expired
timer is served, the holder of the lock goes on, an exchange ends in an answer or a
failure. Nothing is assumed of users, of cancellations, or of the pump. `Converges` needs
failures to stop: its premise says so, and fairness does not. `FaultMap`: setups and
reloads go on, polls start, an exchange ends one way or another, time passes. `MapSettles`
too has the end of failures, reloads by the user and restarts as its premise. Its exception
is an iSaver whose protocol was not stored yet and whose first refresh failed: the platform
reads `client.protocol` once (binary_sensor.py:137), so it shows the Modbus faults until
someone reloads the entry. `PumpEntry`: Home Assistant carries setups and reloads through (a
first refresh ends by its timeouts), the window ends and the override ends where it can;
nothing is assumed of polls, users, restarts or the panel. `EntrySettles` has the end of the
user's actions, of restarts and of reloads for the fault map as its premise. `_v15_seen` does not outlive a reload; until the retry a V1.5
pump may then show legacy bits, which `BitsRemembered` (one setup) and `MapSettles` allow.

### Findings

1. `coordinator_quiet`: the quiet window is checked before the refresh waits for the client
   lock (coordinator.py:207, 219). A command that completes during the wait opens a window;
   the refresh reads inside it and then clears it (coordinator.py:268), against "No
   C3/Modbus status request may escape during this period" (coordinator.py:204).
   `OnlyOvertakenReadsEscape` shows that this is the only way.
2. `serial_cancel`: `except Exception` does not see `CancelledError`, so a cancelled
   transaction keeps its descriptor open after it left the bus (transport.py:283), against
   the comment at transport.py:267. `OpenOnlyOnWire` shows that this is the only way;
   `OnlyCancelLeavesTwoOpen` proves it for any transports and times.
3. `config_duplicate`: a serial reconfiguration does not repeat its check after the probe
   (config_flow.py:691), so a pump added meanwhile is configured twice, against
   docs/ALPHA_0.4.0.md:29. `OneEntryPerPump` holds otherwise.

Further gaps, which the properties name as their exceptions or their conditions leave out:

- Two serial flows that checked a free port for different protocols, the iSaver's and Modbus,
  both store their entry after their probes, so one line is configured for two speeds. So it
  is with a reconfiguration. docs/ALPHA_0.4.0.md:18 says a port "still cannot mix" the two,
  and config_flow.py:354 that they "may not be mixed". `OneProtocolPerBus` has `contested`
  and shows that there is no other way.
- `async_setup_entry` builds its client before its first refresh and writes the client's
  protocol and unit into the entry after it (`__init__.py`:189, 212-248). A reconfiguration that
  is stored in between keeps its endpoint and loses its unit. The result may be the pump of
  another entry, configured twice from then on; its unique id then stays as it was
  (`_sync_entry_unique_id` finds the identity taken), and a flow that checked for the pump
  before may replace the entry. `OneEntryPerPump`, `UniqueIdIsIdentity` and `NeverReplaced` have
  `escaped`.
- A refresh that waits while a command completes (finding 1) also ends the window when it
  succeeds (coordinator.py:268), so the panel is announced during the override, which short
  polls may then prolong for as long as they go on; `PanelShownTruly` and `EntrySettles` have
  `cut = "overtaken"`.
- A command that fails although the pump executed it (a lost acknowledgement, protocol.py:477)
  opens no window, so the panel stays announced during the override; `PanelShownTruly` has
  `cut = "lost"`.
- After a status exchange that timed out or was cancelled, its late reply may be taken for the
  answer to the next one of the same transport, because nothing in the frame tells them apart;
  `AcceptsTheAnswer` has `late`.
- The guard time before a frame counts from the last successful exchange (transport.py:290), so
  it is not kept after a failed or cancelled transaction, although docs/ALPHA_0.4.0.md:59 speaks
  of the time between transactions; `SilenceBeforeFrames` has `unrecorded`.
- The silence may be set to 50 s (const.py:40), which is less than the override of 60 s the
  models assume; the panel is then announced before it has control. `HandoverStands` and
  `PumpEntry` are about windows at least as long as the override.
- A write that completes after the failure threshold starts the operating-hours counter of an
  offline pump (coordinator.py:330), although it should pause (docs/ALPHA_0.4.0.md:37);
  `TrackerFollowsData` is about an available pump.
- Operating hours set between `async_load` and the moment the coordinator enters `hass.data`
  (`__init__.py`:197-250) are overwritten by the tracker (runtime.py:139), although reloads
  should keep the value (docs/ALPHA_0.4.0.md:38); `CountsConfirmedTime` has `raced`.
- A reload or restart inside a quiet window forgets it. The new coordinator reads at once,
  which prolongs the pump's override, and the panel sensor says that the panel is available
  while it is not; `PanelShownTruly` has `cut`.
- Options changed during the first refresh of a setup are not applied to the polling interval
  until the next reload, because the listener is added later (`__init__.py`:277) and
  `_async_reload_entry` ("Reload after an option changes") does not run; `OptionsInForce` has
  `missed`. The limits are not affected: the number is created after the refresh.
- A Modbus pump that does not answer its first refresh, of an entry without a stored
  protocol, gets a number with an iSaver's limits; once the pump answers, its commands are
  refused with `ValueError` until a reload (`RefusedOnlyUnknown`).
- The lowest speed an iSaver may be given shows as 0 %, because `ranged_value_to_percentage`
  rounds down, and 0 % commands OFF (`SliderRepeats`).
- `last_running_speed` does not outlive a setup: after a reload with the pump off, a turn-on
  gives the minimum.
- The tool's OFF command follows no status read of its own (dm15_full_probe.py:428), a
  skipped write or OFF test ends as a success, and `recv_until_idle` limits each pause but
  not the whole reply.

## 4. Proofs

Every component has an inductive invariant `IInv`: a conjunction of the type invariant, the
safety properties the runs check, and the facts that make those inductive. TLC checks it as
an invariant of the component's run; TLAPS proves `Init => IInv`, one lemma per action (or
group of actions) `IInv /\ A => IInv'`, `NextKeepsIInv`, and from these
`InductiveInvariant == Spec => []IInv`. The other theorems follow from it. The constants are
arbitrary up to the `ASSUME`s of the modules, which TLC evaluates in the runs; the bounds of
the models stay in the actions as parameters, so the theorems hold for every bound.

| Module | Proved | The strengthening, and why it is needed |
|---|---|---|
| `Rs485Bus_proofs` | `MutualExclusion`, `NoLostWakeup`, `ImplementsFifoLock` (the refinement: each action is a step of `FifoLock` or a stutter) | `QueueMatchesTasks` and `OnlyHeadWoken`: a future that is done is behind cancelled ones only, so the task that resumes is the head and no other can own the bus. No two entries of the deque are the same task (`Distinct`), or `deque.remove` could take the wrong one. `RemoveFirstShape` says what removing an element does to a sequence, by the least index where it occurs. For the refinement, `OrderKept` and `LeaveHeadOrder` say that a removal, of the head or of a cancelled waiter, changes nobody else's place in the order of arrival. From the refinement and this follows `OrderOfArrival`, the safety half of `NoStarvation`: those ahead of a waiter only become fewer, and the bus is only granted with nobody ahead. No assumption on the set of tasks. |
| `SerialPort_proofs` | `OpenOnlyOnWire`, `AcceptsTheAnswer`, `SilenceBeforeFrames` (an action property); `OnlyCancelLeavesTwoOpen`: two ports of an adapter are only open together after a cancellation; `OwnerFreesTheBus` (of steps): only the owner gives the bus up, as its transaction ends; `FollowsTheLock`: what the transports do with the bus are behaviours of `FifoLock` | `Agreement` of the transactions with the bus manager; `SilenceIsCounted`: silence so far and guard time left add up to the guard time, although the two start at different moments; `SilenceIsCounted` needs nothing of the transactions before the last one (`unrecorded`). `NothingStale`: to the status requests of a transport that gave none up there is at most one reply, in the air or in one buffer (`OneReply`), and it answers the request on the wire, whatever the other transports failed at; with a single flag for all of them that would say nothing about the case that matters. `FollowsTheLock` and `IsFifoLock` of `Rs485Bus_proofs` are the two sides of one interface: the transports assume no more of the bus than `FifoLock` says, and the manager does what it says. |
| `Coordinator_proofs` | `AvailabilityDebounced`, `TrackerFollowsData`, `OnlyOvertakenReadsEscape`, `HandoverStands`, `PollIsScheduled`, `OptimisticStateIsTrue`, and `ExternalMeansExternal` for the iSaver profile; `LockNeverLeaked` (`LockUsers`); `HolderGoesOn`: while anything is in flight, the lock's holder is, and it is about to use the wire or on it, so nobody waits for a coroutine that is gone | `LockDiscipline`: one exchange on the wire at a time; `LockUsers`: the queue is the coroutines in flight, each once, without which a release or a withdrawal could leave somebody in it (`LeaveQueue`, `ReleaseHead`); `WindowFacts`: a window and an unfinished refresh together mean an overtaken refresh; `HandoverFacts`: what is left of the pump's override plus the age of the command stays within the override, and no read that could prolong it is on the wire; `OriginFacts`: as long as nothing else can have moved the pump, the command on the wire, the sample kept before the extended registers, and (iSaver, nothing to confirm) the published and the remembered previous state are what the pump does. |
| `RuntimeTracker_proofs` | `CountsConfirmedTime`, `LossBounded` | `Unsaved`: how far the file lags behind in each phase of the entry, whether a save is armed, due, or the counter stopped. |
| `ConfigFlow_proofs` | `OneEntryPerPump`, `UniqueIdIsIdentity`, `OneProtocolPerBus`, `NeverReplaced` | `FlowsHoldTheirPumps`: a flow in progress keeps its identity to itself and its entry exists on the same transport; `ClientsKeepTheirTransport`: so does the client of a setup, and on a serial port it keeps the protocol, or its write-back could mix two on one line; `ChecksStand`: what a serial flow checked before the probe still holds after it, but for entries in `escaped` and ports in `contested`. The lemmas `CreateKeeps`, `UpdateKeeps`, `SyncKeeps`, `RemoveKeeps` and `ProbeKeeps` are about the effects, with what a caller must have checked as their hypotheses; `SetupBeginsKeeps` and `SetupAnswersKeeps` are two uses of `SyncKeeps`, with the data of now and with what the client writes back. |
| `FaultMap_proofs` | `BitsRemembered`, `RegistryIsCurrent`, `OwnFaultsKept` (an action property) | `Learned`: the client's opinion of the extended registers is true of the pump, and what the first refresh learned is still at hand when the entities are chosen; `RightMap`: a map called definitive is the pump's. `ChosenMap` is the lemma about `_modbus_faults_for_setup` that all rest on. |
| `PumpEntry_proofs` | `CommandsInLimits` (an action property), `SliderRepeats`, `PanelShownTruly` | `EntryFacts`: a known protocol is the pump's, options in force passed the form, also those the number has its limits from (`ValidLimits`), and a setup knows whether its interval is out of date. `WindowFacts`: a window is of a loaded entry with the assist on, a refresh in flight within a window was overtaken, and an override without a window has a cause in `cut`; the second is what makes the third inductive, because an accepted refresh ends whatever window there is. Below it the arithmetic of `Speeds` for every range: `ClampFits` and `SliderFits` (what is written fits the range and the grid), `FormIsGood` (what the form lets pass is such a range), `ISaverRoundTrip` and `ModbusRoundTrip` (through two integer divisions and a rounding; the range of an iSaver has at most 1701 states, so the percentage shown stands for less than 18 rpm below its speed, on a grid of 100 rpm). |
| `FullProbe_proofs` | `VerdictIsEarned`, `WritesAreEarned` (an action property) | `SpeedsShown`, `FramesSent`, `SpeedsProved`: at each point of the program, which prefix of the list of speeds was shown by hand, sent, and confirmed, with nothing shown or proved before its part begins; `Permitted`: what was unlocked, and that the read-only mode does not come past the question for the phrase; `AtInLoop`: the loop counter's range at each point. What was known of the points of writing alone was not inductive: a state that had proofs before the first write, or asked for the phrase in read-only mode, had successors that broke it. |

`Coordinator_proofs` and `SerialPort_proofs` use the assumptions named `ConstantTypes` and
`SerialAssumption` (types and non-zero times), `ConfigFlow_proofs` uses `EndpointAssumption`
(a gateway is not a serial port; `None` is neither a pump, an entry nor a protocol),
`FaultMap_proofs` `FaultMapAssumption` (a retry time that is not zero), `PumpEntry_proofs`
`PumpEntryAssumption` (types: forms are settings records, percentages 0 to 100, values
natural), `FullProbe_proofs` `FullProbeAssumption` (a list of speeds, not empty and none
of them 0, and at least one register; the tool's speeds need not be distinct).

Only model-checked: the liveness properties (`NoStarvation`, `Converges`, `MapSettles`,
`EntrySettles`), because liveness under fairness is outside the prover's reach. What is safety
in the first two is proved: nobody overtakes a waiter (`OrderOfArrival`), the lock's holder can
always go on (`HolderGoesOn`), and the next poll is always scheduled (`PollIsScheduled`).
`ExternalMeansExternal` is not claimed for Modbus: a sample older than a command, whose
extended registers are awaited for longer than the settle time, is taken for an external
change.

## 5. Plan

Order of work; all parts but the third are done.

1. `Rs485Bus`/`FifoLock`, `Coordinator`, `SerialPort`, `RuntimeTracker`, `ConfigFlow`,
   `FaultMap`, with their runs; inductive invariants and the main safety theorems.
2. `Speeds`, `PumpEntry`: commands and their limits, options, reloads and restarts inside a
   quiet window. `FullProbe`: the tool that writes to a pump.
3. `Protocol`: frame validation (exception frame, length, header, CRC as a value that
   matches or not) and detection over profiles and units. Property: detection never accepts
   the reply of another unit or profile.
4. Proofs: the inductive invariant of `FullProbe`, what the client's lock and the order of
   the bus give to those who wait, and the serial transports' use of the bus.

Not modelled and not planned: wording of forms and titles, translations, device and
diagnostic sensors that only display, countdown displays that change every second, the
preset a fan shows and legacy preset names, the increase and decrease services that Home
Assistant derives from `speed_count`, the migration of entry versions and the removal of
entities of old versions (straight-line, once), dm15_read_probe.py (reads and prints), the
CI checks and workflows.
