# Verification of the IO configuration system

This directory holds TLA+ models of `src/io_config_system`, the engine that
polls Modbus inputs, drives outputs and follows a configuration document that
an HTTP API, a file editor or a rollback may replace at any time. `PROJECT.json`
lists the runs, maps every definition to the lines it models, and names the
hazards, findings and theorems. This file explains them.

## The system

One process. A background thread calls `PollEngine.run_cycle` again and again;
Flask serves each request in a thread of its own on the *same* `PollEngine`
object (`tests/test_api_phase6.py:9-12`). The plan speaks of two processes that
share only the file (`IO_Config_Execution_Plan.md:72`); the code does not, and
the models follow the code. There is one lock, inside `LiveSnapshot`.

| component | state | operations | correct when |
|---|---|---|---|
| `engine/debounce.py` | per point: stable, candidate, count | `apply` | a change passes after exactly the configured number of equal readings |
| `engine/config_store.py`, writing | a temporary name, the path | `atomic_write_json` | a reader finds one whole document, after a crash too |
| `engine/config_store.py`, history and watcher | `.lkg`, `v<n>.json`, last version seen | `backup_as_lkg`, `save_version`, `poll`, `mark_seen` | backups are good, a change is picked up, nothing saved is lost |
| `engine/test_write.py` | commissioning mode, pending reverts | `request_write`, `set_commissioning_mode`, `apply_pending_reverts` | no output stays energized after its timeout |
| `engine/rule_engine.py` | previous values, pending pulse reverts | `evaluate_cycle` | a press acts once, a pulse ends, stale readings are not acted on |
| `engine/poll_engine.py` | running document, clients, plan, the objects above | `run_cycle`, `reload`, `rollback_to_*`, `write_point` | a swap leaves no output energized, a refused document touches nothing |
| `api/app.py` | session | handlers for io, rollback, import, test write, mode | what a client is told is true |
| `validators.py`, `schemas/` | none | `validate_io` | accepted documents are safe to run |
| `engine/modbus_clients.py`, `point_io.py`, `poll_plan.py`, `live_snapshot.py` | bus connections, latest values | build, read, write | an error is a stale result, never an exception |
| `engine/ota.py`, `ota_state.py` | status file | apply, health check, roll back | an unhealthy update is undone |
| `engine/identity_store.py`, `identity.py`, `system_store.py` | one file each | update | what is recorded is what holds |
| `migrations/` | none | `migrate_to_latest` | each step gives a valid next version |
| `event_store.py`, `bus_scan.py`, `api/auth.py`, `io_export.py` | SQLite log; none; users; none | insert; probe; verify; filter | an event is filed once |

Interactions: handlers and the poll thread call `reload`, which walks the
current outputs to their safe states, builds clients and plan, writes two backup
files and assigns a dozen attributes one by one, while the other threads may be in the middle
of a cycle or a test write. The pending reverts survive a reload inside
`TestWriteManager`; the pulses die with the old `RuleEngine`. Handlers write
`io_config.json` *after* the reload; the watcher in the poll thread compares
version numbers, not contents. `write_point` looks the point up in the document
of the moment, whatever document its caller took it from.

What is hard to test: the interleavings of handler and poll threads, writes that
fail or whose answers are lost, reverts that outlive their document, crashes
between file writes, version numbers that go back, stale cycles between fresh
ones. `PROJECT.json` lists them under `hazards`, each at its line.

## The modules

| module | models | how state and actions correspond |
|---|---|---|
| `DebounceSpec` | the promise: the output changes after a window of equal readings | abstract, counts a run of equal readings |
| `Debounce` | `Debouncer.apply` | one action per branch: `Seed`, `Agree`, `Hold`, `Accept`; `StaleRead` is the early return of `_debounce`, `Reload` the new `Debouncer`; implements `DebounceSpec` (`ImplementsWindow`) |
| `ReadPath` | `run_cycle` over one point, on top of `Debounce` | `Read`, `Settle`, `Show`, then `File`, `NoTransition` or `FileRaises`, then `Remember`; a thread's pc is between two of them; `shown` is the snapshot's entry, `wasStale` that of `_stale_state`, `logged` the latest event |
| `AtomicWrite` | `atomic_write_json` | `Open` (truncate or create), `Write`, `Rename`, `ProcessDies`; names map to files and open handles keep theirs |
| `TestWrite` | `test_write.py` under one document | a request goes through stages `new`, `checked`, `onBus`, `written`, `pending`, `due`, `reverted` or `failed`, `over`; `_pending` is the set in stage `pending`; the Modbus call, the snapshot update and the event are steps of their own. `LogRaises` is the event of a test that cannot be filed, `CutPass` that of a revert: its own stage is then `unfiled`, that of the reverts due with it, which nobody writes any more, `forgotten` |
| `RuleEngine` | `rule_engine.py` | `EvaluateCycle` is one `evaluate_cycle`, run by the poll thread alone: the due reverts and then the rules' actions as one sequence of calls, which ends where an action raises (`UpToRaising`) or where the event of a call cannot be filed (`Ends`). Then the write is done and what follows it is not: `LostBy` are the outputs whose pulse is not listed or whose due revert is not written, `prevValues` keeps the readings of an earlier cycle. A pulse keeps the time it has left. `ReloadRaises` is a reload whose walk raises |
| `HotReload` | `reload` against reverts, rules and test writes | one step per coil write, list operation and swap; each thread has its pc; `due`, `todo`, `driving` are the local variables that hold an output, `seen` the list that a scan of the pending reverts has begun on when another thread replaces it; any event may raise (`Filing`), out of the walk, the test write, the revert or the rule it belongs to (`Abort`, `CutShort`). History: `held` are the coils left as they are by a rule's `set` or a changed safe state, `lost` those whose revert went with an exception or a replaced list, `faulted` those whose last write failed |
| `EngineSwap` | the swap of `reload`, attribute by attribute | `BeginSwap`, seven `Assign`s in the order of the source, `CloseOld`; a lookup chain is `LookPoint`, `LookDevice`, `LookClient`, `Call` or `LookMissing` (KeyError), for a walk, a rule, a test write; `BindPlan` and `BindClient` for a read; `Probe` for a scan. An attribute is the generation of the document it was built from |
| `ConfigStore` | the promise: one document in force, replaced in one step by a valid one after the old one is kept | abstract: `Choose`, `KeepAsPrevious`, `KeepInHistory`, `Replace`, `Publish`, `LetGo`, and `Edit`, `Crash`, `Resume` at any moment |
| `ConfigLifecycle` | where a document lives: engine, file, `.lkg`, history | `Put` (also import), `Rollback`, `Look`/`Compare` (watcher), `Backup`, `SaveVersion`, `Swap`, `MarkSeen`, `Fetch`, `Persist`, `Edit`, `Crash`, `Restart`; `Compare` may end in a reload that raises, with the version counted as seen; threads that write one file at once share its temporary name, so a write may publish another's document or a torn one (`Written`) and a rename may raise (`RenameRaises`); implements `ConfigStore` one handler or cycle at a time (`ImplementsStore`): the running document is the one in force, `.lkg` the previous one, what the threads have in hand the one chosen |
| `ConfigIntake` | `migrate_to_latest`, `validate_io`, `build_clients` and `build_plan`, the rules of a document | pure operators over documents (`Migrated`, `Rejects`, `Builds`, `Plan`, `Performed`), strung together by the stages of a document: `Migrate`, `Refuse`, `Accept`, `Reject`, `Stumble`, `Build`, `CannotBuild`, `Cycle`, `Replace` |
| `OtaUpdate` | `ota.py` over a reload taken as one step | `Apply`, `Persist`, `HealthCheck` (with the watcher of its own cycle), `RollBack` or `RollBackFails`, `ReportHealthy`, `ReportRolledBack`, each of which may end in an event that cannot be filed (`EventRaises`); `PollCycle`, `Edit`, `Crash`, `Restart` around them |
| `AdminProcess` | Flask's threads, and a file that they write by one temporary name | `process`, `pc`; `Opened`, `Written`, `Renamed` are the effects of a thread's `open`, `write` and `os.replace` on a file (path, temporary name, and which of the two each open handle leads to), as `AtomicWrite` has them for one `Pid` |
| `IdentityStore` | `identity.py`, `identity_store.py`, `PUT /api/identity` | `Provision`/`Provisioned` (first boot, in two steps), `LoadIdentity`, `PutIdentity` (read), `OpenIdentity`, `WriteIdentity`, `RenameIdentity` or `RenameIdentityRaises`, `FileEvent` or `FileEventRaises` |
| `SystemStore` | `system_store.py`, `PUT /api/system` | `PutSystem`, `Applied` or `NotApplied`, `OpenSystem`, `WriteSystem`, `RenameSystem` (which also stands for the rename that raises) |
| `AdminApi` | the two stores in one process, with crashes | their disjunction, and `Crash`, which ends the process for both |

`MC*` modules give the constants small values. `*Proofs` modules hold the
theorems. Definitions headed "Slip" are the mistakes the runs must notice; no
specification uses them.

The modules meet at these seams:

- `ReadPath` is `Debounce` seen from its only caller; `RuleEngine` takes the
  readings that come out of it.
- `ConfigLifecycle` writes each file in one step. `AtomicWrite` justifies that for
  a thread that writes alone; for threads of one process, which share a temporary
  name, it refutes it, and `ConfigLifecycle` then lets each of them leave any
  result that the steps of `AtomicWrite` could: its own document, another's, a
  torn one, or an exception. `AdminApi` takes the same writes apart into their
  steps.
- `HotReload` lets a pending revert come due at any pass, because `TestWrite` and
  `RuleEngine` have the clock; `TestWrite` keeps the document fixed, because
  `HotReload` changes it.
- `HotReload` takes the swap as one step, `EngineSwap` takes it apart but knows
  no coil values: what a chain of lookups can meet is a question of generations.
- `OtaUpdate` takes a reload as one step, because `ConfigLifecycle`, `HotReload`
  and `EngineSwap` take it apart.
- `ConfigIntake` says which documents the others can be given at all: its
  `AcceptedRuns` is why `HotReload` and `ConfigLifecycle` treat validation as
  membership in a set, and its `OneMaster` is the address-conflict rule that
  `HotReloadAssumption` states.

Decisions about data. A document is a member of a small set with the places and
safe states of its outputs (`HotReload`), a version and a content
(`ConfigLifecycle`, `OtaUpdate`), units and hosts (`EngineSwap`), or a record of
points, devices and rules (`ConfigIntake`, the one module that looks inside). In
`ConfigIntake` a document has passed the JSON schema, which types everything but
the actions of an else branch; a field that may be absent is tested with DOMAIN
where the code tests with `in` or `dict.get`. The migration joins rule ids from
strings: `rule_` is left out, being common to all, and `Suffixed` gives the
register id with `_fault` behind it, which may be the id of a button. A write is `ok`, `refused` (coil unchanged) or
`lost` (coil changed, no answer); callers see the last two alike. `invert` cancels between
the write and what counts as the output's value, so coils hold logical values.
Events are modelled wherever filing one decides what happens next: stale
transitions, identity changes, test writes and their reverts, rule actions,
pulses and theirs, failed writes in the walk of a reload, the steps of an update.
`log_event` raises when the database is locked or full, after the write it is
about. A disk that refuses a configuration file is not modelled.

Steps. A Flask thread may run between any two Modbus calls, file operations,
attribute assignments or list updates of another thread. Taking the due entries
off a list is one step: an append during the scan is seen by the scan, and
between the scan's end and the rebinding of the list CPython 3.10 and later,
which pymodbus needs, does not switch threads.

## The runs

Passing runs, all exhaustive over their constants.

| run | shows | bounds |
|---|---|---|
| `ReadPath` | the window, outages logged once and in the end, settled inputs shown | a window of 5 and 3 values, so a candidate can change with most of the count done; one polling thread |
| `AtomicWrite` | whole and own documents | two processes with a thread each, two documents, 3 files: one more than the names in use after a rename |
| `TestWrite` | no revert lost, each written or cut off by the event of another, outputs come back | two requests on one or two outputs, two timeouts, clock to its bound; both bus faults and an event log that raises |
| `RuleEngine` | pulses end and cover or went with a cycle cut short, one act per press and cycle that ran to its end | an edge rule and threshold rules, a lamp that rests off and a valve that rests on, cycles on time or one late, one device that stops answering, an event that cannot be filed at any call |
| `HotReload` | drops and swaps are safe and every output away from rest has a reason, one at a time | a lamp and a valve on three coils; documents that move, drop, invert, or cannot be built; both bus faults and events that cannot be filed |
| `EngineSwap` | lookups meet a swap in one direction, nothing old is left, no client in force is closed | two threads that may do anything, two swaps, documents that renumber the units and drop a point with its device |
| `ConfigLifecycle` | only good documents, implements a store that replaces its document in one step and keeps the one before, true answers, convergence unless a reload raised, one at a time | versions to 3: a save, a rollback and a save on top of it |
| `ConfigIntake` | accepted tidy documents never raise; accepted separate ones have one master per coil; migration lets through exactly its topology | 3900 documents: every wiring of a button and two lamps over nine lists of devices, every pair of rules over a few wirings, version 1 with up to four of nine points |
| `OtaUpdate` | a rollback that ends restores what ran before, and what failed is gone | versions to 3: an update, an edit during its check and one after it; documents that answer, that do not, that are refused; an editor, crashes, events that cannot be filed |
| `AdminApi` | one boot_id, every edit traceable, nothing recorded that was not applied | two requests at once in one temporary file, three field values, two boot ids, two valid settings and one the schema refuses; crashes anywhere |

Runs that end in a violation, where the code does other than a document or a
comment says; `findings` in `PROJECT.json` quotes the lines.

- `ConfigLifecycleHistory`: a save after a rollback overwrites an earlier one.
- `ConfigIntakeRaises`: an else branch may hold an action that the rule engine
  does not know; the document is accepted and the rule raises in every cycle in
  which it does not match.

Bounds in the guards: `MaxNow` of `TestWrite`, `MaxVersion` of `ConfigLifecycle`
and `OtaUpdate`, `MaxReloads` of `EngineSwap`. A deadlock check is switched off
where the system may stop: the process stays down because the file is invalid
and nobody mends it (`ConfigLifecycle`, `OtaUpdate`) or because the first boot
left half an identity (`AdminApi`); an intake is over when its document is
refused or replaced (`ConfigIntake`).

`Concurrent` in `HotReload` and `ConfigLifecycle` and `ReloadsAtOnce` in
`EngineSwap` switch between one operation at a time, as the repository's tests
run them, and all threads at once, as production does; `Polling` in `OtaUpdate`
does the same for the poll thread. The passing runs with `FALSE` say what the
code gets right; the failing ones with `TRUE` say what the missing lock costs.

Two preconditions of `ConfigIntake` name what `validate_io` leaves to the author of
a document. `Separate`: the rules that write have ids of their own, an output's
`fn` is `write_coil`, and the units answer as slaves of their own, where the
slave of a device on a gateway is its `tcp.slave_id`. `Tidy`: `Separate`, one
point to an id, every `fn` as `kind` has it, single values, else branches typed
like then branches, rules that write outputs only. `OneMaster` asks for the first
and `AcceptedRuns` for the second; outside them see the table below.
`MigratesExactly` asks for neither; its topology is the one that version 2 can
say, which is more than the "exactly one register" of `v1_to_v2.py:8-13`, since
the code does not ask for that (`OnlyTheReference`).

### Further configurations

These `.cfg` files belong to the same modules and are run by hand
(`tlc -config X.cfg M`, `M` the `MC` module where there is one). The first four
pass: they say how far a property reaches.

- `HotReloadMoves`: documents that move and exchange outputs strand nothing, one
  operation at a time, rules and pulses included (1.3 million states).
- `HotReloadTests`: an output that only test writes energize is stranded by no
  reload of a document with the same outputs but as `TestsCovered` says, two
  handlers, the poll thread and the health check of an update at once.
- `ConfigLifecycleSaves`: every save is kept as long as nobody rolls back or edits
  the file.
- `ConfigLifecycleThreads`: two handlers and the poll thread, rollbacks and crashes
  in any order run valid documents only, and back up none but valid or torn ones
  (6.9 million states).

The others end in a counterexample, each for one cause:

- `ReadPathTwice`: an OTA health check polls beside the poll loop; an outage it
  sees is on the page, and the poll loop's cycle ends without having told of it
  (`LogMatches`).
- `AtomicWriteThreads`: the threads of one process share its temporary name.
- `TestWriteLostAnswer`: a write whose answer is lost has switched the coil, but
  no revert is scheduled (`test_write.py:59`), though the relay "auto-reverts to its
  configured `safe_state` after `timeout_ms`" (`docs/INSTALLER_GUIDE.md:156-158`).
- `RuleEngineStale`: the else branch acts on a stale reading.
- `RuleEngineRaises`: an action or an event that raises makes the rules before it
  act on one press again (`ActsOncePerPress`).
- `HotReloadThreads`: an output energized between the walk and the swap is
  dropped energized, though "a re-addressed or removed output is never left
  energized" (`schemas/io_v2.schema.json:120`).
- `EngineSwapMixed`: two reloads at once leave attributes of different documents.
- `ConfigLifecycleDiverges`: the watcher undoes a PUT; engine and file stay apart.
- `OtaUpdatePolled`: a cycle of the poll thread between the rollback and its
  write of the file reloads the document that has just failed.

### Properties that do not hold

Each is defined in its module and TLC refutes it when it takes the place of the
properties in the configuration named, under the constants there or as changed.
Together with the counterexamples above they mark where the passing properties
end.

| property | configuration | why |
|---|---|---|
| `ConsecutiveCycles` | `ReadPath` with `ReadSpec` | "consecutive cycles" (`debounce.py`) may have stale cycles between |
| `EachWritten` | `TestWrite` | an event that cannot be filed ends the pass; the other reverts that were due are off the list and not written |
| `NeverLeftEnergized` | `TestWriteLostAnswer`, `Faults` `{"refused"}` or `{"unlogged"}` | a refused revert is not repeated; `log_event` raises between the write and the scheduling of its revert |
| `KeptUntilTimeout` | `TestWriteLostAnswer`, `Faults` `{}` | the earliest revert ends every test of the output |
| `LiveViewTrue` | the same | two threads write coil and snapshot in different orders |
| `PulseLastsItsTime`, `PressNotLost` | `RuleEngine` with `Spec` | the earliest revert ends every pulse; a failed read swallows an edge |
| `NoneLost` | `RuleEngine` with `Spec` | an event that cannot be filed comes between a pulse's write and its listing, or before the next due revert: the output stays energized |
| `ActsOncePerPress` | `RuleEngine` with `Spec` | the same exception skips `_prev_values.update`: one press acts again |
| `DroppedNeverEnergized` | `HotReload` | an output whose write to the safe state failed is dropped all the same |
| `RevertsAreSafe` | `HotReload`, `Faults` `{}` too | a revert writes a safe state that has changed since |
| `NoneLost` | `HotReload`; `HotReloadTests` with `Faults` `{}` | a revert for a removed point raises KeyError and takes those behind it along, and so does an event that cannot be filed, though a revert should be "completing on its own timer" (`test_write.py:37-39`); a second cycling thread replaces the list of reverts by what it has left of an older one |
| `RejectedTouchesNothing` | `HotReload` | a version 1 document passes `validate_io`, has the outputs driven and is refused when the clients are built |
| `OutputsCovered` | `HotReloadThreads`, `Configs` `{base1, edited}` | the pulses of a replaced rule engine are forgotten |
| `CycleNotCut` | `EngineSwap` | a cycle in the middle of a swap looks a new point up in an old table: KeyError |
| `GoesHome` | `EngineSwap` | a write between two assignments goes to the unit of one document on the host of another |
| `RetiredAreClosed` | `EngineSwap` | a client looked up before the swap is used, and so reopened, after it |
| `LkgIsPrevious`, `AckedIsRunning`, `KnownGood` | `ConfigLifecycleThreads` | two reloads back up each other's document; the watcher undoes a PUT that is answered with success; two threads write a backup over each other |
| `AlwaysConverges` | `ConfigLifecycle` | a reload that raises in its walk leaves the version counted as seen: the valid file is never looked at again |
| `ExactRollback` | `OtaUpdate`, also with `Crashing` `FALSE` | the check's own cycle picks up an edited file, fails on it, and the rollback goes to the updated document |
| `EveryUpdateIsChecked`, `FailedNeverStays` | `OtaUpdate` | an event that cannot be filed (`ota.py:180`, `187`) leaves an update unchecked, or one that failed its check running |
| `Readable` | `AdminApi` | a request opens the temporary file that another is about to rename: `ctrl_id.json` is empty, and a crash then leaves a unit that never boots again; so does one during the first boot |
| `NamedHasLived` | `AdminApi` | a request renames another's document and names its own |
| `NoLostUpdate` | `AdminApi` | of two edits of different fields at once the second undoes the first |
| `StampIsCurrent` | `AdminApi` | the engine stamps its events with the identity it was started with |
| `InForceIsRecorded` | `AdminApi` | applied, and dead before it is recorded; or two requests record each other's settings |
| `OneMasterAlways` | `ConfigIntake` | a register point with `fn` `write_coil`, two units of one host or two serial devices that answer as slave 1 share a coil unseen, and so do two rules of one id |
| `Replaceable` | `ConfigIntake` | a `digital_out` whose `fn` reads: the walk of every reload raises |
| `Answers` | `ConfigIntake` | a `set` without a point in an else branch: the validator raises KeyError |
| `MigratedIsValid` | `ConfigIntake` | two buttons of one unit with one lamp, two outputs at one address, or two devices with one unit are valid in version 1 and refused in version 2 (`migrations/__init__.py:9-11`) |
| `RuleIdsApart` | `ConfigIntake` | a button `fault_fault` beside a register `fault`: both synthesized rules have one id, and contention between them is not seen |
| `OnlyTheReference` | `ConfigIntake` | "exactly one register" (`v1_to_v2.py:8-13`), yet none or several pass the migration |
| `NothingRaises` | `ConfigIntake` | a point of several registers compares as a list, a digital_out that cannot be written, an else action without a type: accepted, and every cycle raises |
| `SlaveIsUnit` | `ConfigIntake` | a serial device that has kept its tcp block is addressed as slave 1 (`point_io.py:30-31`) |

### Fairness

- The poll loop keeps calling `run_cycle`: weak fairness of the poll thread's
  steps (`ReadPath`, `RuleEngine`, `TestWrite`, `ConfigLifecycle`); strong fairness
  of the watcher's look in `ConfigLifecycle`, which handlers can disable again and
  again where one operation runs at a time.
- `ReadPath` adds strong fairness of `File`: a database that is offered the event
  in cycle after cycle takes it at some time. A database that never takes an event
  leaves the outage unlogged, and every cycle cut off there.
- A handler that has passed its checks runs to its end: weak fairness. Clients
  owe nothing, so no fairness of requests.
- Time passes and a process that is down is restarted: weak fairness.
- No fairness of the bus: `SettledInputIsShown` is about readings that settle.
- `HotReload`, `EngineSwap`, `OtaUpdate`, `AdminApi`, `ConfigIntake` and
  `AtomicWrite` state safety only and assume none.

## What is proved

TLAPS checks these for every value of the constants that satisfies the
assumptions of the module.

| theorem | beyond that | argument |
|---|---|---|
| `DebounceProofs!Refinement` | | invariant: while the output has a value, `count` is the length of the run of readings that differ from it (`RunCounted`); each branch maps to a step of `DebounceSpec` |
| `DebounceProofs!ReadRefinement` | | every step of the read path is a step of `Debounce` or leaves it alone, once a thread past the debouncer is known to hold a reading; any number of polling threads |
| `DebounceProofs!LogsMatch` | one polling thread | invariant `Told`: between the event and `Remember` the log is one ahead of `_stale_state`, otherwise they agree |
| `StoreProofs!WholeDocuments`, `OwnDocuments` | `DistinctPids`: one writer per process | invariant `OwnFile`: a writer's file is the one its temporary name refers to, nobody else's, and not the path; without it a rename could publish a file another one has open |
| `TestWriteProofs!NoRevertLost` | | `TestCovered` with the types is inductive: the only steps that move an output off its safe state open a request, the only ones that close one write the safe state back or fault |
| `HotReloadProofs!DroppedSafe`, `SwapsFromSafe` | `~Concurrent` | invariant: at most one thread is off `idle` (`Sole`), a point that has been walked rests (`Walk`), `rest` agrees with the running document (`RestMatches`); the address-conflict rule is needed so that driving one output does not move another |
| `HotReloadProofs!NothingStranded` | `~Concurrent` | inductive together with the invariant above and with the cycle's rule engine being the current one (`RulesNow`), since a pulse of a replaced one would be listed where nobody looks; `RevertComing` counts the reverts in the threads' local variables as well as the lists; what goes with an exception is in `lost` |
| `HotReloadProofs!TestsNeverStranded` | `SameOutputs`: the documents agree on the outputs, their coils and safe states; all threads at once, any number of them cycling, with rules | what a thread has read of one document then holds of every other; the pulses that a new rule engine forgets, and those listed too late, are of outputs that rules write (`RulesPulse`), and `TestsCovered` is about the others |
| `HotReloadProofs!NoRevertLost` | `SameOutputs`, one cycling thread, no `"unfiled"` in `Faults`; all threads at once | `lost` stays empty: every revert on a list or in hand is of a known output, so that none raises (`AllKnown`), and the one cycling thread scans a list that nobody replaces but with its rule engine (`InPlace`) |
| `EngineSwapProofs!LookupsGoForward`, `SettlesOnOne`, `ClosesRetiredOnly` | one reload at a time | invariant `Stairs`: in the middle of a swap the attributes assigned are of the newest generation and the others one behind; the order of the assignments then puts clients before devices before points (`StairsOrdered`), and what a thread holds is never newer than where it came from (`Behind`) |
| `ConfigLifecycleProofs!NoBadDocumentRuns` | none, threads at once in their temporary files | invariant: the document in the hands of a thread past validation is valid (`HandGood`), what a file holds is a document that some thread wrote into it, or torn |
| `ConfigLifecycleProofs!OnlyKnownGood` | `~Concurrent` | the former, and no thread has a rival, so no write is torn |
| `ConfigLifecycleProofs!StoreRefinement` | `~Concurrent` | the invariant of `LkgIsWhatRan` below, with the version history in it as well: at the swap `.lkg` and the history both hold what runs. Then each action is a step of `ConfigStore` or changes nothing of it, by the pc of the one thread under way; `HandGood` makes what comes into force valid |
| `ConfigLifecycleProofs!LkgIsWhatRan`, `AnswersAreTrue` | `~Concurrent` | invariant `Progress`, for the one thread under way, by its pc: from the backup to the swap `.lkg` holds what runs, from the swap to the answer the thread's document runs |
| `ConfigLifecycleProofs!SavesAreKept` | `~Concurrent`, `~Rollbacks`, `~Editing` | invariant `InStep`: engine and watcher agree with the file but for the reload under way, which is one version ahead and has put the file's document into the history; so a number is never given twice (`SavesKept`). `ConfigLifecycleHistory` refutes it with rollbacks; with an editor a crash after the edit loses the save the edit went over |
| `RuleProofs!PulsesAreTakenBack` | any rules, raising ones included | `PulseCovered` with the types, and with `PulsesRest`: a pending pulse of an output that no rule sets carries the safe state. A cycle leaves such an output alone, pulses it and lists the pulse, or takes it back; a write to a device that has stopped answering leaves it faulted, and one whose event is not filed leaves it lost |
| `RuleProofs!OnePressActsOnce` | any rules, raising ones and events that raise included | invariant `Witnessed`: an input remembered as low has been low since its rule last acted, or the rule has acted in a cycle cut short and none has run to its end since (`repeats`); that such a press acts again is `RuleEngineRaises` |
| `RuleProofs!WhatIsAcceptedRuns`, `NoCoilHasTwoMasters`, `ExactlyTheTopologyMigrates` | documents of any number of points, devices and rules | invariant `IntakeInvariant`: a document is the given one or what migration makes of it (`Handed`), has passed the checks of its stage (`Passed`), has not raised if it is tidy (`Calm`), and what it wrote is what one of its rules writes (`Credited`). The rest is about the operators: what `Rejects` leaves through can be built, resolves every point and, if it is separate, gives each coil to one rule; `Migrated` fails or breaks a check exactly where the topology cannot be said in version 2 |
| `OtaUpdateProofs!RollsBack`, `FailedRemoved` | `~Polling`: no poll thread beside the update | invariant `InHand`: until the check the target runs, `.lkg` holds what ran before and the watcher has seen the target's version, so the check's cycle either leaves both alone or brings a document of another version; afterwards `.lkg` holds something else than what failed |
| `StoreProofs!BootIdNeverChanges`, `EditsAreTraceable`, `RecordsWhatWasApplied` | none, requests at once in one temporary file | what a file holds under either name is unreadable or a document that some request has written (`WrittenFile`, `RenamedFile`). `Carried`: requests and the temporary file carry the boot_id of the unit; `Disk`: what is in the file is on record as having been there; `TmpNamed`: what is about to be renamed has a name, and keeps it (`NamedKept`); `Effected`: so too for settings and having been in force |
| `TypeCorrect`, `ReadTypeCorrect`, `WriteTypeCorrect`, `EngineTypeCorrect`, `IntakeTypeCorrect` | `DistinctPids` for `WriteTypeCorrect` | the types, with which variables are empty where |

TLC checked every inductive invariant's consequences first; the same runs give
the mutants that each theorem's property excludes.

The assumptions come from the code. `RuleEngineAssumption` and `IntakeAssumption`
type rules and documents as the JSON schemas do, one condition to a rule as
`validators.py:95-102` has it; `HotReloadAssumption` has the address-conflict rule
of `validators.py`. Nothing bounds a document: `RuleEngine` and `ConfigIntake` are
about sequences of any length, and where one would argue by induction along a
sequence the proofs take the least position at which the claim could fail
(`Least`). Where code or model counts (more than one rule for a coil, as many ids
as points) the proofs go over to pairs by the library's theorems on finite sets.

`~Concurrent` and its likes are not conveniences of the proofs: without them TLC
refutes the properties, see above.

Only model-checked: the liveness properties (`SettledInputIsShown`,
`OutageIsLogged`, `BackToSafe`, `RevertAttempted`, `PulsesEnd`, `Converges`), since
fairness and ENABLED are beyond TLAPS here. No module has a RECURSIVE operator.

## Not modelled

Sessions, tiers and export, the synchronisation reference, the UI mock-up: I/O
or lookups without a protocol, or no code. Of the bus scan, the TCP variant; of
the event log, the table and its readers; of the system settings, the
reachability test of the broker; of pymodbus, the wire protocol and the lock of
the shared serial client. The JSON schemas are the shape of the documents handed
to `ConfigIntake`. A disk that refuses a configuration file (`ENOSPC` out of `atomic_write_json`),
power loss between write and rename (the file is not synced),
wall clocks that step, and pending reverts lost with the process are listed as
hazards without a property: there is nothing in the code that meets them. Of
`ota.py` the signature check is taken to have passed; since the engine runs
schema 2 only, an update through the API carries the running document itself
today, and `Migrated` of `OtaUpdate` also offers the ones a later schema would
bring.

## Plan

Done: the modules and theorems above, in the order `Debounce`, `AtomicWrite`,
`TestWrite`, `RuleEngine`, `HotReload`, `ConfigLifecycle`, `OtaUpdate`, then
`EngineSwap`, `AdminApi`, `ReadPath`, `ConfigIntake`.

After them `ConfigStore` and that `ConfigLifecycle` implements it, `RuleEngine` and
`ConfigIntake` proved as well as checked, test writes never stranded for all
threads at once, and every save kept where nobody rolls back.

Then the failures that cut a step short: an event that cannot be filed in
`RuleEngine`, `HotReload`, `ConfigLifecycle` and `OtaUpdate`, and the temporary
file that two threads of one process share in `ConfigLifecycle` and `AdminApi`.

Left: which of the properties of a single reload survive the lock that the code
lacks, for documents that differ in one output only.
