# A TLA+ development of occt-native

occt-native is a hardware stress tester (C++17, Qt 6): engines load the CPU, the
memory, the GPU, the disk and the power supply and verify what the hardware gives
back; a scheduler chains engines, a guardian stops them when a sensor is too hot, and
a GUI or a command line starts them and reports a verdict.  What it promises is a
*verdict*: a test that passed found no error, a test that was told to stop stopped, and a
healthy device is not blamed.  Those promises cross threads, locks, late metrics and
misbehaving devices, where unit tests (`src/tests`) hardly reach.  The modules here state
and check them.  Paths below are relative to the repository, `src/src/` being its
source tree.

## 1. Inventory

| Component | State it keeps | Operations | Interacts with |
|---|---|---|---|
| Storage verify modes (`engines/storage/storage_verify.cpp`) | loop counters, test file, `metrics_`, `stop_requested_` | four mode functions: write, flush, reopen, verify | the device; `stop()` from GUI, CLI, guardian; consumers of `get_metrics()` |
| Storage engine (`engines/storage_engine.cpp`) | worker thread, pool of I/O workers, `test_file_path_` | `start`, `stop`, `run`, five performance modes | panels, scheduler; a detached thread that deletes the file |
| CPU engine (`engines/cpu_engine.cpp`, `engines/cpu/`) | `running_`, worker, cycling and metrics threads, verifier, per-core flags and counts | `start`, `stop`, `worker_thread`, `metrics_thread_func` | panels, CLI, scheduler, guardian, PSU engine |
| RAM engine (`engines/ram_engine.cpp`) | buffer, `metrics_`, worker thread | `start`, `stop`, `run`, test patterns | same clients |
| GPU engine (`engines/gpu_engine.cpp`, `engines/gpu/`) | worker thread, OpenCL/Vulkan contexts, artifact counts | `initialize`, `start`, `stop` | drivers; same clients |
| PSU engine (`engines/psu_engine.cpp`) | controller and metrics threads, the CPU and GPU engines it owns | `start`, `stop`, load patterns | CPU and GPU engines |
| Test scheduler (`scheduler/test_scheduler.cpp`) | steps, active group, results, total of errors, engines | `load`, `start`, `stop`, `onTick` | engines, by polling `is_running()` on the GUI thread |
| Safety guardian (`safety/guardian.cpp`) | limits, registered engines, `emergency_triggered_` | `start`, `stop`, `check_loop`, `emergency_stop` | sensors; every engine's `stop()` |
| Panels and main window (`gui/`) | `isRunning_` per panel | start/stop button, 500 ms timer, destruction | engines, guardian |
| CLI runner (`cli/cli_runner.cpp`) | verdict, results, copies of metrics | one branch per test type, combined tests, schedules, certificates, stores, exit code | engines, scheduler, stores; a guardian and a WHEA monitor of its own |
| Sensor manager and LHM bridge (`monitor/sensor_manager.cpp`, `lhm_bridge.cpp`) | `readings_`, the WMI connection, failures of the helper program | `initialize`, `poll_wmi` and others, accessors | the operating system; guardian, panels, CLI |
| WHEA monitor (`monitor/whea_monitor.cpp`) | polling thread, error count | `start`, `stop`, poll loop | CLI |
| Certificate store, leaderboard (`api/cert_store.cpp`, `benchmark/leaderboard.cpp`) | a JSON file each | submit, verify, list, save by a second name | CLI |
| Certificates, reports (`certification/`, `report/`) | none of their own | generate, render, compare | CLI, GUI |
| Utilities (`utils/`) | a log file, a settings file | detection, CRC32, logging | everyone |

Which behaviours are hard, and what makes a component correct:

* *Storage verify.* Every block written once, then judged once, with unsigned
  counters at their edges and a stop at any point.  Correct: no false alarm, no missed
  counterfeit, agreeing error counters.
* *CPU engine.* Any worker ends the test for all by itself, leaving threads nobody has
  joined; metrics are a sample, half a second old, taken while workers go on; an error is
  entered in three places.  Correct: metrics belong to this test, books agree, the test
  ends when it should.
* *Scheduler.* Engines end by themselves between two ticks, and during the joins of a
  group.  Correct: one result per step, in order; verdict equal to results; no
  engine outlives its group.
* *Guardian.* It and the GUI stop and start the same engines; each `stop()` holds a lock
  while it joins.  Correct: no engine survives an emergency, no deadlock on closing.
* *RAM.* What March C- finds depends on the order of every read and write; a stop may come
  between any two.  Correct: no false alarm, no missed fault, a test that ends.
* *Storage engine.*  A pool of threads shares one counter and one open file; a thread that
  nobody waits for deletes the file while the next test may be writing it.  Correct: a sound
  disk gives no error, "completed" means done, no file is left, a test ends.
* *GPU, PSU.*  Some forty driver calls may each refuse, with the worker in the middle of
  its set-up; the PSU engine's controller starts and stops loads while `stop()` stops them.
  Correct: no driver object is left, a sound card is not blamed, no load outlives its test.
* *CLI.*  Callbacks of engine threads write to local variables of a branch; each branch makes
  its verdict in its own way.  Correct: the exit code tells of the errors found, every
  command returns.
* *Sensors.*  Two sources answer in turn and fail apart; readings are never removed.
  Correct: what is read is what the guardian looks at.
* *Stores.*  Remove and rename, with crashes and refusals in between.  Correct: what was
  put into a store stays there.

`PROJECT.json` lists under "hazards" every such place with its line, and the
properties that cover it.

## 2. Modules

| Module | Models | Checked by |
|---|---|---|
| `IntegrityContract` | what a data-integrity test promises, whatever order it walks the file in | as a property of `MCStorageVerify` |
| `StorageVerify` | the four mode functions, the device, `stop()` | `MCStorageVerify` |
| `StorageVerifyProofs` | inductive invariants, the refinement, ten theorems, three of them about the contract | TLAPS |
| `TestScheduler` | the scheduler and the threads of four engines | `MCTestScheduler` |
| `TestSchedulerProofs` | inductive invariant, four theorems | TLAPS |
| `CpuEngine` | workers, cycling thread, metrics thread, `start`/`stop` | `MCCpuEngine` |
| `CpuEngineProofs` | inductive invariant, three theorems | TLAPS |
| `RamEngine` | the RAM test: patterns, worker, `start`/`stop`, a memory with a faulty cell | `MCRamEngine` |
| `RamEngineProofs` | inductive invariants, four theorems | TLAPS |
| `StorageEngine` | worker, pool, deletion of the file, benchmark | `MCStorageEngine` |
| `StorageEngineProofs` | inductive invariant, five theorems | TLAPS |
| `GpuEngine` | worker, backends, driver objects, VRAM patterns, frames | `MCPsuEngine` |
| `PsuEngine` | extends `GpuEngine` by the PSU engine's controller and metrics thread | `MCPsuEngine` |
| `PsuEngineProofs` | inductive invariants, five theorems about a GPU, alone or inside a PSU test | TLAPS |
| `SensorManager` | one thread's polls of WMI and the LHM helper, `readings_` | `MCSafetyGuardian` |
| `SafetyGuardian` | extends `SensorManager` by guardian thread, GUI thread, engines and their locks | `MCSafetyGuardian` |
| `SafetyGuardianProofs` | inductive invariant, three theorems | TLAPS |
| `FileStore` | the files of `CertStore` and `Leaderboard` | `MCCliRunner` |
| `CliRunner` | extends `FileStore` by the commands, engines through their interface | `MCCliRunner` |
| `CliRunnerProofs` | inductive invariants, three theorems | TLAPS |

An operator whose comment begins with `Mutant:` is a plausible bug in the definition that
follows it.  No specification uses it; replacing that definition by it breaks the
property `PROJECT.json` names with it, so each property is known to depend on the code.

`TypeOK` is proved of the contract, of every engine (`PsuTypeOK` covers `GpuEngine` and
`PsuEngine`), of `TestScheduler` and of `SafetyGuardian`; the runs of `StorageVerify` and
`RamEngine` check it as well, since there it says what a counter at its edge does.
Some properties are stated and listed in no run, because the model refutes
them where no document promises them: they are the observations at the end of section 4.

### StorageVerify

`pc` is where the worker is: the write loop (`write`, `written`; for BUTTERFLY `write_low`,
`write_high`, `count_pair`), the flush and reopening (`sync`), the verify loop (`read`,
`judged`), back in `run()` (`returned`).  The four functions differ in the order of blocks
(`cfg.order`) and in BUTTERFLY's write loop only, so they share their actions.  `low` and `high`
are `uint32_t`: arithmetic is modulo `Word`.  A block is a record of the header's fields
and its payload; a payload is its pattern and the phase at which the pattern is laid
down, with the period each pattern has in `generate_pattern` (256, 2, 8 or none), which is
what makes two blocks confusable.  CRC32C is taken to tell payloads apart.  `write_timestamp` and
`pass_number` are stored and never looked at, so they are left out.

The device (`write_block_at`, `read_block_at`, `Decay`) may refuse, lose, damage or
misdirect a block, or fail to open, `MaxFaults` times, and memory for a block may be
missing (`BufferMissing`); a counterfeit device maps several
addresses to one cell (`cfg.cell`) with no fault at all.  A refused write leaves the cell as
it was, and reading a block past the end of the file is a short read.  The duration is
a test that may turn out either way whenever one was given.  Metrics are updated in one
lock-protected block of code, hence in one step; the verify modes never call the metrics
callback, so consumers see them through `get_metrics()` only.

`IntegrityContract` is the abstract specification: `Attempt` each block, `BeginVerify`,
`Check` each block, `Conclude`, or `Abandon` at any point.  An error may be
charged in the write phase only with a fault, and in the verify phase exactly if the
device would not return the block, or misbehaves.  `StorageVerify` instantiates it with a
mapping (`PhaseBar`, `TodoBar`; `intact` is the set of blocks the device holds as
written).

### TestScheduler

One variable per member of the class; `pc` says whether the GUI thread is in its event loop,
inside `advanceToNextStep()`, which starts the steps of a group one by one while the engines
it has started are already at work (`start`, `StartStep`), or inside `stopCurrentEngines()`
(`look`, `join`), whose loop is stepped through because each `stop()` joins a thread while
other engines go on.  An engine is a record: `running_`, its thread
(`none`, `live`, `exited` but not joined), the errors it has found, those `get_metrics()`
shows, and its own time limit.  The CPU shows errors from a metrics thread (`Publish`); the
others count in their metrics directly.  `StartEngine` keeps the differences between the
four `start()` functions: the CPU restarts, the others refuse; the storage engine joins
an old thread, the others terminate the program.  One clock serves the steps and the
engines' own limits, which is sound because no engine outlives its group
(`OnlyActiveRun`, checked).

### CpuEngine

Each worker is in its loop's head, in a batch, about to mark its core, or about to tell the
others to stop; the metrics thread has a step for each of the moments at which it reads
something.  `holder` is the call that holds `start_stop_mutex_` and waits in a join.  A
batch passes or fails; how a failed one is entered in the verifier depends on the mode
(`Entries`; `Counted` is the set of failed batches, so that a total over the cores is the size of a
set): SIMD modes enter every wrong lane, PRIME enters the outcome of the *last*
repetition, LINPACK a worst residual that may be 0.
Left out: what the kernels compute, operands of the VARIABLE pattern, temperature and power.

### RamEngine

Every pattern is a sequence of sweeps (`SweepsOf`): a direction, what each word is expected to
hold, and what is written to it.  `Visit` is one turn of a loop: read and compare, call
`report_error`, then write, whether or not the error has just stopped the test.  All loops
test `stop_requested_` at every turn, so a stop leaves all that remain (`EndPass`).
`fault` is what is wrong with the memory, one fault of those the pattern's comments
name; `Store` is an external definition, from the usual fault models.  `start()` on a
worker that ended by itself and was not joined terminates the program (`terminated`), which
is what assigning to a joinable `std::thread` does.  Allocation may fail.  Caches are left
out: all patterns but BANDWIDTH, of which nothing is demanded here, flush them between
writing and reading.  The log of errors, progress and page locking are left out;
`stop_on_error` is set before the test.  A walking pattern has `Width` bits in place of 64.

### StorageEngine

`worker` is where `run()` is: allocating, filling the file (`create`, `fill`), opening it, in
a sequential mode (`seq`), waiting for the pool (`pool`, `join`), in a verify mode
(`verify`, `written`, `reopen`), closing.  The unit of a file is one I/O: `B` of them make a
test, `pass` counts those of a sequential pass, and the three random modes share `Begin`, `Fetch` and
`IO`, one action per step of a pool thread between two accesses to shared state.  The
file is a name (`exists`), its content (`data`) and an open handle (`fd`); creating it
empties it.  `Delete` is the detached thread that `stop()` leaves behind: a file that
is open is unlinked, or on Windows refused.  A verify mode is a few steps here, whose block
loop is `StorageVerify`.  Rates, latencies and the callback are left out.

### GpuEngine and PsuEngine

The worker opens a device, compiles or builds, allocates, loops and releases; each call of the
driver may be refused (`Refuse`), and `held`, `lost` are the driver objects whose handle is
kept or was written over.  Kernels are represented by the first and last compiled, since
what matters is that some came before a refusal.  VRAM is words of a few bits; `Pattern`
is what each step writes, `Reached` the words its work-items come to, `ErrorCounts` what
reading back may count on a card with a stuck bit or two words in one cell.  In FMA mode
`cpu_steps` is how often the reference followed the kernel; a frame is what a pixel
comparison tells apart.  A workload whose buffer is refused leaves `running` set, as in
the code.

`PsuEngine` adds the controller, one step per call to a load, its metrics thread and
`stop()`, which waits in the GPU's own `stop()`; the CPU load is the flag `cpu_running`,
because all the PSU engine asks of it is `is_running()`.  A behaviour is about a GPU
engine of its own or one inside a PSU engine (`psu_used`).  Frames per second, usage,
temperature and watts are left out: nothing acts on them.

### SensorManager and SafetyGuardian

`SensorManager` follows the temperature of the CPU on Windows, where the guardian's readings
come from two sources: the LHM helper, given up after `MaxFailures` failed polls, and the
thermal zones of WMI, asked when the helper gave nothing.  `readings` is `readings_` in the
order of first entry, which is the order the accessor searches it in.  A poll is one step,
because it enters one temperature and its reader takes the same lock.  Other sensors have the
same path; Linux and macOS read one source in every poll.

An engine is a record of `running_`, its thread, whether the thread was told to stop, and who
holds `start_stop_mutex_`.  `ClearsFirst` and `JoinsOld` are the two differences between the
engines' `stop()` and `start()` that matter here: whether `running_` is cleared before
the join, and whether an unjoined thread is joined by the next start or terminates the
program.  The GUI thread clicks, ticks, and in the end closes the window: the guardian
first, then the panels, whose destructors stop their engines.  `todo` is what the sweep
has not come to yet.  Polls after the guardian's last look are left out (`Watched`).  The
loop's WHEA test is left out: nothing calls `set_whea_monitor()`.

### CliRunner and FileStore

`pc` is where `run()` is, one program after another (`shell` in between), with the two
stores surviving.  A command creates its engines, starts them, waits, collects a result each
(`Branch` holds what the five branches do differently), leaves the scope of its locals, and
destroys engines and guards in the order of the code.  Engines are their interface: `found`
what one has counted, `last` the command's copy, `meter` the thread that calls back, which
looks at `running` and calls later.  A schedule's results are any, as `TestScheduler`
gives them.  `certificate` is the document `generate_json` made, before `compute_hash` ran.

`FileStore` has the steps of `save_db` with everything that may go wrong at each: an open that
is refused, a short write, a `close()` that loses what was buffered, a refused remove or
rename, and a crash (`Crash`).  A file is absent, torn, or a whole document; a torn one parses
as an empty store, as in the code, and so does one that cannot be opened or read, by a
query (`ReadRefused`) or by a save (`Load`, which `unread` remembers).  `gap` remembers the
three ways in which the code does lose a store: an end between remove and rename, a `close()`
that fails, and a file that was not read and is replaced.  `StoreSurvives` shows that there is no
fourth: a refused read alone, or before a save that fails, loses nothing.

## 3. Runs

| Run | Instance | Shows |
|---|---|---|
| `storage_verify` | files of 0 to 4 blocks, all four modes, every order of up to 3 blocks and one of 4, genuine device and one of two cells, with and without `stop_on_error` and a duration, one fault, log of two entries | no false alarm, counterfeits reported, error books agree, the first error is the last under `stop_on_error`, nothing verified before all was written, termination, and the contract |
| `test_scheduler` | three schedules with a parallel group, an engine used twice, a step of no duration and an unknown engine; two starts | results are sound (in order, equal to the verdict, nothing carried over), no engine outlives its group, schedules end |
| `scheduler_false_pass` | a CPU and a RAM step | **violation**: a step whose engine ended by itself passes, whatever it found |
| `cpu_engine` | two cores, two tests in a row, SIMD and PRIME, all combinations of duration, cycling and `stop_on_error`, one failed batch per test | metrics are of this test, the three books agree, the test stops at an error and at its duration, errors surface |
| `ram_engine` | three words of two bits, all patterns, a stop at any word; two passes and two starts on a sound memory and one with a stuck cell, one of each with every other fault of a cell or between two | no false alarm after any stop and restart, the first error is the last with `stop_on_error`, a complete pass finds the faults its pattern is there for, a test ends |
| `storage_engine` | files of two I/Os, two pool threads, all modes, two tests in a row, one refusal per test, the benchmark | a sound disk is clean, the pool works on an open file and does each operation once, completed means done, no file is left, tests end |
| `gpu_psu` | two machines, five cards (sound, computing wrong, two stuck bits, an alias), seven GPU modes, three PSU patterns, two tests, one refusal | a sound card is clean, VRAM faults in reach are counted, handles are released, loads end with the PSU test, tests end |
| `guardian` | two engines (one of each kind), a helper given up at its second failure, one WMI zone, two levels of heat, two starts | engines that ran at the emergency are stopped, closing leaves no thread and does not deadlock, heat is noticed before the window is closed, whatever was started and stopped |
| `guardian_sweep` | the same | **violation**: an engine started during the sweep survives it |
| `sensor_silent` | the same, no engine started | **violation**: the reading of a helper that was given up is still given |
| `cli` | three commands in a row from one of three menus (tests, combined tests, schedules and stores), schedules of up to three steps, two entries, two mishaps | the exit code tells of every error but three named blind spots, only a metrics thread calls after its command's locals are gone, stores survive but for three gaps, commands return |
| `cli_false_pass` | one command | **violation**: a storage test that failed ends with exit code 0 |

*Bounds.*  Four blocks make BUTTERFLY meet an empty, a single-block, an odd and an even
file; two cells make a counterfeit of every file of three or more.  One fault is enough
for every unsound verdict, since a verdict is about one block, and two log entries put the cap
within reach.  `Word = 16` leaves room for every counter a correct run reaches and
makes a wrap visible.  Two starts are needed for anything an earlier test may leave
behind, in every engine; two cores for an overlap and a turn that moves on; two engines for
a sweep that is at one while the GUI starts the other.  Three words give a faulty cell
neighbours on both sides, so a coupling is tried upwards and downwards, and two bits one
of each value in the checkerboard; `OnePassForMost` is the constraint that gives a second
pass and start to the sound and the stuck memory only.  In `storage_engine` two I/Os and two
pool threads are enough to share a counter, to have one thread late, and to have a file
that is only half there.  Five VRAM words in groups of two leave a last word that
no work-item reaches, which is why `VramFindsItsFaults` names those it is about.
`MaxFailures = 2` tells a failure from the last one.  Two mishaps let a save fail on a store
that an earlier one left half done; three commands, a save, another and a query.
Counters of dispatches and errors are counted up to `MaxDispatches`, `MaxErrors`.

*Deadlock* is checked in `storage_verify`, where `Terminated` is the only end; elsewhere the
bounds on starts, or a program that was terminated or is over, let the system stop.  There
the liveness properties do that work.

*Fairness.*  Threads the operating system schedules are weakly fair; what a user, a
device or the driver might do never is.  `StorageVerify`: the worker.
`TestScheduler`: the tick timer, the clock, and the exit of a thread told to stop.
`RamEngine`: the worker and a stop that waits for it, never a client.  `CpuEngine`:
strong fairness for a worker, because under core cycling a worker is
enabled off and on: it looks every 10 ms and its turn lasts 150 ms, so it cannot
miss every turn.  `StorageEngine`: the worker, each thread of the pool by itself, the
detached deletion, the clock.  `GpuEngine` and `PsuEngine`: the worker, both threads of the
PSU engine, a `stop()` that was called, the clock.  `SafetyGuardian`: strong fairness for the
guardian, whose waits for an engine's mutex are enabled off and on while the GUI starts and
stops; weak for what the GUI thread is already waiting in, and for the polls of the
sensors.  `CliRunner`: the program, the clock, metrics threads, and that an engine
with a duration ends, which is what `EndsAtDuration`, `TestEnds` and `TestsEnd` of the engines'
own modules show; it is not assumed of a GPU that was refused a buffer.

## 4. Findings

Four runs are violations: the code does something its comments exclude.  Each trace was
followed in the source.

1. *A failing step passes* (`test_scheduler.cpp:232`).  Errors are read only while
   the engine runs; a CPU test whose own clock runs out before the tick is recorded
   as passed with no errors, and a certificate with it (`certificate.h:48`: "all
   errors == 0").
2. *The sweep misses engines* (`guardian.cpp:142`).  An engine started while the sweep joins
   another one runs on, and the guardian has ended itself.
3. *A silent sensor goes on speaking* (`sensor_manager.cpp:219`).  Once the helper is given up,
   its last temperature stays in front of the zones still read, and the guardian sees no
   other (`sensor_manager.h:61`: "return 0 if sensor not available").
4. *A failed storage test exits with 0* (`cli_runner.cpp:365`).  The branch does not clear
   `test_passed` (`cli_runner.h:16`: "0=PASS, 1=FAIL").

Observed while modelling.  No run lists these: either nothing is said against them, or a comment
of a few words is, which is quoted with each.

* The CPU's metrics thread leaves without a last sample, so the error that ends a test is
  the one lost (`cpu_engine.cpp:652`; `FinalMetricsComplete`).
* A failed PRIME repetition followed by a good one flags the core and leaves `error_count`
  at 0 (`cpu_engine.cpp:432`; `FailureIsRecorded`); LINPACK the same, when its residual
  is a NaN.
* MIXED truncates the file it has just filled (`storage_engine.cpp:451`; `MixedFindsItsFile`),
  against "For read modes, create the file first" (l. 347).
* The FMA reference follows the kernel by one run from check to check, which are a number
  of dispatches apart (`FmaIsClean`), so that on a sound card, too, "Relative error > 0.1%
  indicates a compute error" (`gpu_engine.cpp:702`) is not so.
* A certificate's hash field, "tamper detection" (`certificate.h:49`), is empty when it is
  written, and the store refuses an empty hash (`cli_runner.cpp:974`; `OwnCertificateUploads`).
* A PSU test's errors begin again with each start of its loads, against "Error counting is
  cumulative" (`psu_engine.cpp:229`).
* A WMI connection that is lost and cannot be made again silences the helper, too
  (`sensor_manager.cpp:877`; `AllHeatIsNoticed`).
* A store is lost by an end between remove and rename, which the code calls "Atomic rename"
  (`cert_store.cpp:55`); by a `close()` whose failure is not looked at (`:48`); and by a file that
  is there and cannot be read, which is taken for an empty store and replaced by the one new
  entry (`:29`, `leaderboard.cpp:42`).  Two programs that save at once share one
  temporary name, which is not modelled.
* A verify mode that gets no memory for its block returns without a word
  (`storage_verify.cpp:316`, `:703`), and `run()` calls the test completed, with no error.
* The CLI's guardian reads a `SensorManager` nobody polls (`cli_runner.cpp:180`); the
  leaderboard's `submit` says "Submitted" whatever happened, with the scores of a program that
  tested nothing.

## 5. Proofs

TLAPS checks these theorems, for every value of the constants that the named assumptions
allow.  The assumptions say that constants have their types and bounds are numbers
(`SchedulerAssumption`, `CpuAssumption`, `StorageEngineAssumption`, `GuardianAssumption` with
`SensorAssumption`, `CliAssumption` with `StoreAssumption`) and little else: files have fewer
blocks than `Word` (`StorageAssumption`), a buffer has a word and a word at least two bits, and
faults are of cells of the buffer (`RamAssumption`); a stuck bit is one of a VRAM word, and two
addresses that share a cell differ in what ADDRESS writes there (`HardwareOK` in
`GpuAssumption`, and at least two dispatches and one error are counted, so that the bounds
hide nothing a theorem speaks of); the guardian's list names an engine once
(`register_engine` is called once for each).

A property is seldom inductive as it stands.  For each component its inductive invariant is
a conjunction of named parts, and the proof has one lemma per part with one step per action.

* **`StorageVerify`.**  `TypeCorrect`: that `high` never goes below 0 and `low` never past the file
  needs the distance `low + high = total - 1`, that progress stays within 100% needs how
  far each loop is.  `IInv == TypeOK /\ LoopInv` adds `ButterflyInv` (the ends keep their
  distance and `writes_done` counts the blocks outside them), `CountingInv` (the counting
  loop's counter is the number of blocks written) and `PhaseInv` (what is known at each
  phase).  `VerifiedOnlyWhenFullHolds` is a corollary of it; `StopsAtFirstErrorHolds` needs
  `StopInv` (an error under `stop_on_error` means that the flag is set and the loops are
  left).
* **The contract.**  `ContractType`, `HealthyNeverBlamedHolds` and `CounterfeitBlamedHolds`
  are what `IntegrityContract` implies, for any set of blocks, stated of the instance
  `Contract` that `StorageVerify` makes of it (`HealthyInv` and `CounterfeitInv` are the
  inductive invariants).  `ImplementsContractHolds` is the
  refinement, action by action: each step of a mode function is a step of the contract or a
  stutter under the mapping.  It needs `DiskInv`, that a whole block
  found in any cell lies within the file, so that a short read is never one of an intact
  block; and that the order of blocks is a bijection, so that a block comes up once.  `NoFalseAlarmHolds` and
  `CounterfeitReportedHolds` are then instances of the contract's theorems, carried over by the
  refinement.  `ErrorAccountingHolds` has an invariant of its own, `AccountInv`.
* **`RamEngine`**, for any buffer, width and number of passes.  `NeverAFalseAlarm` and
  `OneErrorAtMost`: the patterns share a shape, proved once (`SweepsAreChained`): a sweep
  expects nothing, or what the sweep before it has written.  With it, `Matches` is
  inductive: the words ahead of a sweep hold what it expects, the others what it wrote.
  That holds only until a stop, and `Busy` is what keeps a stopped test stopped:
  whoever may still write holds `running_`, so no `start()` clears the flag under it.
  `FindsItsFaultsHolds` is the opposite direction.  `Tells(s)` says of a sweep that it
  must see the fault at hand; `MustFindTells` shows that every pattern has one for
  every fault it is there for.  `FaultInv` follows the faulty cell: all others match what the
  sweep has made of them (`OthersMatch`), a stuck cell holds its value (`HeldCell`), and
  `MarchInv` says what a transition, coupling or inversion has left in the victim
  between the event that upset it and the sweep that reads it.  So a sweep that tells and has
  passed the victim has counted an error (`FoundInv`).
* **`TestScheduler`**, for any schedules.  `SchedulerInv`: the results, the steps started and those
  still to stop follow one another (`OrderInv`); an engine that runs belongs to a step that
  is active or still to be stopped (`OwnersInv`); total, results and verdict are
  what the engines had found when they were asked (`BooksInv`).  `OnlyActiveRunHolds`,
  `ResultsSoundHolds` and `StopOnErrorStopsHolds` follow from one each.
* **`CpuEngine`**, for any number of cores, lanes, errors and tests.  `ShowsOnlyThisTestHolds`
  needs `ShownInv`, that nothing shown, or about to be, exceeds what was recorded since the
  start, and that a metrics thread that is gone holds no sample of an earlier
  test (`SampleInv`).  `ErrorBooksAgreeHolds` needs `BooksInv`, which bounds the
  verifier's entries by the failed batches, counted and about to be; finite sets of
  batches change by one element, which is what its lemmas about counting say.
* **`StorageEngine`**, for any file and pool.  `StorageInv` has where the worker is and what
  that says of file, mode and pool (`PlaceInv`), what the file holds (`FileInv`), how the pool
  shares its counter (`PoolInv`: fetched once, done or in the hands of one thread), what an
  error count may come from (`ErrorInv`) and what is done by the end (`DrainedInv`,
  `DoneInv`).  `HealthyDiskIsCleanHolds`, `PoolWorksOnOpenFileHolds`, `CompletedMeansDoneHolds`
  and `NoFileLeftHolds` are proved together, as `FullInv` needs the pool and the pool the
  file.
* **`GpuEngine` and `PsuEngine`**, for any size of the VRAM, any faults and whatever the driver
  refuses.  `LoadsEndWithTestHolds` needs `LoadInv`: while a `stop()` waits for the GPU's worker nobody
  starts it again, so what the controller has stopped in its last lines stays so.
  `HealthyGpuIsCleanHolds` needs `CleanInv`, that a sound card's counts come from what it gave
  back, and that the first frame drawn, which the others are compared with, is what a sound
  card draws.  `VramFindsItsFaultsHolds` needs `VramInv`: a step `Tells` if whatever it may read
  back is an error, and one that has been through the memory has then been counted;
  `SomeStepTells` shows that every fault in reach has such a step.  `HandlesReleasedHolds`
  follows each kind of object by itself (`LostInv`, `BuffersInv`, `RendererInv`,
  `KernelsInv`), as each is released in a place of its own.  `TypeCorrect` needs that the
  reference of FMA_STRESS never runs ahead of its kernel (`NumbersInv`).  The steps are sorted once:
  those of the worker, those that begin a test, those that destroy the engine, and those that
  touch no object of the driver (`StepsOfAll`).
* **`SafetyGuardian`**, for any list of engines.  `SweepStopsVictimsHolds`: an engine that ran
  at the emergency is down, or still on the sweep's list (`SweepInv`), and `running_` is cleared
  by a stop or by the thread at its end, never before (`IdleInv`).  `ClosedLeavesNoThreadHolds`: the
  panels are destroyed until no engine has a thread, and only an idle window starts one, not
  a guardian that is still in its sweep (`NoThreadComes`).
* **`CliRunner`**, for any commands, engines, steps and mishaps.  `StoreSurvivesHolds`:
  outside the three gaps, what a save renames is its memory, and its memory has all that was
  acknowledged unless the file was not read (`StoreInv`).  `TouchesOnlyTheLivingHolds`: the worker of an engine is
  joined before the engine's command is over (`WorkerInv`).  `ExitCodeSoundHolds` follows each
  error from the engine to the command's copy (`CopyInv`) and from the verdict of a test
  (`TestInv`) or a schedule (`PlanInv`) to the exit code (`ExitInv`); `PlaceInv` keeps each command to places of its own.

So every safety invariant the passing runs check is also a theorem, and so are the action
property `StopOnErrorStops` and the refinement of the contract.

What is only model-checked: every liveness property (`EventuallyCompletes`, `Completes`,
`TestEnds`, `TestsEnd`, `EndsAtDuration`, `StopsOnError`, `ErrorsSurface`, `HeatIsNoticed`,
`ClosingEnds`, `SessionEnds`).  They rest on fairness, and TLAPS proves neither ENABLED nor what
fairness gives.  No module declares a recursive function or a RECURSIVE operator, so nothing is left open
for want of induction over data.

## 6. Plan

1. *Done:* storage verification, scheduler, CPU engine, guardian; first theorems.
2. *Done:* RAM engine, with its patterns on faulty memory; no false alarm proved.
3. *Done:* storage engine, GPU and PSU engines, sensors, stores, command line.
4. *Done:* proofs of the safety invariants of every component, and of the refinement of
   `IntegrityContract`.
5. *Left:* an abstract specification of a test (started, found, stopped) that every engine
   would implement, in place of the interfaces `TestScheduler` and `CliRunner` state for
   themselves.

### Not modelled

* *Arithmetic kernels and shaders* (`engines/cpu/`, OpenCL and SPIR-V sources): floating-point
  loops without shared state.  The engines' modules have the verdict they hand over.
* *The Windows event log* (`whea_monitor.cpp`): its count has no part in a verdict and no
  caller gives it to the guardian; `CliRunner` has the life of its thread.
* *Linux and macOS sensor backends, NVML, ADL*: one source each, read in every poll.
* *Reports, widgets, dashboard and monitor panels*: formatting and drawing on one thread.
* *Benchmarks of cache and memory, scores*: sequential measurement.
* *Utilities*: detection of hardware, a checksum, a locked log file, a settings file.
