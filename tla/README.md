# Rugix Testkit in TLA+

Rugix Testkit bakes operating system images with Rugix Bakery, boots them in
QEMU virtual machines and checks them over SSH, from pytest, in parallel.
Almost all of its state lives outside of Python: files that several workers
and several test runs share, child processes, pipes, ports, and a guest that
boots and shuts down when it likes. These modules model that part, TLC checks
them on small instances, and TLAPS proves the main results for all instances.

Source paths below are relative to `src/rugix_testkit/`.

## The system

| Component | Code | State it keeps | Operations |
| --- | --- | --- | --- |
| Bakery builder | `bakery.py`, `locks.py` | lock file and `baked-*` markers of a run, `parameters.toml`, copies of artifacts, bake logs | construct, `bake_image`, `bake_bundle`, `test`, `run` |
| QEMU process | `qemu/vm.py` | process, reader thread, stop event, serial log, work directory | `prepare`, `start`, `stop`, `wait_for_serial`, `write_serial`, `cleanup`, `run` |
| VM handle | `qemu/handle.py`, `qemu/ssh.py`, `rugix.py` | SSH connection, boot id, command history | `start`, `run`, `reboot`, `run_disconnecting`, `wait_for_reboot`, `close`; installs and reboots of `RugixCtrl` |
| pytest fixtures, ports | `pytest_plugin.py`, `qemu/config.py` | VMs of a test, saved outputs, TCP ports | `start_vm`, `start_qemu`, `vm`, saving of outputs, `find_free_port` |
| SSH key | `keys.py` | key pair of the project | `ensure_ssh_key` |
| VM files | `qemu/vm.py`, `qemu/config.py`, `__main__.py` | overlays and firmware copies in the work directory | parse the options, `prepare`, `_build_cmd`, `cleanup` |
| EFI, swtpm | `qemu/efi.py` | TPM process, its directory and socket | `__enter__`, `__exit__`, `amd64_efi_config` |
| Test report | `report.py` | outcome of each test, job summary | log a report, finish the session, render |
| Test run | `pytest_plugin.py`, under pytest and pytest-xdist | session fixtures of each worker, phases of each test | skip the extended tests, set up, call, tear down, report |
| Bundler, base layer | `bundler.py`, `bakery/` | none | one process per call |

They interact as follows. Each pytest-xdist worker is a process. The `bakery`
fixture creates one builder per worker; the builders of a run share a run
directory (lock, markers), and the builders of all runs share the project
directory (parameters, Bakery's output, copies, logs). A test gets the path of
a copy, the fixtures start a VM that boots an overlay of it and connect to it.
A `VMHandle` owns a `QemuVM` and an SSH connection; a `QemuVM` owns a QEMU
process and a thread that reads its console. Workers meet in the shared files
and in the TCP ports of the host. The bakery authorizes the public half of the
project's SSH key in the images, the VMs are logged in to with the private half.
The workers send the reports of their tests to the controller, which writes the
job summary.

What is hard about it:

- *Concurrency between processes*: workers queue for a `flock`, look at
  markers without it, write one parameter file, and compete for ports that are
  free only until somebody binds them.
- *Concurrency between threads*: reader threads are never joined and share the
  event and the log of their `QemuVM` with the readers of later starts.
- *Failure*: a bake, its log, its copy, a start, a boot or a connection fails
  in the middle; a worker is interrupted or killed, with or without the
  `run-bakery` process that it spawned; QEMU dies or cannot be killed.
- *Ordering*: an SSH server goes on answering while its system shuts down, a
  connection drops before or after a command has run, and the drop is an
  exception or an exit code; output arrives after the exit of its process.
- *Stale state*: artifacts of earlier runs lie at the paths of this run, and
  images of earlier VMs in a work directory; a boot id, a port or a descriptor
  number is used after it was given to another.
- *Two readings of one configuration*: `prepare` decides which files to make,
  `_build_cmd` which of them to open.

What makes each component correct:

- *Builder*: one bake at a time; an artifact is baked at most once per run; a
  path that was handed out stays a complete file of this run; no call waits for
  ever for the lock; a bake uses the parameters of its builder.
- *QEMU process*: the log is what QEMU printed, in order and complete; after a
  stop no QEMU runs; `stop` and `wait_for_serial` return; `wait_for_serial`
  finds the text if it is there.
- *VM handle*: when `reboot` returns, the reboot has happened and the connection
  is to the new boot; the wait fails only when its time is up; the history lists
  what ran; nothing is left behind by a handle that ended.
- *Fixtures*: whatever fails, the VMs that a fixture knows of are stopped,
  removed and saved; a handle is connected to its own VM.
- *SSH key*: the authorized key fits the private one, in this run and in later
  ones; a published pair is never replaced.
- *VM files*: QEMU opens what the `prepare` of its own VM made; an original is
  written to only if it is a drive without overlay.
- *swtpm*: a VM is only told to use a socket that exists; nothing of a TPM stays.
- *Report*: every failure is shown, every test is listed, as passed only if it
  passed; one section per run.

## Modules

| Module | Models | State and actions |
| --- | --- | --- |
| `BakeryBuilder` | `bakery.py`, `locks.py` and, as an environment, `run-bakery` | one `pc` per worker; one action per step between two effects on shared state |
| `ArtifactStore` | what the builder promises | the published artifacts with their contents, and what each worker was handed |
| `QemuVM` | `start`, `stop`, `wait_for_serial`, `_read_serial` | the test's thread, one reader per boot, processes, pipes, descriptors |
| `VMHandle` | `handle.py` over `ssh.py` | the test's thread against a guest with numbered boots |
| `RemoteMachine` | what a handle promises to its test | the boot of the machine and that of the test's connection, the call under way and whether its command ran |
| `TestSession` | the fixtures over `start` of both VM classes, and the ports | per worker the VMs of its current test |
| `VMLifecycle` | the life of one VM, whoever holds it | whether it is new, starting, ready, gone or abandoned; its process and its directory |
| `SshKey` | `keys.py` | the two halves of the key; `at` per worker; one action per step on a file |
| `KeyStore` | what `ensure_ssh_key` promises | the pair of the project and what each worker authorizes |
| `SummaryReport` | `report.py` | results of the tests, sections of the summary |
| `TestRun` | session fixtures and phases of `pytest_plugin.py`; extends `SshKey` and `SummaryReport` | tests not yet taken, the test, phase and fixtures of each worker |
| `VMFiles` | `prepare`, `_build_cmd`, the callers of `QemuVM`, the parsers of `__main__.py` | files of the host and of a work directory, the current VM |
| `Swtpm` | `SwtpmProcess` of `qemu/efi.py` | the `with` statement against its process |
| `EfiVM` | a test thread that uses both; extends `VMFiles` and `Swtpm` | which VM is attached to the TPM |
| `...Proofs` | theorems about the module of that name | |
| `MC...` | instances for TLC | |

An operator marked `\* mutant` stands next to the definition that it changes. It
is that definition with a plausible mistake, and it is used by no
specification: put in the place of its neighbour, it makes the property named
in `PROJECT.json` fail, which shows that the property depends on that code.

### BakeryBuilder

`markers`, `lock`, `paramFile`, `build`, `artifact` and `log` are the files;
a file is absent, partial or whole and carries the run and the parameters of
the bake that wrote it. `_bake_once` becomes `ReuseBaked` (the unlocked look at
the marker), `QueueForLock`, `AcquireLock`, `FoundBaked` or `SpawnBakery` (the
second look), then `BakerySucceeded`, `OpenCopy`, `CompleteCopy` and
`TouchMarker`. Every way out of the section is an action of its own:
`SpawnFails`, `LogFails`, `BakeryFailed`, `CopyFails`, `Interrupt` (the process
is killed by the handler in `_run_logged`), `Crash` (it is not). The copy is
two actions because others can look at a half-written file. `run-bakery` reads
the parameter file when it starts, removes the output of its system, and writes
it; a bake that was not alone may have a broken output, because "Bakery's
caches are not safe for concurrent builds". `NextRun` begins a run with a new
run directory in the old project directory. `BakeryBuilder.run` is the call of
`NoArtifact`: it takes the lock and spawns, and leaves no marker, log or copy.

`ArtifactStore` knows none of this. On its `shelf` are the copies and logs of the
marked artifacts (`Shelf`), its `handed` is `got`. What it may publish
(`Publishable`) always has a complete log, and a copy that is complete and of this
run, unless an orphan may have spoilt it. It never changes what is on the shelf
before the run ends, so the refinement says of every step of the builder, also
of those that do not concern an artifact, that its copy and its log stay.

### QemuVM

A chunk is what one `os.read` returns. Boots number the processes; each has a
pipe with room for `PipeSize` chunks and a descriptor number that can be used
again for the pipe of a later boot. `Start` is one action from the clearing of
the event to the start of the thread, because only readers run beside it and
see the event, the log and `_process` one at a time; `StartFails` is the same
up to a `Popen` that raises. `wait_for_serial` is two steps per round, `Look`
(line 70) and `Poll` (line 73), since the reader and QEMU run in between. A
reader looks up process and descriptor when it first runs (`ReaderBegins`) and
from then on only knows the number: `ReaderEnters` reads whatever pipe has it
now. Reading, appending and checking the event are separate steps.

Callers stop a VM before they start it again, as the fixtures do.

### VMHandle

The number of a boot stands for the kernel's boot id. `conn` is the boot that
the connection was made to. `run` and `run_disconnecting` are `Call`, then
`Execute` if the command reaches the guest, then `Exit`, `DropRaises` or
`DropAsCode`; `reboot` and `install_and_reboot` go on with the loop of
`wait_for_reboot` (`Connect`, `Identify`, `IdentifyDropped`, ...). The guest
goes through `booting`, `up` and `stopping`, and answers SSH in the last two.
QEMU may exit at any time. With public-key authentication Fabric reopens a
connection that it knows to be dead (`Reopen`). A command whose caller gave it a
timeout, as `install_and_reboot` does, can end with `CommandTimedOut`
(`CommandTimesOut`), which is none of the errors that `run_disconnecting` takes
for a drop. The command of `reboot` has no timeout: no fairness makes it end.

`executed` has every call whose command ran on the guest, also those of
`run_disconnecting`, which calls `run`; `swallowed` those that a raised drop ended
in `run_disconnecting`, where `run` had not yet appended the result. The history
lacks exactly the latter (`HistoryFaithful`).

A test ends with the first exception that is not a `CmdError`, and a `CmdError`
can be caught by the test; `failed` is the former, `idle` the latter. A start
that raises in the `try` block is undone (`lost`); one that raises before it
(`SetupFails`), or that something other than an `Exception` ends (`Interrupted`), is
`abandoned`: nobody closes it. The sums
of time that a deadline allows are not modelled: a deadline may expire whenever
its loop comes round.

`RemoteMachine` has no SSH, no boot ids and no exceptions. Its `machine` is the
boot of the guest, or 0 when QEMU is off (`Machine`), its `session` the
remembered boot id, its `status` the call that is under way (`Status`), its
`ran` whether the command of that call was executed, its `held` the work
directory. The guest may only leave the boot that the test is connected to in a
call of `reboot`, after the command of the call ran, and once. That is what the
loop over boot ids is for, and it holds as long as every reboot has been waited
for. `awaited`, which no code corresponds to, remembers whether this is so: a
`run` whose command reboots the guest, or a `reboot` that raises `CmdError` though
the guest goes down, makes it false, the boot id is stale from then on, and
`RemoteMachine` promises nothing more. The other properties do not depend on it.

### VMLifecycle

`TestSession` reduces the start of a handle to a few steps of a record, and
`VMHandle` has one handle and no fixtures. `VMLifecycle` is what the two have in
common, and both implement it, so that the fixtures rely on nothing that a handle
does not do: a directory before a process, one launch, no launch after the start
failed, and an end that takes the process and the directory together. Only a
start that ends where nothing undoes it (`Abandon`) leaves the directory, and
possibly the process, behind. A process that was killed and does not end has been
given up: it does not count as running. In `VMHandle` the mapping is `Life`, in
`TestSession` it is `LifeOf` the record of a VM that exists: `OneVM(v)` is the
abstract VM in the place of `v`, one test after another (`Forget`). The property
of `TestSession` is the conjunction of `OneVM(v)!Spec` over its VMs, written as one
formula with one `[][...]_vars`, as TLC takes no instance under a bound variable
as a property.

### TestSession

Each VM of a test is a record: how far its start is, its port, its QEMU, where
its connection leads, and who knows of it: the ExitStack or list of its fixture
(`listed`) and the stash of the test item (`stashed`). `ChoosePort` and `Bind`
are separate steps of separate processes.

A start ends in one of three ways. It returns. It raises an `Exception` while it
waits for SSH, and the except clause of `VMHandle.start` stops and removes the VM
(`BootFails`, the record is `failed`). Or it ends where nothing undoes it: in
`prepare` or `Popen` (`PrepareFails`, `SpawnFails`), or by `KeyboardInterrupt` or
whatever else is no `Exception`, such as what `pytest.fail` raises in the signal
handler of a timeout (`Left`); then it is `broken`. In the call phase a test may catch
the exception of a start and go on; in setup nothing follows but the teardown.

A test ends by the report of its setup or call (`EndTest`) or by an interrupt
(`Interrupt`), for which pytest makes no report. `ended` remembers which: only the
report of the call saves outputs. The fixtures then stop their VMs (`CloseVM`):
`Stopped` is how `stop` leaves QEMU, which may outlive the kill and is then
given up, while `cleanup` still removes the directory.

`NothingLeft` says exactly what may stay after that: directories and running QEMUs
of `broken` starts, each in the cases in which it really stays, and processes that
outlived their kill.

### SshKey, SummaryReport and TestRun

`ensure_ssh_key` is `Ensure`, `Acquire`, then `FoundKey` or `Generate` and the
four steps that open and write the two halves in place, and `ReadPublic`, which
reads the file again without the lock. `Fail` is an exception in the section,
`Exit` the end of any number of processes, wherever they are: the kernel drops
their lock, their files stay as they are. `torn` records that a call ended
between opening and writing the public half.

`KeyStore` has one `pair` instead of two files, which is published once, or torn
once, and what each worker authorizes. The two halves are a pair (`Pair`) from
the step on that completes the second; what a worker authorizes is the pair at that
time, although it reads the file after it has given up the lock.

`SummaryReport` merges reports in any order of phases, also with `wasxfail`. Its
`Merge` is `pytest_runtest_logreport`, `Registered` the condition under which a
process gets a reporter, `SessionFinish` the writing of the section.
`OutcomeFollows` states what the merge amounts to, without merging: the last
phase that failed, or was expected to, decides (`Follows`).

`TestRun` is the two composed, which is how `pytest_plugin.py` meets them: a
worker takes a test, sets up its session fixtures (`ssh_key`, then `bakery`,
each of which calls `ensure_ssh_key`; an exception is kept for the later tests
of the worker), and ends setup, call and teardown as far as the test goes.
Each phase that ends is a report, each crash is one too, and a run that
finishes or is interrupted writes its section. `NextRun` starts a run with new
processes in the old project directory. pytest and pytest-xdist are modelled
from how the plugin relies on them: phases in their order, skips by marker, a
report for a worker that crashed and a new worker in its place.

### VMFiles, Swtpm and EfiVM

A configuration comes from the options of the command line (`ParseDrive`,
`ParsePflash`), from a test (`BuildConfig`) or from `amd64_efi_config`
(`EfiConfig`, with the firmware that `_ovmf_paths` finds on this host). `Made` is
the condition under which `prepare` makes a file, `InWorkDir` the one under which
`_build_cmd` looks for it in the work directory: two conditions in two functions
that must agree. A file has a size, the original that it was made from and the
last VM that wrote to it, so that a stale file can be told from a new one.
`PrepareFails` stops between any two effects of `prepare`. VMs follow one
another in a given directory, which keeps what was there, or in temporary
ones. `EndRun`, `EndHandle` and `EndQemu` are what the three callers of `QemuVM` remove.

`Swtpm` is `__enter__` and `__exit__` against a process that first binds and
then listens, exits when it likes and may ignore SIGTERM. In `EfiVM` one thread
uses both: a VM may start inside or outside of the `with` statement, and either may
end first.

## Runs

| Run | Instance | Result |
| --- | --- | --- |
| `bakery_safety` | 2 workers (one without parameters), image and bundle of one system, 2 runs, failures and interrupts | types, one bake at a time, served artifacts whole and fresh, own parameters, refinement of `ArtifactStore` |
| `bakery_liveness` | 2 workers, 1 image, 2 runs, killed workers with orphans | exclusion, recorded artifacts frozen, every call returns |
| `bakery_orphan_bakes` | as above, 1 run | violated: two bakes at once |
| `qemu_serial` | 2 starts, 2 chunks, pipe of 1, 2 descriptors, failing kills | types, order, completeness, nothing captured twice, bounded stale output, no stray QEMU, calls return |
| `qemu_wait_gives_up` | 1 start, 1 chunk | violated: gives up although the text is there |
| `handle_reboots` | 6 calls, also of commands that reboot without a wait, 7 boots, every kind of drop, stalls, QEMU dies, deadlines, broken starts | types, a returned reboot was run and is over as long as each was waited for, history lacks only swallowed drops, waits for a reboot end, refinement of `RemoteMachine` and `VMLifecycle` |
| `handle_drop_as_code` | 1 call | violated: `CmdError` out of `wait_for_reboot` |
| `session_fixtures` | 1 worker, 2 tests, 3 VMs per test, 2 ports, port races, dying QEMUs, failing kills, interrupts | types, what is left and no more, outputs of returned starts saved, each VM refines `VMLifecycle` |
| `session_outputs` | 2 workers, 1 VM per test | violated: a launched VM whose outputs are not saved |
| `session_ports` | 2 workers, 1 VM per test, 2 ports | violated: a handle is connected to another test's VM |
| `vm_files` | 2 VMs in turn, ≤ 2 drives or pflash images, 3 hosts, 2 environments, a TPM | types, QEMU opens what was prepared, misses only what is not checked, originals unmodified, TPM bound and removed |
| `test_run` | 2 workers, a plain and an extended test, 2 runs, 1 crash or failing write, interrupts | types, keys fit, refinement of `KeyStore`, failures shown, outcomes follow from the phases, one section, complete listing, every run ends |

Why the bounds are enough. *Builder*: two workers are what a race for the lock,
a marker or a copy needs; two runs make the artifacts of the first the stale
ones of the second; the image and the bundle share an output directory. The
proofs cover any number of all of them. *QemuVM*: a second start is needed for
a reader to meet a log, an event or a descriptor that is not its own; a pipe of
one chunk blocks QEMU at once. More starts are left to the proof. *VMHandle*: two
reboots in a row are needed for a boot id to be stale; the bound of six leaves
room for both orders of plain commands and reboots around them. There is one
boot more than there are calls, so that the guest always has a boot to go to.
*TestSession*: in `session_fixtures` one worker has three VMs in a test, so that
the order in which the fixtures stop them matters and one can fail, break or die
between two others, and two tests, so that what an earlier test left is
forgotten. Workers meet only on the ports, as the VMs of one worker do; two
workers are in the two violated runs, and in the theorems, which hold for any number. *VMFiles*: the second VM is
what meets stale files; the configurations have drives with and without
overlay, relative and absolute, and pflash images that are readonly or not,
with a file or only a size, with a size below or above the length of the file,
an empty one or one that is not a number; the hosts have all files, no image,
or only the second firmware. *TestRun*: the lock of the key needs two workers; a second run is what
finds the key of the first, torn or not, and the old summary; one of the tests can
end each phase in every way and the other is skipped or not. One fault is enough
for the torn key and for a lost worker, and a worker that was interrupted is one
more process that ended in the middle.

`CHECK_DEADLOCK FALSE` stands where the system may stop: a closed or failed
handle, a guest at its last boot, a session whose tests are all done, the end of
the last run or of the last VM.

Fairness. `BakeryBuilder`: workers and `run-bakery` go on (weak fairness; a bake
that never ends would hold the lock for good), and a worker that waits while the
lock is free again and again gets it (strong fairness of `AcquireLock`, as the
kernel wakes the waiters of a `flock`). `QemuVM`: threads go on, a loop that
comes round for ever meets its deadline (strong fairness of `Deadline`: time
passes), and a process with a pending SIGKILL ends unless `KillFails`; QEMU
itself is *not* assumed to print or to exit. `VMHandle`: the loops that wait for the
guest go on, since all that they wait for has a time limit of its own (2 s for the
banner of SSH, 10 s for the boot id), and the guest boots and shuts down in finite
time. Nothing makes a command end, a deadline expire or QEMU stay: `WaitSucceeds`
is about the wait of a reboot that was begun, not about the call of `reboot`, and
says what else may end it. `TestRun`:
each worker and the controller go on (weak fairness); nobody has to crash, to
fail or to interrupt, and in the place of a worker that died pytest-xdist starts
another, so that `RunEnds` holds with and without faults.
`VMFiles` and `Swtpm` have no liveness property: what they wait for has a
deadline.

## Disagreements found

- `bakery_orphan_bakes`: `README.md:135` promises one bake at a time. The lock
  is the worker's: when it is killed, its `run-bakery` goes on without lock.
- `qemu_wait_gives_up`: the text arrives and QEMU exits between lines 70 and 73
  of `qemu/vm.py`: the text is in the log and `wait_for_serial` denies it.
- `handle_drop_as_code`: line 174 of `qemu/handle.py` expects drops as exceptions;
  a drop that is reported as code -1 raises `CmdError` and ends the wait.
- `session_ports`: a port that `find_free_port` found can be found by another
  worker before QEMU binds it, and nobody checks who answers on it.
- `session_outputs`: `README.md:112` and `pytest_plugin.py:202` promise the outputs
  of each VM after each test. A test that fails in setup, say because the boot
  fails in the `vm` fixture, saves nothing, and a VM whose boot failed is never
  stashed: of the boots that fail, the serial log is not saved.
  What does hold is `ReturnedIsSaved`.

Seen while modelling, and not among the runs, mostly because no document says
otherwise:

- *Handle*: after a reboot that nobody waited for, what `RebootIsOver` and
  `RebootWasRun` promise fails without their `awaited`: the boot id is stale, the
  boot that shuts down looks new, and a dead connection makes `reboot` or
  `install_and_reboot` return without their command having run.
- *History*: `command_history` (`qemu/handle.py`, line 108) is "all commands executed
  on the VM via `run`, in order". `run_disconnecting` sends its command through
  `run`, but a drop that raises passes by the `append` of line 115, so that the
  usual `reboot` is not in the history at all, while one whose drop comes as code
  -1 is. `HistoryFaithful` is what holds: nothing else is ever missing while
  the test goes on. A history that is looked at after the test has failed also
  lacks the command whose drop or timeout failed it.
- *Stalls*: the command of `reboot` has no timeout (line 151), though the comment
  at line 176 knows of stalled connections: `reboot(timeout=...)` may block for
  ever before its timeout counts. `CommandTimedOut` of `install_and_reboot` is not in
  `_DISCONNECT_ERRORS` and fails the call even if the guest reboots.
- *Starts*: one that is interrupted leaves its work directory and its QEMU behind, as
  line 98 catches `Exception` only; one that fails in `prepare` or `Popen` leaves
  the directory; `run` never removes its temporary work directory.
- *Builder*: two builders with different parameters share one
  `parameters.toml`.
- *Console*: a stop right after a start makes the assertion of `_read_serial`
  fail in its thread.
- *VM files*: the overlay of a relative drive fails, as `qemu-img` resolves the
  path from the overlay's directory; `overlay=on` counts as false without a
  word, and the image is modified directly; `size=` on a readonly pflash image
  makes QEMU open a file that `prepare` never made, or that of an earlier VM; a sized
  pflash image grows when its file is larger.
- *swtpm*: an `__enter__` that times out never stops what it started; the
  second wait of `__exit__` may raise; the socket exists before swtpm listens.
- *SSH key*: a crash between opening and writing `id_rsa.pub` leaves an empty
  public key for all later runs.
- *Report*: a test during which a run is interrupted is listed as passed after
  its setup; an expected failure in a later phase hides a failure.

## Proofs

Each theorem has the same three parts: an invariant holds initially, every
action preserves it (one step per action), and it implies the property. The
assumptions on constants are those named `ConstantsAssumption` in the modules;
TLC evaluates them in every run. A theorem that needs more of the environment
says so in an `ASSUME` of its own.

`BakeryBuilderProofs`, for every set of workers, systems, artifacts and
parameters and every number of runs:

- `TypeCorrect`: `Spec => []TypeOK`.
- `Exclusion`: `Spec => []ExclusiveSections`, and `Frozen`: `Spec =>
  MarkedIsFrozen`, both also when orphans survive. The invariant is `LockInv`:
  the lock is held by exactly the worker inside the section, and what that
  worker bakes has no marker (`LockInvariant`). The second half is what
  freezes an artifact: only
  the worker in the section writes copies and logs, and only of artifacts
  without a marker. It is inductive because the marker is looked up again with
  the lock held, and because a worker that ends drops the lock as it leaves.
- `Implements`: `Spec => ImplementsStore`, orphans or not. A step that does not touch
  a marker keeps everything on the shelf (`MarkedKept`); what `TouchMarker` adds
  has a complete log (`LogInv`) and, without orphans, a complete copy (`BakeInv`).
- `Serialized`, `Served` under `ASSUME ~OrphansSurvive`: one bake at a time, and
  served artifacts are whole and of this run. The invariant is `LockInv /\ BakeInv`: `BakeInv`
  follows the output of a bake from the exit of `run-bakery` over the open
  source to the copy, and says that a process belongs to the worker in the
  section and is alone (`BakeInvariant`). Without the assumption it is false,
  which is what `bakery_orphan_bakes` shows.
- `OwnParameters` under `ASSUME OneParameterSet`, orphans or not:
  `Spec => []BakedWithOwnParameters`. A builder has written the file before its
  first bake, and whoever writes it later writes the same (`ParamInv`).

`QemuVMProofs`, for every number of starts, chunks and descriptors and every
size of the pipe:

- `TypeCorrect`: `Spec => []TypeOK`.
- `NoStray`: `Spec => []NoStrayQemu`. The invariant adds what `stop` knows at
  each of its steps: it forgets the process only once it is dead or killed.
- `InOrder`: `Spec => []CapturedInOrder`. In the first boot the log, the chunk
  in the reader's hand and the rest of the pipe are, in this order, what QEMU
  printed: `CaptureInv` says up to which chunk the reader has taken it. It is
  inductive because only one reader exists before the second start; with two,
  descriptor numbers are reused and the property is false.
- `Once`: `Spec => []CapturedOnce`, over all starts. `OnceInv` says that the
  chunks in the log and in the hands of the readers, of whatever boot, are all
  different and were taken out of a pipe; so two readers that share a descriptor
  number never append the same chunk.
- `StaleBounded`: `Spec => []StaleOutputIsBounded`. `StaleInv` counts the stale
  chunks in the log together with the readers that may still bring one
  (`Carriers`): a reader that was inside `os.read` at the last start. A start adds at
  most one to the sum, the reader that it leaves behind, and a carrier that
  appends moves from one to the other.

`VMHandleProofs`, for every number of calls and boots:

- `TypeCorrect`: `Spec => []TypeOK`.
- `Faithful`: `Spec => []HistoryFaithful`, also with reboots that nobody waits for. The
  invariant `Recorded` says which executed command may be missing: those
  that a swallowed drop ended, which are missing for good, the one under way and,
  once the test has failed, the one that it failed with.
- `Clean`: `Spec => []NothingLeft`, for handles that were closed or whose start
  was undone. A start that is interrupted, or that raises before its `try`, does
  leave things behind: it is neither.
- `Rebooted`: `Spec => []RebootIsOver`. The invariant is `awaited => RebootInv`:
  the remembered boot id is that of the running boot whenever a command goes out;
  a boot id read later that differs is then that of a later boot. A reboot that
  nobody waits for breaks exactly this, for good (`AwaitedSoFar`).
- `WasRun`: `Spec => []RebootWasRun`. `RunInv` says that
  the connection is to the current boot whenever a command goes out, so that a
  drop before it ran means that QEMU is gone, and no wait succeeds after that.
- `Implements`: `Spec => ImplementsRemoteMachine`. As long as `awaited` holds, each
  action of the handle or its guest is mapped to one of `RemoteMachine` or to
  nothing. What the mapping needs beyond `RebootInv` and `RunInv` is `StopInv`: a
  guest that shuts down does so because of the command of the last call of
  `reboot`, and in the boot of the connection, so that it restarts once.
- `FailsInTime`, under `ASSUME ~DropsAsCode`: `Spec => []WaitFailsOnlyByTimeout`.
  The run `handle_drop_as_code` shows that this fails with drops as code -1; the
  theorem, that nothing else makes it fail, timeouts of commands included.
- `Lives`: `Spec => ImplementsVMLifecycle`, for starts that break and reboots that
  nobody waits for too. `DirInv` ties the work directory to how far the handle is.

`TestSessionProofs`, for every number of workers, tests, VMs and ports:

- `TypeCorrect`: `Spec => []TypeOK`.
- `Clean`: `Spec => []NothingLeft`, with port races, dying QEMUs, failing kills and
  interrupts. `Tracked` says that a VM is listed by a fixture, is being started
  by its worker or is gone but for what `NothingLeft` allows (`Gone`), `Current` that a worker starts only its newest VM and that
  `start_qemu` has listed it before, `Ended` that no start outlives its phase.
- `Own`, under `ASSUME ~PortRaces, ~QemuDies`: `Spec => []OwnVM`. `PortInv` says that
  no two VMs have a claim to one port, from its choice until QEMU is stopped.
  `session_ports` shows what happens without the first assumption; without the
  second, a connection is made again to the port of a QEMU that has died.
- `Saved`: `Spec => []ReturnedIsSaved`. A start that returns stashes its VM, what the
  report of the call saved stays saved, and no VM is stashed after it (`SaveInv`).
  `OutputsSaved`, which the documents promise, is false: `session_outputs`.
- `Lives`: `Spec => ImplementsVMLifecycle`, for all VMs at once and over any number of
  tests. `KeptInv` says that a VM that a fixture will stop, or that is being
  started, still has its directory, and that one whose boot failed has none.
  `MoveStep` reduces an action to what it does to one record (`Moves`), all other
  VMs stutter; that the next test forgets only VMs that were closed or abandoned
  is `Tracked` and `Ended` from above.

`EfiVMProofs`, for every set of files, hosts, environments and configurations:

- `TypeCorrect`: `Spec => []TypeOK`.
- `Prepared`, `OnlyUnchecked`, `Unmodified`: `OpensPrepared`, `MissingIsUnchecked`
  and `OriginalsUnmodified`. `FileInv` says that the files `prepare` has been
  through are as it made them, but for the writes of this VM, and that QEMU
  starts only when it has been through all. What remains is that `Made` and
  `InWorkDir` agree for all but the empty size, which `OpensPrepared` exempts: there
  QEMU can open the image of an earlier VM.
- `TpmRemoved`, `TpmInRuns`, `TpmRemovedInRuns`, `Bound`: `Swtpm` alone
  satisfies `NoTpmLeft`, `EfiVM` implements `Swtpm`, and so has it too; a `with`
  statement that is entered has seen the socket.

`SshKeyProofs`, `SummaryReportProofs` and `TestRunProofs`, for every number of
workers, keys, tests, runs and faults:

- `Fits` and `Kept` of `SshKey`: `AuthorizedFits` and `KeyIsKept`. `KeyInv` says that
  the worker inside holds the lock, that it gets to writing only while there is
  no public key, that the public half is opened only after the private half is
  whole, and that an empty public half is that of the writer or of a torn call.
- `Shown` of `SummaryReport`: `FailuresShown`. By `ReportInv` the result of a test
  accounts for its reports; `MergeAccounts` is the step from one report to the
  next.
- `Decided` of `SummaryReport`: `OutcomeFollows`. `OutcomeInv` is that the result of
  a test follows from the reports so far; one lemma is about a decisive report
  (`DecisiveMerge`), which overrules all before it, one about any other
  (`OtherMerge`), which changes nothing but a pass.
- `Implements` of `SshKey`: `ImplementsKeyStore`, from `KeyInv`, which
  determines the pair of every state (`PairCases`); a step keeps, publishes or tears
  it (`PairKept`, `PairTorn`, `StoreOfStep`).
- `KeyInRuns` and `ReportInRuns`: `TestRun` implements both. `FitsInRuns`,
  `KeptInRuns`, `ShownInRuns`, `DecidedInRuns` and `ImplementsInRuns` follow from
  these without another invariant.
- `Sectioned` and `Complete`: `OneSection` and `PassedIsComplete`. `WayInv` relates
  how far a test is (not taken, the phase of its worker, left by all) to what its
  result may be: passed only with the reports of all phases up to there.

Every safety property of the passing runs is proved, and so are the refinements,
some under the assumptions named above. Only model-checked are the liveness
properties `EveryCallReturns` of the builder, `CallsReturn` and `AllIsCaptured` of
the console, `WaitSucceeds` of the handle and `RunEnds` of a run, which are out
of the prover's reach. `KeyIsKept` and the `NothingLeft` of a handle are proved and
in no run of their own: the refinements of `KeyStore` and `RemoteMachine` that TLC
checks include them. Three of the properties that a run violates are proved under
the assumption without which they fail (`Serialized`, `FailsInTime`, `Own`); for
`GivesUpOnlyInVain` and `OutputsSaved` there is none.

## Not modelled

- The Bundler, the base layer and the stateless fixtures (options, `bundle_url`, the
  read-only HTTP server) start one process or compute one value.
- Of the command line: argument parsing, output and exit codes.
- What an install does to the boot groups of the guest: it is the state of
  `rugix-ctrl`, and `rugix.py` only reads and parses it.
- Texts, names, log lines, durations, and the decoding of single chunks of
  output. Clocks are nondeterministic deadlines.
- In `TestSession`: a worker killed while a VM runs, an interrupt in the middle of
  a teardown, an explicit `ssh_port`. In `VMHandle`, SFTP uploads are commands,
  closing a connection does not raise, and a command whose timeout expired does
  nothing more on the guest: the test has failed by then.

## Plan

The modules above and their proofs are done. What may follow:

1. Interrupts and kills in the teardown of `TestSession`: which VMs stay when a
   fixture is interrupted between two stops (`pytest_plugin.py`, line 237).
2. `QemuVM` below `VMHandle`: the handle has a QEMU that is on or off, not the
   stop that may give up on it, which `TestSession` has. `VMLifecycle` ties the
   handle to the fixtures; a like module would tie it to the process.
3. The boot groups of Rugix Ctrl over `VMHandle`: installs, reboots and commits of
   an update test, if the testkit comes to keep state of its own about them.
