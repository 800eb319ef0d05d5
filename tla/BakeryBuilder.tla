---------------------------- MODULE BakeryBuilder ----------------------------
(***************************************************************************)
(* BakeryBuilder (src/rugix_testkit/bakery.py) and exclusive_lock          *)
(* (locks.py): the pytest-xdist workers of a test run bake images and      *)
(* bundles, one at a time, at most once per run, and share copies of them. *)
(*                                                                         *)
(* A worker is a process that executes one call at a time.  The launcher   *)
(* `run-bakery' is a process of its own: it interleaves with every worker  *)
(* and can outlive the worker that spawned it.  Files are abstracted to    *)
(* whether they are complete, the test run whose bake wrote them and the   *)
(* parameters they were baked with.                                        *)
(***************************************************************************)
EXTENDS Naturals

CONSTANTS
  Workers,         \* worker slots; a dead worker's slot can be filled again
  Systems,         \* systems of the Bakery project
  Artifacts,       \* the images and bundles that tests ask for
  ParamSets,       \* possible contents of parameters.toml
  ParametersOf,    \* the `parameters' each worker's builder is created with
  MaxRuns,         \* bound on the number of consecutive test runs
  OrphansSurvive,  \* can run-bakery go on when its worker is killed?
  Nobody,          \* no worker holds the lock
  NoArtifact,      \* the call is BakeryBuilder.run, which bakes no artifact
  NoParams         \* a builder without parameters; a file that has none

Kinds == {"image", "bundle"}

\* Bakery replaces all of build/<system> on each bake of the system.
SameOutput(a, b) == a[2] = b[2]

ASSUME ConstantsAssumption ==
  /\ Artifacts \subseteq Kinds \X Systems
  /\ ParametersOf \in [Workers -> ParamSets \cup {NoParams}]
  /\ MaxRuns \in Nat \ {0}
  /\ OrphansSurvive \in BOOLEAN
  /\ Nobody \notin Workers
  /\ NoArtifact \notin Artifacts
  /\ NoParams \notin ParamSets

VARIABLES
  run,        \* number of the current test run
  markers,    \* artifacts with a baked-* marker file in the run's run_dir
  lock,       \* holder of the flock on run_dir/bakery.lock
  paramFile,  \* content of .rugix-testkit/parameters.toml
  build,      \* build/<system>/..., Bakery's own output files
  artifact,   \* .rugix-testkit/artifacts/<system>/..., the copies for tests
  log,        \* <bake_log_dir>/<artifact>.log
  pc,         \* where each worker is
  call,       \* artifact of the worker's current call
  source,     \* the build file that the worker's copyfile has opened
  got,        \* artifacts whose path was returned to the worker's tests
  proc        \* the run-bakery process spawned by the worker

vars == <<run, markers, lock, paramFile, build, artifact, log, pc, call,
          source, got, proc>>

Contents == ParamSets \cup {NoParams}

Files == [state: {"absent", "partial", "whole"}, run: 0..MaxRuns,
          params: Contents]
Absent == [state |-> "absent", run |-> 0, params |-> NoParams]
File(s, r, p) == [state |-> s, run |-> r, params |-> p]

Procs == [phase: {"none", "spawned", "writing", "exited", "failed"},
          target: Artifacts \cup {NoArtifact}, run: 0..MaxRuns,
          params: Contents, alone: BOOLEAN]
NoProc == [phase |-> "none", target |-> NoArtifact, run |-> 0,
           params |-> NoParams, alone |-> TRUE]

\* The pcs at which a worker is inside `with exclusive_lock(...)'.
Holding == {"locked", "baking", "baked", "copying", "copied"}
Pcs == Holding \cup {"new", "replacing", "idle", "waiting", "dead"}

Live(w) == proc[w].phase \in {"spawned", "writing"}
NoneLive == \A w \in Workers : ~Live(w)

Init ==
  /\ run = 1
  /\ markers = {}
  /\ lock = Nobody
  /\ paramFile = NoParams
  /\ build = [a \in Artifacts |-> Absent]
  /\ artifact = [a \in Artifacts |-> Absent]
  /\ log = [a \in Artifacts |-> "none"]
  /\ pc = [w \in Workers |-> "new"]
  /\ call = [w \in Workers |-> NoArtifact]
  /\ source = [w \in Workers |-> Absent]
  /\ got = [w \in Workers |-> {}]
  /\ proc = [w \in Workers |-> NoProc]

-----------------------------------------------------------------------------
(***************************************************************************)
(* Construction of the builder, once per worker (the `bakery' fixture).    *)
(***************************************************************************)

\* __init__ without parameters leaves the shared parameter file alone.
CreateWithoutParameters(w) ==
  /\ pc[w] = "new"
  /\ ParametersOf[w] = NoParams
  /\ pc' = [pc EXCEPT ![w] = "idle"]
  /\ UNCHANGED <<run, markers, lock, paramFile, build, artifact, log, call,
                 source, got, proc>>

\* _write_atomically writes a temporary file named after the pid ...
WriteTmp(w) ==
  /\ pc[w] = "new"
  /\ ParametersOf[w] # NoParams
  /\ pc' = [pc EXCEPT ![w] = "replacing"]
  /\ UNCHANGED <<run, markers, lock, paramFile, build, artifact, log, call,
                 source, got, proc>>

\* ... and renames it over parameters.toml, whoever wrote that one.
ReplaceParams(w) ==
  /\ pc[w] = "replacing"
  /\ paramFile' = ParametersOf[w]
  /\ pc' = [pc EXCEPT ![w] = "idle"]
  /\ UNCHANGED <<run, markers, lock, build, artifact, log, call, source, got,
                 proc>>

-----------------------------------------------------------------------------
(***************************************************************************)
(* bake_image, bake_bundle and run.                                        *)
(***************************************************************************)

\* marker.exists(): the artifact was baked in this run.
FileExists(a) == a \in Artifacts /\ artifact[a].state # "absent" \* mutant
Baked(a) == a \in markers

\* The second look at the marker, with the lock held.
NeverFound(w) == FALSE                                         \* mutant
Found(w) == Baked(call[w])

\* The exclusive section ends, by return or by exception, and the call with it.
ReleaseWithoutUnlock(w) ==                                     \* mutant
  /\ pc' = [pc EXCEPT ![w] = "idle"]
  /\ call' = [call EXCEPT ![w] = NoArtifact]
  /\ UNCHANGED lock

Release(w) ==
  /\ lock' = Nobody
  /\ pc' = [pc EXCEPT ![w] = "idle"]
  /\ call' = [call EXCEPT ![w] = NoArtifact]

\* bake_image / bake_bundle return the path of the copy.
Hand(w, a) == got' = [got EXCEPT ![w] = @ \cup {a}]

\* _bake_once: the marker is there, no lock is taken.
ReuseBaked(w, a) ==
  /\ pc[w] = "idle"
  /\ Baked(a)
  /\ Hand(w, a)
  /\ UNCHANGED <<run, markers, lock, paramFile, build, artifact, log, pc,
                 call, source, proc>>

\* _bake_once without a marker, or run: queue for the lock.
QueueForLock(w, a) ==
  /\ pc[w] = "idle"
  /\ ~Baked(a)
  /\ pc' = [pc EXCEPT ![w] = "waiting"]
  /\ call' = [call EXCEPT ![w] = a]
  /\ UNCHANGED <<run, markers, lock, paramFile, build, artifact, log, source,
                 got, proc>>

AcquireSharedLock(w) ==                                        \* mutant
  /\ pc[w] = "waiting"
  /\ lock' = w
  /\ pc' = [pc EXCEPT ![w] = "locked"]
  /\ UNCHANGED <<run, markers, paramFile, build, artifact, log, call, source,
                 got, proc>>

\* flock(LOCK_EX) returns once nobody holds the lock.
AcquireLock(w) ==
  /\ pc[w] = "waiting"
  /\ lock = Nobody
  /\ lock' = w
  /\ pc' = [pc EXCEPT ![w] = "locked"]
  /\ UNCHANGED <<run, markers, paramFile, build, artifact, log, call, source,
                 got, proc>>

\* Another worker baked the artifact while this one waited.
FoundBaked(w) ==
  /\ pc[w] = "locked"
  /\ Found(w)
  /\ Hand(w, call[w])
  /\ Release(w)
  /\ UNCHANGED <<run, markers, paramFile, build, artifact, log, source, proc>>

\* _run / _run_logged: the log is truncated, run-bakery is spawned.  A
\* run-bakery that is still at work is no longer alone, nor is the new one.
SpawnBakery(w) ==
  /\ pc[w] = "locked"
  /\ ~Found(w)
  /\ log' = IF call[w] = NoArtifact THEN log
            ELSE [log EXCEPT ![call[w]] = "partial"]
  /\ proc' = [v \in Workers |->
                IF v = w
                THEN [phase |-> "spawned", target |-> call[w], run |-> run,
                      params |-> NoParams, alone |-> NoneLive]
                ELSE IF Live(v) THEN [proc[v] EXCEPT !.alone = FALSE]
                ELSE proc[v]]
  /\ pc' = [pc EXCEPT ![w] = "baking"]
  /\ UNCHANGED <<run, markers, lock, paramFile, build, artifact, call, source,
                 got>>

\* The log is truncated, but run-bakery cannot be started.
SpawnFails(w) ==
  /\ pc[w] = "locked"
  /\ ~Found(w)
  /\ log' = IF call[w] = NoArtifact THEN log
            ELSE [log EXCEPT ![call[w]] = "partial"]
  /\ Release(w)
  /\ UNCHANGED <<run, markers, paramFile, build, artifact, source, got, proc>>

\* _run_logged cannot write the log: it kills run-bakery, waits and re-raises.
LogFailsWithoutKill(w) ==                                      \* mutant
  /\ pc[w] = "baking"
  /\ call[w] # NoArtifact
  /\ Release(w)
  /\ UNCHANGED <<run, markers, paramFile, build, artifact, log, source, got,
                 proc>>

LogFails(w) ==
  /\ pc[w] = "baking"
  /\ call[w] # NoArtifact
  /\ proc' = [proc EXCEPT ![w] = NoProc]
  /\ Release(w)
  /\ UNCHANGED <<run, markers, paramFile, build, artifact, log, source, got>>

BakerySucceededAndMarked(w) ==                                 \* mutant
  /\ pc[w] = "baking"
  /\ proc[w].phase = "exited"
  /\ proc' = [proc EXCEPT ![w] = NoProc]
  /\ pc' = [pc EXCEPT ![w] =
              IF call[w] = NoArtifact THEN "copied" ELSE "baked"]
  /\ UNCHANGED <<run, markers, lock, paramFile, build, artifact, log, call,
                 source, got>>

\* _run_logged has read the output to its end and the exit code is zero.
BakerySucceeded(w) ==
  /\ pc[w] = "baking"
  /\ proc[w].phase = "exited"
  /\ proc' = [proc EXCEPT ![w] = NoProc]
  /\ \/ /\ call[w] = NoArtifact
        /\ Release(w)
        /\ UNCHANGED log
     \/ /\ call[w] # NoArtifact
        /\ log' = [log EXCEPT ![call[w]] = "full"]
        /\ pc' = [pc EXCEPT ![w] = "baked"]
        /\ UNCHANGED <<lock, call>>
  /\ UNCHANGED <<run, markers, paramFile, build, artifact, source, got>>

\* The exit code is not zero: CalledProcessError, no marker.
BakeryFailed(w) ==
  /\ pc[w] = "baking"
  /\ proc[w].phase = "failed"
  /\ proc' = [proc EXCEPT ![w] = NoProc]
  /\ log' = IF call[w] = NoArtifact THEN log
            ELSE [log EXCEPT ![call[w]] = "full"]
  /\ Release(w)
  /\ UNCHANGED <<run, markers, paramFile, build, artifact, source, got>>

\* shutil.copyfile opens the source, then truncates the destination.
OpenCopy(w) ==
  /\ pc[w] = "baked"
  /\ build[call[w]].state # "absent"
  /\ source' = [source EXCEPT ![w] = build[call[w]]]
  /\ artifact' = [artifact EXCEPT ![call[w]] =
                    [build[call[w]] EXCEPT !.state = "partial"]]
  /\ pc' = [pc EXCEPT ![w] = "copying"]
  /\ UNCHANGED <<run, markers, lock, paramFile, build, log, call, got, proc>>

CopyFailsSilently(w) ==                                        \* mutant
  /\ pc[w] = "copying"
  /\ source' = [source EXCEPT ![w] = Absent]
  /\ pc' = [pc EXCEPT ![w] = "copied"]
  /\ UNCHANGED <<run, markers, lock, paramFile, build, artifact, log, call,
                 got, proc>>

\* A missing source or a full disk: the exception leaves what was written.
CopyFails(w) ==
  /\ \/ pc[w] = "baked" /\ build[call[w]].state = "absent"
     \/ pc[w] = "copying"
  /\ source' = [source EXCEPT ![w] = Absent]
  /\ Release(w)
  /\ UNCHANGED <<run, markers, paramFile, build, artifact, log, got, proc>>

CompleteCopy(w) ==
  /\ pc[w] = "copying"
  /\ artifact' = [artifact EXCEPT ![call[w]] = source[w]]
  /\ source' = [source EXCEPT ![w] = Absent]
  /\ pc' = [pc EXCEPT ![w] = "copied"]
  /\ UNCHANGED <<run, markers, lock, paramFile, build, log, call, got, proc>>

\* marker.touch(), the release of the lock and the return.
TouchMarker(w) ==
  /\ pc[w] = "copied"
  /\ markers' = markers \cup {call[w]}
  /\ Hand(w, call[w])
  /\ Release(w)
  /\ UNCHANGED <<run, paramFile, build, artifact, log, source, proc>>

-----------------------------------------------------------------------------
(***************************************************************************)
(* The run-bakery process.  It is not part of the repository: it is        *)
(* modelled from what bakery.py and its tests say of it.                   *)
(***************************************************************************)

\* Nobody waits for the exit of a process whose worker is dead.
Ended(w, phase) == IF pc[w] = "dead" THEN NoProc
                   ELSE [proc[w] EXCEPT !.phase = phase]

\* The content of the file passed with --param-file, if it was passed.
AnyParamFile(w) == paramFile                                   \* mutant
ParamFile(w) == IF ParametersOf[w] = NoParams THEN NoParams ELSE paramFile

\* It reads the parameter file, if it was passed one, and replaces the
\* output directory of the system.
BakeryStarts(w) ==
  /\ proc[w].phase = "spawned"
  /\ proc' = [proc EXCEPT ![w].phase = "writing",
                          ![w].params = ParamFile(w)]
  /\ build' = IF proc[w].target = NoArtifact THEN build
              ELSE [a \in Artifacts |->
                      CASE a = proc[w].target ->
                             File("partial", proc[w].run, proc'[w].params)
                        [] a # proc[w].target /\ SameOutput(a, proc[w].target) ->
                             Absent
                        [] OTHER -> build[a]]
  /\ UNCHANGED <<run, markers, lock, paramFile, artifact, log, pc, call,
                 source, got>>

\* Bakery's caches are not safe for concurrent builds: the output of a bake
\* that was not alone may be broken although the exit code is zero.
BakeryExits(w) ==
  /\ proc[w].phase = "writing"
  /\ proc' = [proc EXCEPT ![w] = Ended(w, "exited")]
  /\ \/ /\ proc[w].target = NoArtifact
        /\ UNCHANGED build
     \/ /\ proc[w].target # NoArtifact
        /\ \E s \in {"whole"} \cup (IF proc[w].alone THEN {} ELSE {"partial"}) :
             build' = [build EXCEPT ![proc[w].target] =
                         File(s, proc[w].run, proc[w].params)]
  /\ UNCHANGED <<run, markers, lock, paramFile, artifact, log, pc, call,
                 source, got>>

BakeryBreaks(w) ==
  /\ Live(w)
  /\ proc' = [proc EXCEPT ![w] = Ended(w, "failed")]
  /\ UNCHANGED <<run, markers, lock, paramFile, build, artifact, log, pc,
                 call, source, got>>

-----------------------------------------------------------------------------
(***************************************************************************)
(* The end of a worker, its replacement, and the next test run.            *)
(***************************************************************************)

\* The worker's calls are gone, and the kernel drops the flock when it closes
\* the worker's descriptors.
Die(w) ==
  /\ pc' = [pc EXCEPT ![w] = "dead"]
  /\ call' = [call EXCEPT ![w] = NoArtifact]
  /\ source' = [source EXCEPT ![w] = Absent]
  /\ lock' = IF lock = w THEN Nobody ELSE lock

\* An interrupt ends the worker; _run_logged kills its process and waits.
Interrupt(w) ==
  /\ pc[w] # "dead"
  /\ Die(w)
  /\ proc' = [proc EXCEPT ![w] = NoProc]
  /\ UNCHANGED <<run, markers, paramFile, build, artifact, log, got>>

\* The worker is killed: no handler runs and run-bakery is not killed.
Crash(w) ==
  /\ OrphansSurvive
  /\ pc[w] # "dead"
  /\ Live(w)
  /\ Die(w)
  /\ UNCHANGED <<run, markers, paramFile, build, artifact, log, got, proc>>

\* pytest-xdist starts a new worker for one that died.
ReplaceWorker(w) ==
  /\ pc[w] = "dead"
  /\ proc[w].phase = "none"
  /\ pc' = [pc EXCEPT ![w] = "new"]
  /\ got' = [got EXCEPT ![w] = {}]
  /\ UNCHANGED <<run, markers, lock, paramFile, build, artifact, log, call,
                 source, proc>>

\* A new test run has a new run_dir; the project directory is the old one.
NextRun ==
  /\ run < MaxRuns
  /\ \A w \in Workers : pc[w] \in {"new", "idle", "dead"}
  /\ run' = run + 1
  /\ markers' = {}
  /\ got' = [w \in Workers |-> {}]
  /\ pc' = [w \in Workers |-> IF Live(w) THEN "dead" ELSE "new"]
  /\ UNCHANGED <<lock, paramFile, build, artifact, log, call, source, proc>>

-----------------------------------------------------------------------------
WorkerStep(w) ==
  \/ CreateWithoutParameters(w)
  \/ WriteTmp(w)
  \/ ReplaceParams(w)
  \/ FoundBaked(w)
  \/ SpawnBakery(w)
  \/ SpawnFails(w)
  \/ LogFails(w)
  \/ BakerySucceeded(w)
  \/ BakeryFailed(w)
  \/ OpenCopy(w)
  \/ CopyFails(w)
  \/ CompleteCopy(w)
  \/ TouchMarker(w)

BakeryStep(w) == BakeryStarts(w) \/ BakeryExits(w) \/ BakeryBreaks(w)

CallStep(w) ==
  \/ \E a \in Artifacts : ReuseBaked(w, a)
  \/ \E a \in Artifacts \cup {NoArtifact} : QueueForLock(w, a)

Next ==
  \/ \E w \in Workers :
       \/ WorkerStep(w)
       \/ AcquireLock(w)
       \/ BakeryStep(w)
       \/ CallStep(w)
       \/ Interrupt(w)
       \/ Crash(w)
       \/ ReplaceWorker(w)
  \/ NextRun

Spec == Init /\ [][Next]_vars

\* Workers are running threads, the kernel wakes the processes that wait for
\* a flock, and a bake comes to an end.
Fairness ==
  \A w \in Workers :
    /\ WF_vars(WorkerStep(w))
    /\ SF_vars(AcquireLock(w))
    /\ WF_vars(BakeryStep(w))

FairSpec == Spec /\ Fairness

-----------------------------------------------------------------------------
TypeOK ==
  /\ run \in 1..MaxRuns
  /\ markers \subseteq Artifacts
  /\ lock \in Workers \cup {Nobody}
  /\ paramFile \in Contents
  /\ build \in [Artifacts -> Files]
  /\ artifact \in [Artifacts -> Files]
  /\ log \in [Artifacts -> {"none", "partial", "full"}]
  /\ pc \in [Workers -> Pcs]
  /\ call \in [Workers -> Artifacts \cup {NoArtifact}]
  /\ source \in [Workers -> Files]
  /\ got \in [Workers -> SUBSET Artifacts]
  /\ proc \in [Workers -> Procs]

\* No two workers are ever inside the exclusive section together, whatever
\* ended the one that was in it before.
ExclusiveSections ==
  \A v, w \in Workers : pc[v] \in Holding /\ pc[w] \in Holding => v = w

\* README "runs one bake at a time, even across pytest-xdist workers": no two
\* run-bakery processes are ever at work together.
OneBakeAtATime ==
  \A v, w \in Workers : Live(v) /\ Live(w) => v = w

\* What bake_image and bake_bundle returned stays usable: for as long as the
\* run lasts, the file at that path is complete and was baked in this run, not
\* left over from an earlier one and not half overwritten by a later bake.
ServedIsBaked ==
  \A w \in Workers : \A a \in got[w] :
    artifact[a].state = "whole" /\ artifact[a].run = run

\* BakeryBuilder "parameters override recipe parameters for every bake": a
\* bake under way uses the parameters of the builder that started it.
BakedWithOwnParameters ==
  \A w \in Workers :
    proc[w].phase \in {"writing", "exited"} => proc[w].params = ParametersOf[w]

\* A bake is recorded at most once per run: from the touch of its marker to
\* the end of the run, no step changes the copy or the log of an artifact.
MarkedIsFrozen ==
  [][run' = run =>
       \A a \in markers : artifact'[a] = artifact[a] /\ log'[a] = log[a]]_vars

\* Every call that queues for the lock comes back: with the artifact, with an
\* exception, or because its worker ended.  Nobody waits for ever for a lock
\* that a failed, interrupted or killed worker held.
EveryCallReturns ==
  \A w \in Workers : pc[w] = "waiting" ~> pc[w] \in {"idle", "dead"}

-----------------------------------------------------------------------------
\* What the store publishes: the copy with its log, complete both; the copy is
\* one of this run, unless a bake was not alone because of an orphan.
Publishable ==
  [r \in 1..MaxRuns |->
    [file: {f \in Files : OrphansSurvive \/ (f.state = "whole" /\ f.run = r)},
     log: {"full"}]]

\* The abstract store knows neither markers nor files.
Shelf == [a \in markers |-> [file |-> artifact[a], log |-> log[a]]]

Store == INSTANCE ArtifactStore WITH shelf <- Shelf, handed <- got

\* The builder, with its lock, its markers, its failing bakes and the workers
\* that end anywhere, implements the artifact store.
ImplementsStore == Store!Spec
=============================================================================
