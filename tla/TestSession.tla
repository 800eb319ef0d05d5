------------------------------ MODULE TestSession ------------------------------
(***************************************************************************)
(* The fixtures of pytest_plugin.py over QemuVM.start and VMHandle.start:  *)
(* the workers of a test run start the VMs of their tests in parallel, on  *)
(* TCP ports that find_free_port (qemu/config.py) finds, save what the VMs *)
(* printed, and stop them.                                                 *)
(*                                                                         *)
(* A VM is named by its worker and its number in the worker's current      *)
(* test.  A worker starts one VM at a time, the last one of its sequence.  *)
(***************************************************************************)
EXTENDS Naturals, Sequences

CONSTANTS
  Workers,    \* pytest-xdist workers
  Ports,      \* ports that the kernel hands out to a bind to port 0
  MaxTests,   \* bound on the tests of a worker
  MaxVMs,     \* bound on the VMs of a test
  PortRaces,  \* can it hand out a port that another start was just given?
  QemuDies,   \* can QEMU exit by itself?
  KillFails,  \* can a QEMU outlive its kill, so that stop gives up on it?
  Interrupts, \* can Ctrl-C, or what else is no Exception, end a test?
  NoVM, NoPort

ASSUME ConstantsAssumption ==
  /\ MaxTests \in Nat
  /\ MaxVMs \in Nat
  /\ {PortRaces, QemuDies, KillFails, Interrupts} \subseteq BOOLEAN
  /\ NoVM \notin Workers \X (1..MaxVMs)
  /\ NoPort \notin Ports

VARIABLES
  tests,   \* number of tests that each worker has begun
  stage,   \* phase of the worker's test
  ended,   \* the phase that the worker's test ended in, "no" before that
  vms      \* the VMs of the worker's test

vars == <<tests, stage, ended, vms>>

VMIds == Workers \X (1..MaxVMs)

Record ==
  [kind: {"handle", "qemu"},
   at: {"prepared", "chosen", "connecting", "ready", "failed", "broken"},
   port: Ports \cup {NoPort},
   qemu: {"none", "starting", "listening", "killed", "dead"},
   dir: BOOLEAN,       \* does its work directory exist?
   conn: VMIds \cup {NoVM},  \* VM that its SSH connection leads to
   listed: BOOLEAN,    \* will the fixture stop it?
   stashed: BOOLEAN,   \* in _VMS
   saved: BOOLEAN]     \* are its outputs in the outputs directory?

NewVM(k) ==
  [kind |-> k, at |-> "prepared", port |-> NoPort, qemu |-> "none",
   dir |-> TRUE, conn |-> NoVM, listed |-> FALSE, stashed |-> FALSE,
   saved |-> FALSE]

Phases == {"setup", "call"}
UnderWay == {"prepared", "chosen", "connecting"}

Exists(v) == v[2] \in DOMAIN vms[v[1]]
VM(v) == vms[v[1]][v[2]]

\* QEMU's user networking has bound the port.
Listening(v, p) == Exists(v) /\ VM(v).qemu = "listening" /\ VM(v).port = p
\* A process that outlives its kill answers nobody, but is taken to hold it.
Holding(v, p) ==
  Exists(v) /\ VM(v).qemu \in {"listening", "killed"} /\ VM(v).port = p
Free(p) == \A v \in VMIds : ~Holding(v, p)

\* The port was handed out to a start that has not bound it yet.
Pending(p) ==
  \E v \in VMIds :
    /\ Exists(v)
    /\ VM(v).port = p
    /\ VM(v).at = "chosen" \/ VM(v).qemu = "starting"

Newest(w) == <<w, Len(vms[w])>>
Starting(w) == vms[w] # <<>> /\ VM(Newest(w)).at \in UnderWay

Set(v, r) == vms' = [vms EXCEPT ![v[1]][v[2]] = r]

Init ==
  /\ tests = [w \in Workers |-> 0]
  /\ stage = [w \in Workers |-> "idle"]
  /\ ended = [w \in Workers |-> "no"]
  /\ vms = [w \in Workers |-> <<>>]

-----------------------------------------------------------------------------
(***************************************************************************)
(* The phases of a test.                                                   *)
(***************************************************************************)

\* An interrupted session begins no further test.
BeginTest(w) ==
  /\ stage[w] = "idle"
  /\ ended[w] # "interrupted"
  /\ tests[w] < MaxTests
  /\ tests' = [tests EXCEPT ![w] = @ + 1]
  /\ stage' = [stage EXCEPT ![w] = "setup"]
  /\ ended' = [ended EXCEPT ![w] = "no"]
  /\ vms' = [vms EXCEPT ![w] = <<>>]

BeginCall(w) ==
  /\ stage[w] = "setup"
  /\ \A i \in DOMAIN vms[w] : vms[w][i].at = "ready"
  /\ stage' = [stage EXCEPT ![w] = "call"]
  /\ UNCHANGED <<tests, ended, vms>>

\* The start that is under way ends with an exception that nothing undoes:
\* VMHandle.start catches no BaseException, and start_qemu none at all.
Left(s) ==
  [i \in DOMAIN s |-> [s[i] EXCEPT !.at = IF @ \in UnderWay THEN "broken" ELSE @]]

\* _save_vm_outputs saves the outputs of the VMs in the item's stash ...
SaveFirst(s) ==                                                \* mutant
  [i \in DOMAIN s |-> [s[i] EXCEPT !.saved = @ \/ (i = 1 /\ s[i].stashed)]]
Save(s) == [i \in DOMAIN s |-> [s[i] EXCEPT !.saved = @ \/ s[i].stashed]]

\* ... when the report of the call phase is made.  The test has run or failed,
\* or a fixture has failed in setup: then no call follows.  What pytest.fail
\* raises, say in the signal handler of a timeout, is no Exception either.
EndTest(w) ==
  /\ stage[w] \in Phases
  /\ Interrupts \/ ~Starting(w)
  /\ stage' = [stage EXCEPT ![w] = "teardown"]
  /\ ended' = [ended EXCEPT ![w] = stage[w]]
  /\ vms' = [vms EXCEPT ![w] = IF stage[w] = "call" THEN Save(Left(@))
                              ELSE Left(@)]
  /\ UNCHANGED tests

\* KeyboardInterrupt: pytest makes no report, but finalizes the fixtures.
Interrupt(w) ==
  /\ Interrupts
  /\ stage[w] \in Phases
  /\ stage' = [stage EXCEPT ![w] = "teardown"]
  /\ ended' = [ended EXCEPT ![w] = "interrupted"]
  /\ vms' = [vms EXCEPT ![w] = Left(@)]
  /\ UNCHANGED tests

\* How stop leaves QEMU: it logs an error and gives up on a process that is
\* still there 5 s after its kill.
Stopped(r) ==
  IF r.qemu \in {"none", "dead"} THEN {r.qemu}
  ELSE {"dead"} \cup {q \in {"killed"} : KillFails}

StopWithoutCleanup(r, q) ==                                    \* mutant
  [r EXCEPT !.qemu = q, !.conn = NoVM, !.listed = FALSE]

\* The ExitStack of start_vm or the loop of start_qemu.
StopAndCleanup(r, q) ==
  [r EXCEPT !.qemu = q, !.conn = NoVM, !.listed = FALSE, !.dir = FALSE]

\* The stack closes its handles in the reverse order, the loop goes forward;
\* the fixtures are finalized in the reverse order of the test's arguments.
CloseVM(w) ==
  /\ stage[w] = "teardown"
  /\ \E i \in DOMAIN vms[w] :
       /\ vms[w][i].listed
       /\ \A j \in DOMAIN vms[w] :
            vms[w][j].listed /\ vms[w][j].kind = vms[w][i].kind =>
              IF vms[w][i].kind = "handle" THEN j <= i ELSE i <= j
       /\ \E q \in Stopped(vms[w][i]) :
            Set(<<w, i>>, StopAndCleanup(vms[w][i], q))
  /\ UNCHANGED <<tests, stage, ended>>

EndTeardown(w) ==
  /\ stage[w] = "teardown"
  /\ \A i \in DOMAIN vms[w] : ~vms[w][i].listed
  /\ stage' = [stage EXCEPT ![w] = "idle"]
  /\ UNCHANGED <<tests, ended, vms>>

-----------------------------------------------------------------------------
(***************************************************************************)
(* start_vm and start_qemu.  The `vm' fixture calls start_vm in setup.     *)
(***************************************************************************)

Call(w) ==
  /\ stage[w] \in Phases
  /\ ~Starting(w)
  /\ Len(vms[w]) < MaxVMs

\* The VM has its work directory; start_qemu will stop it from here on.
Prepare(w, k) ==
  /\ Call(w)
  /\ vms' = [vms EXCEPT ![w] =
               Append(@, [NewVM(k) EXCEPT !.listed = (k = "qemu")])]
  /\ UNCHANGED <<tests, stage, ended>>

\* prepare raises: no fixture knows of the new work directory.  A test may
\* catch the exception of a start and go on.
PrepareFails(w, k) ==
  /\ Call(w)
  /\ vms' = [vms EXCEPT ![w] = Append(@, [NewVM(k) EXCEPT !.at = "broken"])]
  /\ UNCHANGED <<tests, stage, ended>>

\* find_free_port binds a port, closes the socket and returns the number.
ChoosePort(w) ==
  /\ Starting(w)
  /\ VM(Newest(w)).at = "prepared"
  /\ \E p \in Ports :
       /\ Free(p)
       /\ PortRaces \/ ~Pending(p)
       /\ Set(Newest(w), [VM(Newest(w)) EXCEPT !.at = "chosen", !.port = p])
  /\ UNCHANGED <<tests, stage, ended>>

SpawnWithoutPort(w) ==                                         \* mutant
  /\ Starting(w)
  /\ VM(Newest(w)).at \in {"prepared", "chosen"}
  /\ Set(Newest(w), [VM(Newest(w)) EXCEPT !.qemu = "starting",
                                          !.at = "connecting"])
  /\ UNCHANGED <<tests, stage, ended>>

\* start_vm will only stop the VM once VMHandle.start has returned.
Spawn(w) ==
  /\ Starting(w)
  /\ LET r == VM(Newest(w))
     IN  /\ r.at = "chosen"
         /\ Set(Newest(w),
                IF r.kind = "handle"
                THEN [r EXCEPT !.qemu = "starting", !.at = "connecting"]
                ELSE [r EXCEPT !.qemu = "starting", !.at = "ready",
                               !.stashed = TRUE])
  /\ UNCHANGED <<tests, stage, ended>>

\* Popen raises.
SpawnFails(w) ==
  /\ Starting(w)
  /\ VM(Newest(w)).at = "chosen"
  /\ Set(Newest(w), [VM(Newest(w)) EXCEPT !.at = "broken"])
  /\ UNCHANGED <<tests, stage, ended>>

ConnectedUnlisted(r, v) ==                                     \* mutant
  [r EXCEPT !.conn = v, !.at = "ready", !.stashed = TRUE]

\* wait_for_ssh connects to whoever answers on the port.
Connected(r, v) ==
  [r EXCEPT !.conn = v, !.at = "ready", !.listed = TRUE, !.stashed = TRUE]

Connect(w) ==
  /\ Starting(w)
  /\ LET r == VM(Newest(w))
     IN  /\ r.at = "connecting"
         /\ \E v \in VMIds :
              /\ Listening(v, r.port)
              /\ Set(Newest(w), Connected(r, v))
  /\ UNCHANGED <<tests, stage, ended>>

\* No answer within boot_timeout, or the boot id cannot be read: the except
\* clause of VMHandle.start stops and cleans up.  Its Exception may be caught.
BootFails(w) ==
  /\ Starting(w)
  /\ VM(Newest(w)).at = "connecting"
  /\ \E q \in Stopped(VM(Newest(w))) :
       Set(Newest(w), [StopAndCleanup(VM(Newest(w)), q) EXCEPT !.at = "failed"])
  /\ UNCHANGED <<tests, stage, ended>>

\* wait_for_reboot, or Fabric after a lost connection: the same port again.
Reconnect(w) ==
  /\ stage[w] = "call"
  /\ ~Starting(w)
  /\ \E i \in DOMAIN vms[w] : \E v \in VMIds :
       /\ vms[w][i].conn # NoVM
       /\ Listening(v, vms[w][i].port)
       /\ Set(<<w, i>>, [vms[w][i] EXCEPT !.conn = v])
  /\ UNCHANGED <<tests, stage, ended>>

-----------------------------------------------------------------------------
(***************************************************************************)
(* QEMU, from how the testkit uses it.                                     *)
(***************************************************************************)

\* QEMU binds the forwarded port; it exits if the port is taken.
Bind(v) ==
  /\ Exists(v)
  /\ VM(v).qemu = "starting"
  /\ Set(v, [VM(v) EXCEPT !.qemu = IF Free(VM(v).port) THEN "listening"
                                   ELSE "dead"])
  /\ UNCHANGED <<tests, stage, ended>>

QemuExits(v) ==
  /\ QemuDies
  /\ Exists(v)
  /\ VM(v).qemu \in {"starting", "listening", "killed"}
  /\ Set(v, [VM(v) EXCEPT !.qemu = "dead"])
  /\ UNCHANGED <<tests, stage, ended>>

-----------------------------------------------------------------------------
WorkerStep(w) ==
  \/ BeginTest(w) \/ BeginCall(w) \/ EndTest(w) \/ Interrupt(w)
  \/ CloseVM(w) \/ EndTeardown(w)
  \/ \E k \in {"handle", "qemu"} : Prepare(w, k) \/ PrepareFails(w, k)
  \/ ChoosePort(w) \/ Spawn(w) \/ SpawnFails(w)
  \/ Connect(w) \/ BootFails(w) \/ Reconnect(w)

Next ==
  \/ \E w \in Workers : WorkerStep(w)
  \/ \E v \in VMIds : Bind(v) \/ QemuExits(v)

Spec == Init /\ [][Next]_vars

-----------------------------------------------------------------------------
TypeOK ==
  /\ tests \in [Workers -> 0..MaxTests]
  /\ stage \in [Workers -> {"idle", "setup", "call", "teardown"}]
  /\ ended \in [Workers -> Phases \cup {"no", "interrupted"}]
  /\ vms \in [Workers -> Seq(Record)]
  /\ \A w \in Workers : Len(vms[w]) <= MaxVMs
  /\ \A v \in VMIds :
       Exists(v) /\ VM(v).qemu # "none" => VM(v).port # NoPort

\* When the fixtures of a test are finalized, what is left of its VMs, however
\* the test, its starts and its VMs ended?  A directory only of a VM that no
\* fixture knew of: the start of a handle was interrupted, or raised where no
\* except clause undoes it, or the `prepare' of start_qemu raised.  A QEMU that
\* still runs only of such a handle, whose start something that is no Exception
\* ended after the launch.  Otherwise a QEMU is gone or has outlived its kill.
NothingLeft ==
  \A w \in Workers : stage[w] = "idle" =>
    \A i \in DOMAIN vms[w] :
      LET r == vms[w][i]
      IN  /\ r.dir => r.at = "broken" /\ (r.kind = "handle" \/ r.qemu = "none")
          /\ r.qemu \in {"starting", "listening"} =>
               Interrupts /\ r.at = "broken" /\ r.kind = "handle"
          /\ r.qemu = "killed" => KillFails

\* Of a test that was called and not interrupted, the outputs of every VM whose
\* start returned are saved, also of one that was started in setup, that died
\* or that is not the only one of the test.
ReturnedIsSaved ==
  \A w \in Workers : stage[w] = "idle" /\ ended[w] = "call" =>
    \A i \in DOMAIN vms[w] : vms[w][i].at = "ready" => vms[w][i].saved

\* README "After each test, the plugin saves the serial output and command
\* history of its VMs to test-outputs/", and start_vm "The serial output and
\* command history of each VM are saved": of each VM that was launched.
OutputsSaved ==
  \A w \in Workers : stage[w] = "idle" /\ ended[w] \in Phases =>
    \A i \in DOMAIN vms[w] : vms[w][i].qemu # "none" => vms[w][i].saved

\* A handle is "running QEMU VM + SSH connection": the connection leads to the
\* VM that the handle started, never to another test's VM.
OwnVM ==
  \A v \in VMIds : Exists(v) /\ VM(v).conn # NoVM => VM(v).conn = v

-----------------------------------------------------------------------------
\* The life of a VM, by its record.
LifeOf(r) ==
  CASE r.at = "failed" \/ ~r.dir                   -> "gone"
    [] r.at \in {"prepared", "chosen"} /\ r.dir    -> "new"
    [] r.at = "connecting" /\ r.dir                -> "starting"
    [] r.at = "ready" /\ r.dir                     -> "ready"
    [] r.at = "broken" /\ r.dir                    -> "abandoned"

Life(v) == IF Exists(v) THEN LifeOf(VM(v)) ELSE "none"
\* A process that outlives its kill has been given up: it no longer counts.
Running(v) == Exists(v) /\ VM(v).qemu \in {"starting", "listening"}
Held(v) == Exists(v) /\ VM(v).dir

OneVM(v) == INSTANCE VMLifecycle
              WITH life <- Life(v), running <- Running(v), held <- Held(v)

\* The workers with their fixtures, ports and tests lead each VM through the life
\* of a VM, once per test: OneVM(v)!Spec for every VM, in one formula.
ImplementsVMLifecycle ==
  /\ \A v \in VMIds : OneVM(v)!Init
  /\ [][\A v \in VMIds : UNCHANGED OneVM(v)!lifeVars \/ OneVM(v)!Next]_vars
=============================================================================
