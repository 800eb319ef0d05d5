------------------------------- MODULE VMHandle -------------------------------
(***************************************************************************)
(* VMHandle (src/rugix_testkit/qemu/handle.py) over wait_for_ssh and       *)
(* run_cmd (qemu/ssh.py): a test starts a VM, runs commands on it over SSH *)
(* and reboots it, while the guest boots and shuts down on its own.        *)
(*                                                                         *)
(* The guest's boots are numbered; the number stands for the kernel boot   *)
(* id.  A connection is the boot that it was made to, 0 when it is closed. *)
(***************************************************************************)
EXTENDS Naturals, Sequences

CONSTANTS
  MaxCalls,      \* bound on the calls of run and reboot
  MaxBoots,      \* bound on the boots of the guest
  Reconnects,    \* can Fabric reopen a dead connection? (public-key auth)
  DropsAsCode,   \* can a drop end a command with code -1, without exception?
  StartsBreak,   \* can start fail before, or be interrupted in, its try block?
  QemuDies,      \* can QEMU exit by itself?
  Deadlines      \* can the timeouts of start, of wait_for_reboot and of a
                 \* command that was given one expire?

ASSUME ConstantsAssumption ==
  /\ MaxCalls \in Nat
  /\ MaxBoots \in Nat \ {0}
  /\ {Reconnects, DropsAsCode, StartsBreak, QemuDies, Deadlines} \subseteq BOOLEAN

VARIABLES
  boot,      \* the guest's current boot, 0 before the first
  phase,     \* what the guest is doing
  workDir,   \* the temporary work directory
  conn,      \* self._conn
  bootId,    \* self._boot_id
  history,   \* self._command_history, by the number of the call
  pc,        \* where the test's thread is
  op,        \* the method it is in
  kind,      \* the command of the current or last call
  local,     \* `conn' of wait_for_ssh, before it is identified
  last,      \* outcome of the last call
  calls,     \* number of calls of run and reboot
  ranOn,     \* boot that the last command ran on, 0 if it did not
  executed,  \* calls whose command ran on the guest
  swallowed, \* calls of run_disconnecting that a raised drop ended
  awaited    \* was every reboot of the guest the command of a call of reboot,
             \* which went on to wait for it?

guest == <<boot, phase>>
log == <<calls, history, executed, swallowed, kind, ranOn, awaited>>
vars == <<boot, phase, workDir, conn, bootId, history, pc, op, kind, local,
          last, calls, ranOn, executed, swallowed, awaited>>

Boots == 1..MaxBoots
Finished == {"idle", "failed", "closed", "lost", "abandoned"}

\* sshd answers, even while the system shuts down.
Answers == phase \in {"up", "stopping"}
\* A connection on which nothing can go wrong.
Healthy(c) == c = boot /\ phase = "up"
\* A connection on which the guest can still answer.
Usable(c) == c = boot /\ Answers

Init ==
  /\ boot = 0
  /\ phase = "off"
  /\ workDir = "created"
  /\ conn = 0
  /\ bootId = 0
  /\ history = <<>>
  /\ pc = "new"
  /\ op = "start"
  /\ kind = "plain"
  /\ local = 0
  /\ last = "none"
  /\ calls = 0
  /\ ranOn = 0
  /\ executed = {}
  /\ swallowed = {}
  /\ awaited = TRUE

-----------------------------------------------------------------------------
(***************************************************************************)
(* start and close.                                                        *)
(***************************************************************************)

\* QemuVM.stop and QemuVM.cleanup.  A process that outlives its kill counts as
\* off: it answers nobody any more.
StopAndCleanup ==
  /\ phase' = "off"
  /\ workDir' = "removed"

Start ==
  /\ pc = "new"
  /\ boot' = 1
  /\ phase' = "booting"
  /\ pc' = "connecting"
  /\ UNCHANGED <<workDir, conn, bootId, op, local, last, log>>

\* prepare or QemuVM.start raises, outside the try block.
SetupFails ==
  /\ StartsBreak
  /\ pc = "new"
  /\ pc' = "abandoned"
  /\ UNCHANGED <<guest, workDir, conn, bootId, op, local, last, log>>

RaisesOnly ==                                                  \* mutant
  /\ op = "start"
  /\ pc' = "lost"
  /\ local' = 0
  /\ UNCHANGED <<guest, workDir, conn, bootId, op, last, log>>

\* The except clause of start: the VM is stopped, the exception re-raised.
BootFails ==
  /\ op = "start"
  /\ StopAndCleanup
  /\ pc' = "lost"
  /\ local' = 0
  /\ UNCHANGED <<boot, conn, bootId, op, last, log>>

\* KeyboardInterrupt, and what else is no Exception: nobody stops the VM.
Interrupted ==
  /\ StartsBreak
  /\ op = "start"
  /\ pc \in {"connecting", "identifying"}
  /\ pc' = "abandoned"
  /\ UNCHANGED <<guest, workDir, conn, bootId, op, local, last, log>>

\* The end of the `with' block or of the start_vm fixture.
Close ==
  /\ pc \in {"idle", "failed"}
  /\ conn' = 0
  /\ StopAndCleanup
  /\ pc' = "closed"
  /\ UNCHANGED <<boot, bootId, op, local, last, log>>

-----------------------------------------------------------------------------
(***************************************************************************)
(* run and run_disconnecting.                                              *)
(***************************************************************************)

Call(o, k) ==
  /\ pc = "idle"
  /\ calls < MaxCalls
  /\ calls' = calls + 1
  /\ op' = o
  /\ kind' = k
  /\ ranOn' = 0
  /\ last' = "none"
  /\ pc' = "sending"
  /\ UNCHANGED <<guest, workDir, conn, bootId, history, local, executed,
                 swallowed, awaited>>

\* Also RugixCtrl.update_install; with reboot="yes" nobody waits for the reboot.
Run == \E k \in {"plain", "reboot"} : Call("run", k)

\* Also RugixCtrl.install_and_reboot, whose command installs and reboots.
Reboot == Call("reboot", "reboot")

\* Fabric opens a connection that it knows to be dead before it runs a command,
\* if it has been given the key; for auth_none it has only the dead transport.
Reopen ==
  /\ Reconnects
  /\ pc = "sending"
  /\ conn # boot
  /\ Answers
  /\ conn' = boot
  /\ UNCHANGED <<guest, workDir, bootId, pc, op, local, last, log>>

\* The command runs on the guest.
Execute ==
  /\ pc = "sending"
  /\ Usable(conn)
  /\ ranOn' = boot
  /\ executed' = executed \cup {calls}
  /\ pc' = "answering"
  /\ \/ /\ kind = "reboot"
        /\ phase' = "stopping"
        /\ awaited' = (awaited /\ op = "reboot")
     \/ UNCHANGED <<phase, awaited>>    \* a plain command, or one that fails
  /\ UNCHANGED <<boot, workDir, conn, bootId, history, op, kind, local, last,
                 calls, swallowed>>

\* The result of the call goes into the history.
Record == history' = Append(history, calls)

\* self._conn.close(), then the wait for the new boot.
BeginWait ==
  /\ conn' = 0
  /\ pc' = "connecting"
  /\ UNCHANGED last

End(outcome) ==
  /\ last' = outcome
  /\ pc' = "idle"
  /\ UNCHANGED conn

ExitRaisesFirst ==                                             \* mutant
  /\ pc = "answering"
  /\ Usable(ranOn)
  /\ \/ Record /\ op = "run" /\ End("ok")
     \/ op = "run" /\ End("CmdError") /\ UNCHANGED history
     \/ Record /\ op = "reboot" /\ phase = "stopping" /\ BeginWait
  /\ UNCHANGED <<guest, workDir, bootId, op, kind, local, calls, ranOn,
                 executed, swallowed, awaited>>

ExitWithoutWait ==                                             \* mutant
  /\ pc = "answering"
  /\ Usable(ranOn)
  /\ Record
  /\ End("ok")
  /\ UNCHANGED <<guest, workDir, bootId, op, kind, local, calls, ranOn,
                 executed, swallowed, awaited>>

\* The exit code arrives.  Both methods run the command with check=False here:
\* run raises for a code that is not zero if its caller asked for it,
\* run_disconnecting always does, and then nobody waits for a reboot that it has
\* begun.  Only a reboot that was begun exits with 0.
Exit ==
  /\ pc = "answering"
  /\ Usable(ranOn)
  /\ Record
  /\ \/ /\ op = "run"
        /\ \E outcome \in {"ok", "CmdError"} : End(outcome)
        /\ UNCHANGED awaited
     \/ /\ op = "reboot"
        /\ End("CmdError")
        /\ awaited' = (awaited /\ phase # "stopping")
     \/ /\ op = "reboot"
        /\ phase = "stopping"
        /\ BeginWait
        /\ UNCHANGED awaited
  /\ UNCHANGED <<guest, workDir, bootId, op, kind, local, calls, ranOn,
                 executed, swallowed>>

\* The connection is down before the command starts or before its code arrives.
Dropped ==
  \/ pc = "sending" /\ ~Healthy(conn)
  \/ pc = "answering" /\ ~Healthy(ranOn)

DropRetries ==                                                 \* mutant
  /\ Dropped
  /\ pc' = "sending"
  /\ UNCHANGED <<guest, workDir, conn, bootId, op, local, last, log>>

\* The drop raises in run, before it records anything: run_disconnecting
\* swallows the exception and returns, run itself does not.
DropRaises ==
  /\ Dropped
  /\ IF op = "reboot" THEN BeginWait /\ swallowed' = swallowed \cup {calls}
     ELSE /\ last' = "disconnected"
          /\ pc' = "failed"
          /\ UNCHANGED <<conn, swallowed>>
  /\ UNCHANGED <<guest, workDir, bootId, op, local, calls, history, executed,
                 kind, ranOn, awaited>>

\* The drop is reported as code -1: run_disconnecting takes it for a success,
\* run raises if its caller asked for it.
DropAsCode ==
  /\ DropsAsCode
  /\ Dropped
  /\ Record
  /\ IF op = "reboot" THEN BeginWait
     ELSE \E outcome \in {"ok", "CmdError"} : End(outcome)
  /\ UNCHANGED <<guest, workDir, bootId, op, kind, local, calls, ranOn,
                 executed, swallowed, awaited>>

\* The command has a timeout, as those of update_install and install_and_reboot,
\* and it expires: CommandTimedOut is none of _DISCONNECT_ERRORS.  reboot gives
\* none, and a connection that stalls instead of dropping blocks it for ever.
\* What a command still does after its timeout is left out.
CommandTimesOut ==
  /\ Deadlines
  /\ pc \in {"sending", "answering"}
  /\ last' = "CommandTimedOut"
  /\ pc' = "failed"
  /\ UNCHANGED <<guest, workDir, conn, bootId, op, local, log>>

-----------------------------------------------------------------------------
(***************************************************************************)
(* wait_for_ssh and _boot_id, in start and in wait_for_reboot.             *)
(***************************************************************************)

\* The banner is there and the connection is made.
Connect ==
  /\ pc = "connecting"
  /\ Answers
  /\ local' = boot
  /\ pc' = "identifying"
  /\ UNCHANGED <<guest, workDir, conn, bootId, op, last, log>>

\* wait_for_ssh or the loop of wait_for_reboot has used up its time.
TimesOut ==
  /\ Deadlines
  /\ pc = "connecting"
  /\ IF op = "start" THEN BootFails
     ELSE /\ last' = "TimeoutError"
          /\ pc' = "failed"
          /\ UNCHANGED <<guest, workDir, conn, bootId, op, local, log>>

AdoptWithoutConnection(outcome) ==                             \* mutant
  /\ bootId' = boot
  /\ last' = outcome
  /\ pc' = "idle"
  /\ UNCHANGED conn

\* The handle takes over the identified connection.
Adopt(outcome) ==
  /\ conn' = local
  /\ bootId' = boot
  /\ last' = outcome
  /\ pc' = "idle"

PollSameConnection ==                                          \* mutant
  /\ pc' = "identifying"
  /\ UNCHANGED <<conn, bootId, last>>

\* Not the new boot yet: the connection is closed and the loop goes on.
TryAgain ==
  /\ pc' = "connecting"
  /\ UNCHANGED <<conn, bootId, last>>

\* Any boot id will do for start, wait_for_reboot wants a new one.
AnyBoot == TRUE                                                \* mutant
NewBoot == boot # bootId

Identify ==
  /\ pc = "identifying"
  /\ Usable(local)
  /\ local' = 0
  /\ \/ op = "start" /\ Adopt("started")
     \/ op = "reboot" /\ NewBoot /\ Adopt("rebooted")
     \/ op = "reboot" /\ ~NewBoot /\ TryAgain
  /\ UNCHANGED <<guest, workDir, op, log>>

\* The drop raises, or `timeout=10' ends the command.
IdentifyDropped ==
  /\ pc = "identifying"
  /\ ~Healthy(local)
  /\ IF op = "start" THEN BootFails
     ELSE /\ TryAgain
          /\ local' = 0
          /\ UNCHANGED <<guest, workDir, op, log>>

\* Code -1: run_cmd raises CmdError, which wait_for_reboot does not expect.
IdentifyDroppedAsCode ==
  /\ DropsAsCode
  /\ pc = "identifying"
  /\ ~Healthy(local)
  /\ IF op = "start" THEN BootFails
     ELSE /\ last' = "CmdError"
          /\ pc' = "failed"
          /\ local' = 0
          /\ UNCHANGED <<guest, workDir, conn, bootId, op, log>>

-----------------------------------------------------------------------------
(***************************************************************************)
(* The guest, from how handle.py uses it.                                  *)
(***************************************************************************)

GuestUp ==
  /\ phase = "booting"
  /\ phase' = "up"
  /\ UNCHANGED <<boot, workDir, conn, bootId, pc, op, local, last, log>>

GuestRestarts ==
  /\ phase = "stopping"
  /\ boot < MaxBoots
  /\ boot' = boot + 1
  /\ phase' = "booting"
  /\ UNCHANGED <<workDir, conn, bootId, pc, op, local, last, log>>

QemuExits ==
  /\ QemuDies
  /\ phase # "off"
  /\ phase' = "off"
  /\ UNCHANGED <<boot, workDir, conn, bootId, pc, op, local, last, log>>

-----------------------------------------------------------------------------
\* The command of a call, and the answer to it or what comes instead.
CommandStep ==
  Reopen \/ Execute \/ Exit \/ DropRaises \/ DropAsCode \/ CommandTimesOut

\* The loops that wait for the guest go on.
WaitStep == Connect \/ Identify \/ IdentifyDropped

Next ==
  \/ Start \/ SetupFails \/ Interrupted \/ Close
  \/ Run \/ Reboot
  \/ CommandStep \/ WaitStep \/ IdentifyDroppedAsCode \/ TimesOut
  \/ GuestUp \/ GuestRestarts \/ QemuExits

Spec == Init /\ [][Next]_vars

\* Whatever a loop waits for has a time limit of its own (2 s for the banner,
\* 10 s for the boot id), and the guest boots and shuts down in finite time.
\* Nothing makes a command end: its connection may stall.  Nor need a deadline
\* expire, or a drop come as a code.
Fairness ==
  /\ WF_vars(WaitStep)
  /\ WF_vars(GuestUp)
  /\ WF_vars(GuestRestarts)

FairSpec == Spec /\ Fairness

-----------------------------------------------------------------------------
TypeOK ==
  /\ boot \in 0..MaxBoots
  /\ phase \in {"off", "booting", "up", "stopping"}
  /\ workDir \in {"created", "removed"}
  /\ conn \in 0..MaxBoots
  /\ bootId \in 0..MaxBoots
  /\ history \in Seq(1..MaxCalls)
  /\ pc \in Finished \cup {"new", "connecting", "identifying", "sending",
                           "answering"}
  /\ op \in {"start", "run", "reboot"}
  /\ kind \in {"plain", "reboot"}
  /\ local \in 0..MaxBoots
  /\ last \in {"none", "started", "rebooted", "ok", "CmdError", "disconnected",
               "TimeoutError", "CommandTimedOut"}
  /\ calls \in 0..MaxCalls
  /\ ranOn \in 0..MaxBoots
  /\ executed \subseteq 1..MaxCalls
  /\ swallowed \subseteq 1..MaxCalls
  /\ awaited \in BOOLEAN
  /\ pc \in {"idle", "sending"} => conn # 0    \* `assert self._conn is not None'

\* "Wait for an initiated reboot to complete": when reboot returns, the boot
\* that its command ran on is over, and the connection is to a later one, as long
\* as each reboot of the guest has been waited for: after one that was not, the
\* remembered boot id is stale.
RebootIsOver == awaited /\ last = "rebooted" => ranOn < bootId

\* "Install an update with --reboot yes and wait for the reboot": reboot and
\* install_and_reboot only return if their command ran, as long as each reboot
\* of the guest has been waited for: a drop is taken for the effect of the command.
RebootWasRun == awaited /\ last = "rebooted" => ranOn # 0

\* wait_for_reboot, which begins by closing the connection, fails when its time
\* is up, never because "the shutting-down system may drop or stall the
\* connection".
WaitFailsOnlyByTimeout ==
  pc = "failed" /\ op = "reboot" /\ conn = 0 => last = "TimeoutError"

\* command_history: "all commands executed on the VM via run, in order".  What
\* reboot and install_and_reboot execute goes through run as well.  While the
\* test goes on, the history lacks exactly the commands of those of their calls
\* that a raised drop ended; it has all others, also those that failed or whose
\* connection had to be reopened, none twice, in the order of the calls.
HistoryFaithful ==
  /\ pc = "idle" =>
       \A c \in executed \ swallowed : \E i \in DOMAIN history : history[i] = c
  /\ \A i \in DOMAIN history : history[i] \notin swallowed
  /\ \A i, j \in DOMAIN history : i < j => history[i] < history[j]

\* A handle that was closed, or whose start failed, leaves neither a QEMU
\* process nor a temporary directory behind.
NothingLeft ==
  pc \in {"closed", "lost"} => phase = "off" /\ workDir = "removed"

\* A wait for a reboot ends with a connection to the new boot, also when the
\* guest answers for long while it shuts down and connections drop or stall: it
\* is over before that only if its time has run out, if a drop came as code -1
\* (WaitFailsOnlyByTimeout) or if QEMU is gone.  Before the wait nothing is
\* promised: the command may block for ever.
WaitSucceeds ==
  pc = "connecting" /\ op = "reboot" ~>
    last \in {"rebooted", "TimeoutError", "CmdError"} \/ phase = "off"

-----------------------------------------------------------------------------
\* The boot that the machine is in.
Machine == IF phase = "off" THEN 0 ELSE boot

\* What the test's thread is at, whatever it does for it.
Status ==
  CASE pc = "new"                -> "new"
    [] pc = "idle"               -> "ready"
    [] pc = "failed"             -> "failed"
    [] pc \in {"closed", "lost"} -> "gone"
    [] pc = "abandoned"          -> "abandoned"
    [] pc \in {"connecting", "identifying", "sending", "answering"} ->
         CASE op = "start"  -> "starting"
           [] op = "run"    -> "running"
           [] op = "reboot" -> "rebooting"

Remote == INSTANCE RemoteMachine
            WITH machine <- Machine, session <- bootId, status <- Status,
                 ran <- ranOn # 0, held <- workDir = "created",
                 Abandons <- StartsBreak

\* The handle, with its connections that drop or stall, its boot ids, deadlines and
\* errors, implements the machine that a test can rely on as long as it has
\* waited for every reboot of the guest.
ImplementsRemoteMachine == Remote!Spec

\* The life of the VM, also when it boots and shuts down as it likes.
Life ==
  CASE pc = "new" -> "new"
    [] pc \in {"connecting", "identifying"} /\ op = "start" -> "starting"
    [] pc \in {"closed", "lost"} -> "gone"
    [] pc = "abandoned" -> "abandoned"
    [] OTHER -> "ready"

OneVM == INSTANCE VMLifecycle
           WITH life <- Life, running <- phase # "off",
                held <- workDir = "created"

\* A handle leads the life of a VM that the fixtures of TestSession rely on.
ImplementsVMLifecycle == OneVM!Spec
=============================================================================
