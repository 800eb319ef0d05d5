---------------------------- MODULE RemoteMachine ----------------------------
(***************************************************************************)
(* What a VMHandle promises to its test, without SSH, boot ids, exceptions *)
(* or waiting: a machine that is always in the boot that the test last     *)
(* connected to, until a call of reboot or install_and_reboot leaves that  *)
(* boot, once and because its command ran, or until the machine goes off.  *)
(***************************************************************************)
EXTENDS Naturals

CONSTANT Abandons   \* can a start end where nothing undoes it?

VARIABLES
  machine,   \* the boot that the machine is in, 0 when it is off
  session,   \* the boot that the test is connected to
  status,    \* what the test's thread is at
  ran,       \* the command of the current or last call has run
  held,      \* the work directory exists
  awaited    \* each reboot of the machine was one of a call that waits for it

remoteVars == <<machine, session, status, ran, held, awaited>>

Init ==
  /\ machine = 0
  /\ session = 0
  /\ status = "new"
  /\ ran = FALSE
  /\ held = TRUE
  /\ awaited = TRUE

Goes(from, to) == status \in from /\ status' = to

PowerOn ==
  /\ Goes({"new"}, "starting")
  /\ machine' = 1
  /\ UNCHANGED <<session, ran, held>>

Started ==
  /\ Goes({"starting"}, "ready")
  /\ machine # 0
  /\ session' = machine
  /\ UNCHANGED <<machine, ran, held>>

\* start that raises and close leave nothing behind.
Release(from) ==
  /\ Goes(from, "gone")
  /\ machine' = 0
  /\ held' = FALSE
  /\ UNCHANGED <<session, ran>>

NotStarted == Release({"starting"})
Close == Release({"ready", "failed"})

Abandon ==
  /\ Abandons
  /\ Goes({"new", "starting"}, "abandoned")
  /\ UNCHANGED <<machine, session, ran, held>>

Call ==
  /\ \E method \in {"running", "rebooting"} : Goes({"ready"}, method)
  /\ ran' = FALSE
  /\ UNCHANGED <<machine, session, held>>

\* At most once per call, in the boot of the test.
RunCommand ==
  /\ status \in {"running", "rebooting"}
  /\ machine = session
  /\ ~ran
  /\ ran' = TRUE
  /\ UNCHANGED <<machine, session, status, held>>

RunReturns ==
  /\ Goes({"running"}, "ready")
  /\ UNCHANGED <<machine, session, ran, held>>

Fail ==
  /\ Goes({"running", "rebooting"}, "failed")
  /\ UNCHANGED <<machine, session, ran, held>>

\* Also after the call has failed, when its time was up.
Restart ==
  /\ status \in {"rebooting", "failed"}
  /\ ran
  /\ machine = session
  /\ machine' = machine + 1
  /\ UNCHANGED <<session, status, ran, held>>

RebootReturns ==
  /\ Goes({"rebooting"}, "ready")
  /\ ran
  /\ machine > session
  /\ session' = machine
  /\ UNCHANGED <<machine, ran, held>>

\* The command failed: the test goes on in the boot that it was in.
RebootRefused ==
  /\ Goes({"rebooting"}, "ready")
  /\ ran
  /\ machine = session
  /\ UNCHANGED <<machine, session, ran, held>>

PowerOff ==
  /\ machine # 0
  /\ machine' = 0
  /\ UNCHANGED <<session, status, ran, held>>

Next ==
  \/ PowerOn \/ Started \/ NotStarted \/ Abandon \/ Close
  \/ Call \/ RunCommand \/ RunReturns \/ Fail
  \/ Restart \/ RebootReturns \/ RebootRefused
  \/ PowerOff

\* Nothing is promised any more once the machine rebooted without a wait.
Spec == Init /\ [][awaited' => awaited /\ Next]_remoteVars
=============================================================================
