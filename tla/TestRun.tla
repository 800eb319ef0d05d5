-------------------------------- MODULE TestRun --------------------------------
(***************************************************************************)
(* Runs of a project's tests: pytest-xdist workers take tests, prepare the *)
(* SSH key in the session fixtures of pytest_plugin.py, and send a report  *)
(* of each phase to the controller, which writes the job summary.  Workers *)
(* crash and are replaced, and a run can be interrupted.                   *)
(***************************************************************************)
EXTENDS Naturals, SshKey, SummaryReport

CONSTANTS
  Extended,       \* tests marked `extended'
  MaxRuns,        \* bound on the runs of the project
  MaxFaults,      \* bound on crashes of workers and failing writes of the key
  Interrupts,     \* can a run be interrupted?
  Raises,         \* how the phases of each test may end if they do not pass
  NoTest

ASSUME RunAssumption ==
  /\ Processes = Workers \cup {Controller}
  /\ Controller \notin Workers
  /\ Extended \subseteq Tests
  /\ Interrupts \in BOOLEAN
  /\ MaxRuns \in Nat \ {0}
  /\ MaxFaults \in Nat
  /\ NoTest \notin Tests
  /\ Raises \in [Tests -> SUBSET {"failed", "skipped", "xfailed"}]
  /\ \A t \in Tests : "failed" \in Raises[t]

VARIABLES
  run,       \* number of the current run
  extended,  \* is RUGIX_TESTS_EXTENDED set in it?
  session,   \* is it running, finished or interrupted?
  faults,    \* number of crashes and failed writes
  left,      \* tests that no worker has taken
  test,      \* the test that each worker runs
  phase,     \* and its phase
  fixtures   \* the session fixtures of the worker that are set up

runVars == <<run, extended, session, faults, left, test, phase, fixtures>>
vars == <<runVars, keyVars, reportVars>>

Init ==
  /\ KeyInit
  /\ ReportInit
  /\ run = 1
  /\ extended \in BOOLEAN
  /\ session = "running"
  /\ faults = 0
  /\ left = Tests
  /\ test = [w \in Workers |-> NoTest]
  /\ phase = [w \in Workers |-> "none"]
  /\ fixtures = [w \in Workers |-> "none"]

In(w, p) == session = "running" /\ phase[w] = p

\* How pytest reports the end of a phase.
Verdict ==
  [passed  |-> [outcome |-> "passed", wasxfail |-> FALSE],
   failed  |-> [outcome |-> "failed", wasxfail |-> FALSE],
   skipped |-> [outcome |-> "skipped", wasxfail |-> FALSE],
   xfailed |-> [outcome |-> "skipped", wasxfail |-> TRUE],
   xpassed |-> [outcome |-> "passed", wasxfail |-> TRUE]]

\* The controller is given the reports of a worker in their order.  Those on
\* their way when a run is interrupted are lost, as if the phase had not ended.
Send(w, when, v) ==
  LogReport(test[w], [when |-> when, outcome |-> Verdict[v].outcome,
                      wasxfail |-> Verdict[v].wasxfail])

EndPhase(w, v, next) ==
  /\ Send(w, phase[w], v)
  /\ phase' = [phase EXCEPT ![w] = next]

-----------------------------------------------------------------------------
TakeTest(w) ==
  /\ In(w, "none")
  /\ \E t \in left :
       /\ left' = left \ {t}
       /\ test' = [test EXCEPT ![w] = t]
  /\ phase' = [phase EXCEPT ![w] = "setup"]
  /\ UNCHANGED <<run, extended, session, faults, fixtures, keyVars, reportVars>>

\* pytest_collection_modifyitems has marked the test to be skipped.
Skipped(w) == test[w] \in Extended /\ ~extended

SkipTest(w) ==
  /\ In(w, "setup")
  /\ Skipped(w)
  /\ EndPhase(w, "skipped", "teardown")
  /\ UNCHANGED <<run, extended, session, faults, left, test, fixtures, keyVars>>

\* The ssh_key fixture and then the bakery fixture call ensure_ssh_key.
UseKey(w) ==
  /\ In(w, "setup")
  /\ ~Skipped(w)
  /\ fixtures[w] \in {"none", "ssh_key"}
  /\ Ensure(w)
  /\ UNCHANGED <<runVars, reportVars>>

InKey(w) == KeyStep(w) /\ UNCHANGED <<runVars, reportVars>>

KeyReturns(w) ==
  /\ ReadPublic(w)
  /\ fixtures' = [fixtures EXCEPT ![w] =
                    IF @ = "none" THEN "ssh_key" ELSE "bakery"]
  /\ UNCHANGED <<run, extended, session, faults, left, test, phase, reportVars>>

\* The exception of a session fixture is kept for all later tests.
KeyFails(w) ==
  /\ faults < MaxFaults
  /\ faults' = faults + 1
  /\ Fail(w)
  /\ fixtures' = [fixtures EXCEPT ![w] = "error"]
  /\ UNCHANGED <<run, extended, session, left, test, phase, reportVars>>

\* The vm fixture logs in to a VM that authorizes the public key of the worker.
LoginFails(w) == fixtures[w] = "error" \/ got[w] # private

EndSetup(w) ==
  /\ In(w, "setup")
  /\ ~Skipped(w)
  /\ fixtures[w] \in {"bakery", "error"}
  /\ \/ ~LoginFails(w) /\ EndPhase(w, "passed", "call")
     \/ \E v \in Raises[test[w]] : EndPhase(w, v, "teardown")
  /\ UNCHANGED <<run, extended, session, faults, left, test, fixtures, keyVars>>

EndCall(w) ==
  /\ In(w, "call")
  /\ \E v \in Raises[test[w]] \cup {"passed", "xpassed"} :
       /\ v = "xpassed" => "xfailed" \in Raises[test[w]]
       /\ EndPhase(w, v, "teardown")
  /\ UNCHANGED <<run, extended, session, faults, left, test, fixtures, keyVars>>

EndTeardown(w) ==
  /\ In(w, "teardown")
  /\ \E v \in Raises[test[w]] \cup {"passed"} : EndPhase(w, v, "none")
  /\ test' = [test EXCEPT ![w] = NoTest]
  /\ UNCHANGED <<run, extended, session, faults, left, fixtures, keyVars>>

\* pytest-xdist reports the crash of a worker for the test that it was running,
\* and starts another worker.
Crash(w) ==
  /\ session = "running"
  /\ test[w] # NoTest
  /\ faults < MaxFaults
  /\ faults' = faults + 1
  /\ Exit({w})
  /\ Send(w, "crash", "failed")
  /\ test' = [test EXCEPT ![w] = NoTest]
  /\ phase' = [phase EXCEPT ![w] = "none"]
  /\ fixtures' = [fixtures EXCEPT ![w] = "none"]
  /\ UNCHANGED <<run, extended, session, left>>

Finish(how) ==
  /\ session = "running"
  /\ session' = how
  /\ SessionFinish
  /\ UNCHANGED <<run, extended, faults, left, test, phase, fixtures, keyVars>>

FinishAll ==
  /\ left = {}
  /\ \A w \in Workers : test[w] = NoTest
  /\ Finish("finished")

\* Ctrl-C or the end of a job on GitHub: the controller still writes its report.
Interrupt == Interrupts /\ Finish("interrupted")

\* The processes of the last run have ended; its files are still there.
NextRun ==
  /\ session # "running"
  /\ run < MaxRuns
  /\ run' = run + 1
  /\ extended' \in BOOLEAN
  /\ session' = "running"
  /\ left' = Tests
  /\ test' = [w \in Workers |-> NoTest]
  /\ phase' = [w \in Workers |-> "none"]
  /\ fixtures' = [w \in Workers |-> "none"]
  /\ Exit(Workers)
  /\ NewReporter
  /\ UNCHANGED faults

RunTest(w) ==
  \/ TakeTest(w) \/ SkipTest(w)
  \/ UseKey(w) \/ InKey(w) \/ KeyReturns(w)
  \/ EndSetup(w) \/ EndCall(w) \/ EndTeardown(w)

Next ==
  \/ \E w \in Workers : RunTest(w) \/ KeyFails(w) \/ Crash(w)
  \/ FinishAll \/ Interrupt \/ NextRun

\* Workers and the controller go on; nobody has to crash or to interrupt.
Fairness ==
  /\ \A w \in Workers : WF_vars(RunTest(w))
  /\ WF_vars(FinishAll)

Spec == Init /\ [][Next]_vars
FairSpec == Spec /\ Fairness

-----------------------------------------------------------------------------
TypeOK ==
  /\ KeyTypeOK /\ ReportTypeOK
  /\ run \in 1..MaxRuns
  /\ extended \in BOOLEAN
  /\ session \in {"running", "finished", "interrupted"}
  /\ faults \in 0..MaxFaults
  /\ left \subseteq Tests
  /\ test \in [Workers -> Tests \cup {NoTest}]
  /\ phase \in [Workers -> {"none", "setup", "call", "teardown"}]
  /\ fixtures \in [Workers -> {"none", "ssh_key", "bakery", "error"}]

\* README "the plugin appends a test report": one per run, not one per process.
OneSection == summary = IF session = "running" THEN run - 1 ELSE run

\* README "The report lists each test with its outcome": of a run that was not
\* interrupted, every test is listed, and as passed only if it went through all
\* of its phases, no phase failed and no worker crashed in it.  (A test during
\* which a run is interrupted is listed as passed after its setup.)
PassedIsComplete ==
  session = "finished" =>
    \A t \in Tests :
      /\ t \in DOMAIN Render
      /\ Render[t].outcome = "passed" =>
           /\ [i \in DOMAIN reported[t] |-> reported[t][i].when] =
                <<"setup", "call", "teardown">>
           /\ \A i \in 1..3 : reported[t][i].outcome = "passed"

\* No test is lost and no worker waits for ever: whatever crashes or fails, a
\* run ends.
RunEnds == (session = "running") ~> (session # "running")
=============================================================================
