----------------------------- MODULE TestRunProofs -----------------------------
(***************************************************************************)
(* Proofs about TestRun for every number of workers, tests, runs and       *)
(* faults.  A run of tests is a behaviour of SshKey and of SummaryReport,  *)
(* whose theorems carry over; its own invariant follows each test from the *)
(* list of tests to its last report.                                       *)
(***************************************************************************)
EXTENDS TestRun, SshKeyProofs, SummaryReportProofs

LEMMA Bounds ==
  /\ MaxRuns \in Nat \ {0}
  /\ MaxFaults \in Nat
  BY RunAssumption, Zenon

LEMMA Names ==
  /\ NoTest \notin Tests
  /\ Controller \notin Workers
  /\ Raises \in [Tests -> SUBSET {"failed", "skipped", "xfailed"}]
  BY RunAssumption, Zenon

Phases == {"setup", "call", "teardown"}
Verdicts == {"passed", "failed", "skipped", "xfailed", "xpassed"}

RunTypes ==
  /\ run \in 1..MaxRuns
  /\ extended \in BOOLEAN
  /\ session \in {"running", "finished", "interrupted"}
  /\ faults \in 0..MaxFaults
  /\ left \subseteq Tests
  /\ test \in [Workers -> Tests \cup {NoTest}]
  /\ phase \in [Workers -> {"none"} \cup Phases]
  /\ fixtures \in [Workers -> {"none", "ssh_key", "bakery", "error"}]
  /\ \A w \in Workers : phase[w] = "none" <=> test[w] = NoTest

LEMMA RunTypesInitially == Init => RunTypes
  BY Bounds DEF Init, RunTypes

LEMMA RunTypesPreserved ==
  ASSUME RunTypes, [Next]_vars
  PROVE  RunTypes'
<1> USE Bounds, Names DEF RunTypes, Phases
<1>1. ASSUME NEW w \in Workers, TakeTest(w)
      PROVE  RunTypes'
  BY <1>1 DEF TakeTest, In
<1>2. ASSUME NEW w \in Workers, SkipTest(w)
      PROVE  RunTypes'
  BY <1>2 DEF SkipTest, EndPhase, In
<1>3. ASSUME NEW w \in Workers, UseKey(w) \/ InKey(w)
      PROVE  RunTypes'
  BY <1>3 DEF UseKey, InKey, runVars
<1>4. ASSUME NEW w \in Workers, KeyReturns(w)
      PROVE  RunTypes'
  BY <1>4 DEF KeyReturns
<1>5. ASSUME NEW w \in Workers, KeyFails(w)
      PROVE  RunTypes'
  BY <1>5 DEF KeyFails
<1>6. ASSUME NEW w \in Workers, EndSetup(w)
      PROVE  RunTypes'
  <2>1. /\ phase[w] = "setup"
        /\ \E p \in {"call", "teardown"} : phase' = [phase EXCEPT ![w] = p]
        /\ UNCHANGED <<run, extended, session, faults, left, test, fixtures>>
    BY <1>6, Zenon DEF EndSetup, EndPhase, In
  <2>2. QED
    BY <2>1
<1>7. ASSUME NEW w \in Workers, EndCall(w)
      PROVE  RunTypes'
  <2>1. /\ phase[w] = "call"
        /\ phase' = [phase EXCEPT ![w] = "teardown"]
        /\ UNCHANGED <<run, extended, session, faults, left, test, fixtures>>
    BY <1>7, Zenon DEF EndCall, EndPhase, In
  <2>2. QED
    BY <2>1
<1>8. ASSUME NEW w \in Workers, EndTeardown(w)
      PROVE  RunTypes'
  <2>1. /\ phase[w] = "teardown"
        /\ phase' = [phase EXCEPT ![w] = "none"]
        /\ test' = [test EXCEPT ![w] = NoTest]
        /\ UNCHANGED <<run, extended, session, faults, left, fixtures>>
    BY <1>8, Zenon DEF EndTeardown, EndPhase, In
  <2>2. QED
    BY <2>1
<1>9. ASSUME NEW w \in Workers, Crash(w)
      PROVE  RunTypes'
  BY <1>9 DEF Crash
<1>10. ASSUME NEW how \in {"finished", "interrupted"}, Finish(how)
       PROVE  RunTypes'
  BY <1>10 DEF Finish
<1>11. CASE NextRun
  BY <1>11 DEF NextRun
<1>12. CASE UNCHANGED vars
  BY <1>12 DEF vars, runVars
<1>13. QED
  BY <1>1, <1>2, <1>3, <1>4, <1>5, <1>6, <1>7, <1>8, <1>9, <1>10, <1>11,
     <1>12 DEF Next, RunTest, FinishAll, Interrupt

LEMMA RunTypesInvariant == Spec => []RunTypes
  BY RunTypesInitially, RunTypesPreserved, PTL DEF Spec

-----------------------------------------------------------------------------
(***************************************************************************)
(* What a step of a run is to the key and to the report.                   *)
(***************************************************************************)

LEMMA KeyOfStep == [Next]_vars => [KeyNext]_keyVars
<1> SUFFICES ASSUME [Next]_vars PROVE KeyNext \/ UNCHANGED keyVars
  OBVIOUS
<1>1. ASSUME NEW w \in Workers,
             TakeTest(w) \/ SkipTest(w) \/ EndSetup(w) \/ EndCall(w)
               \/ EndTeardown(w)
      PROVE  UNCHANGED keyVars
  BY <1>1, Zenon DEF TakeTest, SkipTest, EndSetup, EndCall, EndTeardown
<1>2. ASSUME NEW w \in Workers,
             UseKey(w) \/ InKey(w) \/ KeyReturns(w) \/ KeyFails(w)
      PROVE  KeyNext
  BY <1>2, Zenon DEF UseKey, InKey, KeyReturns, KeyFails, KeyNext
<1>3. ASSUME NEW w \in Workers, Crash(w)
      PROVE  KeyNext
  <2>1. {w} \in SUBSET Workers /\ Exit({w})
    BY <1>3 DEF Crash
  <2>2. QED
    BY <2>1, Zenon DEF KeyNext
<1>4. ASSUME NEW how, Finish(how)
      PROVE  UNCHANGED keyVars
  BY <1>4, Zenon DEF Finish
<1>5. CASE NextRun
  <2>1. Workers \in SUBSET Workers /\ Exit(Workers)
    BY <1>5 DEF NextRun
  <2>2. QED
    BY <2>1, Zenon DEF KeyNext
<1>6. CASE UNCHANGED vars
  BY <1>6 DEF vars
<1>7. QED
  BY <1>1, <1>2, <1>3, <1>4, <1>5, <1>6
     DEF Next, RunTest, FinishAll, Interrupt

LEMMA VerdictReports ==
  ASSUME NEW v \in Verdicts, NEW p \in Phases \cup {"crash"}
  PROVE  [when |-> p, outcome |-> Verdict[v].outcome,
          wasxfail |-> Verdict[v].wasxfail] \in Reports
<1>1. /\ Verdict[v].outcome \in {"passed", "failed", "skipped"}
      /\ Verdict[v].wasxfail \in BOOLEAN
  <2>1. CASE v = "passed"
    BY <2>1 DEF Verdict
  <2>2. CASE v = "failed"
    BY <2>2 DEF Verdict
  <2>3. CASE v = "skipped"
    BY <2>3 DEF Verdict
  <2>4. CASE v = "xfailed"
    BY <2>4 DEF Verdict
  <2>5. CASE v = "xpassed"
    BY <2>5 DEF Verdict
  <2>6. QED
    BY <2>1, <2>2, <2>3, <2>4, <2>5 DEF Verdicts
<1>2. QED
  BY <1>1 DEF Phases, Reports

\* The end of a phase with the verdict v, and what becomes of its worker.
Ended(w, v, next) ==
  /\ phase[w] \in Phases
  /\ test[w] \in Tests
  /\ EndPhase(w, v, next)

\* The steps that send a report.
LEMMA EndOfPhase ==
  ASSUME RunTypes, NEW w \in Workers,
         SkipTest(w) \/ EndSetup(w) \/ EndCall(w) \/ EndTeardown(w)
  PROVE  \E v \in Verdicts, next \in {"none"} \cup Phases : Ended(w, v, next)
<1>1. phase[w] \in Phases
  BY DEF SkipTest, EndSetup, EndCall, EndTeardown, In, Phases
<1>2. test[w] \in Tests
  BY <1>1 DEF RunTypes, Phases
<1>3. Raises[test[w]] \subseteq Verdicts
  BY <1>2, Names DEF Verdicts
<1>4. \E v \in Verdicts, next \in {"none"} \cup Phases : EndPhase(w, v, next)
  <2>1. {"passed", "xpassed", "skipped"} \subseteq Verdicts
    BY DEF Verdicts
  <2>2. {"call", "teardown"} \subseteq Phases
    BY DEF Phases
  <2>3. CASE SkipTest(w)
    BY <2>1, <2>2, <2>3 DEF SkipTest
  <2>4. CASE EndSetup(w)
    BY <1>3, <2>1, <2>2, <2>4 DEF EndSetup
  <2>5. CASE EndCall(w)
    BY <1>3, <2>1, <2>2, <2>5 DEF EndCall
  <2>6. CASE EndTeardown(w)
    BY <1>3, <2>1, <2>2, <2>6 DEF EndTeardown
  <2>7. QED
    BY <2>3, <2>4, <2>5, <2>6
<1>5. QED
  BY <1>1, <1>2, <1>4 DEF Ended

LEMMA ReportOfStep ==
  ASSUME RunTypes, [Next]_vars
  PROVE  [ReportNext]_reportVars
<1>1. ASSUME NEW w \in Workers, NEW p \in Phases \cup {"crash"},
             NEW v \in Verdicts, test[w] \in Tests, Send(w, p, v)
      PROVE  ReportNext
  BY <1>1, VerdictReports, Zenon DEF Send, ReportNext
<1>2. ASSUME NEW w \in Workers,
             SkipTest(w) \/ EndSetup(w) \/ EndCall(w) \/ EndTeardown(w)
      PROVE  ReportNext
  <2>1. PICK v \in Verdicts, next \in {"none"} \cup Phases : Ended(w, v, next)
    BY <1>2, EndOfPhase
  <2>2. QED
    BY <1>1, <2>1 DEF Ended, EndPhase
<1>3. ASSUME NEW w \in Workers, Crash(w)
      PROVE  ReportNext
  <2>1. test[w] \in Tests /\ Send(w, "crash", "failed")
    BY <1>3 DEF Crash, RunTypes
  <2>2. QED
    BY <1>1, <2>1 DEF Verdicts
<1>4. ASSUME NEW w \in Workers,
             TakeTest(w) \/ UseKey(w) \/ InKey(w) \/ KeyReturns(w)
               \/ KeyFails(w)
      PROVE  UNCHANGED reportVars
  BY <1>4, Zenon DEF TakeTest, UseKey, InKey, KeyReturns, KeyFails
<1>5. ASSUME NEW how, Finish(how)
      PROVE  ReportNext
  BY <1>5, Zenon DEF Finish, ReportNext
<1>6. CASE NextRun
  BY <1>6, Zenon DEF NextRun, ReportNext
<1>7. CASE UNCHANGED vars
  BY <1>7 DEF vars
<1>8. QED
  BY <1>2, <1>3, <1>4, <1>5, <1>6, <1>7
     DEF Next, RunTest, FinishAll, Interrupt

\* A run of tests is a behaviour of the key and of the report.
THEOREM KeyInRuns == Spec => KeySpec
<1>1. Init => KeyInit
  BY DEF Init
<1>2. QED
  BY <1>1, KeyOfStep, PTL DEF Spec, KeySpec

THEOREM ReportInRuns == Spec => ReportSpec
<1>1. Init => ReportInit
  BY DEF Init
<1>2. RunTypes /\ [Next]_vars => [ReportNext]_reportVars
  BY ReportOfStep
<1>3. QED
  BY <1>1, <1>2, RunTypesInvariant, PTL DEF Spec, ReportSpec

\* The variables of a run, its key and its report keep their types.
THEOREM TypeCorrect == Spec => []TypeOK
<1>1. RunTypes /\ KeyTypeOK /\ ReportTypeOK => TypeOK
  BY Zenon DEF RunTypes, TypeOK, Phases
<1>2. QED
  BY <1>1, RunTypesInvariant, KeyInRuns, KeyTypeCorrect, ReportInRuns,
     ReportTypeCorrect, PTL

\* In every run of a project, the authorized key fits the private key ...
THEOREM FitsInRuns == Spec => []AuthorizedFits
  BY KeyInRuns, Fits, PTL

\* ... a published pair stays ...
THEOREM KeptInRuns == Spec => KeyIsKept
  BY KeyInRuns, Kept, PTL

\* ... which is the only one that anybody is ever served ...
THEOREM ImplementsInRuns == Spec => ImplementsKeyStore
  BY KeyInRuns, Implements, PTL

\* ... and failures are shown.
THEOREM ShownInRuns == Spec => []FailuresShown
  BY ReportInRuns, Shown, PTL

\* A test is listed with the outcome of its last decisive phase.
THEOREM DecidedInRuns == Spec => []OutcomeFollows
  BY ReportInRuns, Decided, PTL

-----------------------------------------------------------------------------
(***************************************************************************)
(* One section in the summary for each run that has ended.                 *)
(***************************************************************************)

LEMMA OneReporter == Cardinality({p \in Processes : Registered(p)}) = 1
<1>1. {p \in Processes : Registered(p)} = {Controller}
  BY ReportAssumption DEF Registered
<1>2. QED
  BY <1>1, FS_Singleton

LEMMA SectionStep ==
  ASSUME RunTypes, OneSection, [Next]_vars
  PROVE  OneSection'
<1> USE Bounds DEF RunTypes, OneSection
<1>1. ASSUME NEW how \in {"finished", "interrupted"}, Finish(how)
      PROVE  OneSection'
  BY <1>1, OneReporter DEF Finish, SessionFinish
<1>2. CASE NextRun
  BY <1>2 DEF NextRun, NewReporter
<1>3. ASSUME NEW w \in Workers, RunTest(w) \/ KeyFails(w) \/ Crash(w)
      PROVE  UNCHANGED <<run, session, summary>>
  <2>1. CASE Crash(w)
    BY <2>1, Zenon DEF Crash, Send, LogReport
  <2>2. CASE KeyFails(w)
    BY <2>2, Zenon DEF KeyFails, reportVars
  <2>3. CASE TakeTest(w) \/ KeyReturns(w)
    BY <2>3, Zenon DEF TakeTest, KeyReturns, reportVars
  <2>4. CASE UseKey(w) \/ InKey(w)
    BY <2>4, Zenon DEF UseKey, InKey, runVars, reportVars
  <2>5. CASE SkipTest(w) \/ EndSetup(w) \/ EndCall(w) \/ EndTeardown(w)
    <3>1. UNCHANGED <<run, session>>
      BY <2>5, Zenon DEF SkipTest, EndSetup, EndCall, EndTeardown
    <3>2. UNCHANGED summary
      BY <2>5, EndOfPhase, Zenon DEF Ended, EndPhase, Send, LogReport
    <3>3. QED
      BY <3>1, <3>2
  <2>6. QED
    BY <1>3, <2>1, <2>2, <2>3, <2>4, <2>5 DEF RunTest
<1>4. CASE UNCHANGED vars
  BY <1>4 DEF vars, runVars, reportVars
<1>5. QED
  BY <1>1, <1>2, <1>3, <1>4 DEF Next, FinishAll, Interrupt

\* However many processes a run has, it appends one section when it ends.
THEOREM Sectioned == Spec => []OneSection
<1>1. Init => OneSection
  BY DEF Init, ReportInit, OneSection
<1>2. RunTypes /\ OneSection /\ [Next]_vars => OneSection'
  BY SectionStep
<1>3. QED
  BY <1>1, <1>2, RunTypesInvariant, PTL DEF Spec

-----------------------------------------------------------------------------
(***************************************************************************)
(* The way of a test: it is in the list, then with one worker, which sends *)
(* the reports of its phases, then it is over.                             *)
(***************************************************************************)

Order == <<"setup", "call", "teardown">>

\* Nothing but the first n phases of the test was reported, and they passed.
PassedUpTo(t, n) ==
  /\ Len(reported[t]) = n
  /\ \A i \in 1..n :
       reported[t][i].when = Order[i] /\ reported[t][i].outcome = "passed"

\* The test has a result, and one that is passed has passed n phases.
ReportedUpTo(t, n) ==
  /\ results[t] # NoResult
  /\ results[t].outcome = "passed" => PassedUpTo(t, n)

Runs(w, t) == test[w] = t

WayPart ==
  \A t \in Tests :
    /\ t \in left => reported[t] = <<>> /\ \A w \in Workers : ~Runs(w, t)
    /\ \A v, w \in Workers : Runs(v, t) /\ Runs(w, t) => v = w
    /\ \A w \in Workers : Runs(w, t) =>
         /\ phase[w] = "setup" => reported[t] = <<>>
         /\ phase[w] = "call" => ReportedUpTo(t, 1)
         /\ phase[w] = "teardown" => ReportedUpTo(t, 2)
    /\ t \notin left /\ (\A w \in Workers : ~Runs(w, t)) => ReportedUpTo(t, 3)

DonePart ==
  session = "finished" => left = {} /\ \A w \in Workers : test[w] = NoTest

WayInv == RunTypes /\ ReportInv /\ WayPart /\ DonePart

LEMMA MergePasses ==
  ASSUME NEW res \in Results, NEW r \in Reports,
         Merge(res, r).outcome = "passed"
  PROVE  res.outcome = "passed" /\ r.outcome = "passed" /\ ~r.wasxfail
<1>1. r.outcome \in {"passed", "failed", "skipped"}
  BY DEF Reports
<1>2. res \in [outcome: Outcomes \cup {"none"}, details: Seq(Reports)]
  BY DEF Results
<1>3. CASE r.wasxfail
  <2>1. PICK o \in {"xfailed", "xpassed"} :
          Merge(res, r) = [res EXCEPT !.outcome = o]
    BY <1>3 DEF Merge
  <2>2. QED
    BY <1>2, <2>1
<1>4. CASE ~r.wasxfail /\ r.outcome = "failed"
  BY <1>4 DEF Merge
<1>5. CASE ~r.wasxfail /\ r.outcome = "skipped" /\ res.outcome = "passed"
  <2>1. Merge(res, r) = [res EXCEPT !.outcome = "skipped"]
    BY <1>5 DEF Merge
  <2>2. QED
    BY <1>2, <2>1
<1>6. CASE ~r.wasxfail /\ r.outcome = "skipped" /\ res.outcome # "passed"
  BY <1>6 DEF Merge
<1>7. CASE ~r.wasxfail /\ r.outcome = "passed"
  BY <1>7 DEF Merge
<1>8. QED
  BY <1>1, <1>3, <1>4, <1>5, <1>6, <1>7

\* A report changes the result of one test, which is passed only if it was and
\* the report is.
LEMMA Reporting ==
  ASSUME ReportInv, NEW t \in Tests, NEW r \in Reports, LogReport(t, r)
  PROVE  /\ results'[t] # NoResult
         /\ reported'[t] = Append(reported[t], r)
         /\ \A u \in Tests : u # t =>
              results'[u] = results[u] /\ reported'[u] = reported[u]
         /\ results'[t].outcome = "passed" =>
              /\ r.outcome = "passed" /\ ~r.wasxfail
              /\ results[t] # NoResult => results[t].outcome = "passed"
<1> DEFINE old == IF results[t] = NoResult THEN NewResult ELSE results[t]
<1>1. old \in Results /\ old.outcome # "none"
  BY NewResultType DEF ReportInv, ReportTypeOK
<1>2. /\ results'[t] = Merge(old, r)
      /\ reported'[t] = Append(reported[t], r)
      /\ \A u \in Tests : u # t =>
           results'[u] = results[u] /\ reported'[u] = reported[u]
  BY DEF LogReport, ReportInv, ReportTypeOK
<1>3. Merge(old, r).outcome # "none"
  BY <1>1, MergeType
<1>4. Merge(old, r).outcome = "passed" =>
        old.outcome = "passed" /\ r.outcome = "passed" /\ ~r.wasxfail
  BY <1>1, MergePasses
<1>5. QED
  BY <1>2, <1>3, <1>4, NewResultType

\* A test goes one phase further.
LEMMA NextPhase ==
  ASSUME ReportInv, NEW t \in Tests, NEW r \in Reports, LogReport(t, r),
         NEW n \in 0..2, r.when = Order[n + 1],
         IF n = 0 THEN reported[t] = <<>> ELSE ReportedUpTo(t, n)
  PROVE  ReportedUpTo(t, n + 1)'
<1>1. results'[t] # NoResult
  BY Reporting
<1>2. ASSUME results'[t].outcome = "passed"
      PROVE  PassedUpTo(t, n + 1)'
  <2>1. /\ r.outcome = "passed"
        /\ results[t] # NoResult => results[t].outcome = "passed"
        /\ reported'[t] = Append(reported[t], r)
    BY <1>2, Reporting
  <2>2. PassedUpTo(t, n)
    BY <2>1, EmptySeq DEF ReportedUpTo, PassedUpTo
  <2>3. reported[t] \in Seq(Reports) /\ Len(reported[t]) = n
    BY <2>2 DEF ReportInv, ReportTypeOK, PassedUpTo
  <2>4. /\ Len(reported'[t]) = n + 1
        /\ \A i \in 1..n : reported'[t][i] = reported[t][i]
        /\ reported'[t][n + 1] = r
    BY <2>1, <2>3, AppendProperties
  <2>5. QED
    BY <2>1, <2>2, <2>4 DEF PassedUpTo
<1>3. QED
  BY <1>1, <1>2 DEF ReportedUpTo

\* A report that is not a pass decides.
LEMMA NotPassed ==
  ASSUME ReportInv, NEW t \in Tests, NEW r \in Reports, LogReport(t, r),
         r.outcome # "passed" \/ r.wasxfail, NEW n
  PROVE  ReportedUpTo(t, n)'
  BY Reporting DEF ReportedUpTo

\* The worker of a test has sent a report of it.
LEMMA WaySent ==
  ASSUME WayInv, NEW w \in Workers, NEW t \in Tests, NEW r \in Reports,
         Runs(w, t), LogReport(t, r), left' = left,
         \/ /\ test' = test
            /\ \/ /\ phase' = [phase EXCEPT ![w] = "call"]
                  /\ ReportedUpTo(t, 1)'
               \/ /\ phase' = [phase EXCEPT ![w] = "teardown"]
                  /\ ReportedUpTo(t, 2)'
         \/ /\ test' = [test EXCEPT ![w] = NoTest]
            /\ phase' = [phase EXCEPT ![w] = "none"]
            /\ ReportedUpTo(t, 3)'
  PROVE  WayPart'
<1>1. \A u \in Tests : u # t =>
        results'[u] = results[u] /\ reported'[u] = reported[u]
  BY Reporting DEF WayInv
<1>2. t \notin left /\ \A v \in Workers : Runs(v, t) => v = w
  BY DEF WayInv, WayPart
<1>3. /\ test \in [Workers -> Tests \cup {NoTest}]
      /\ phase \in [Workers -> {"none"} \cup Phases]
      /\ NoTest \notin Tests
  BY Names DEF WayInv, RunTypes
<1>4. \A v \in Workers : v # w => test'[v] = test[v] /\ phase'[v] = phase[v]
  BY <1>3
<1>5. \/ /\ Runs(w, t)'
         /\ \/ phase'[w] = "call" /\ ReportedUpTo(t, 1)'
            \/ phase'[w] = "teardown" /\ ReportedUpTo(t, 2)'
      \/ /\ test'[w] = NoTest
         /\ ReportedUpTo(t, 3)'
  BY <1>3 DEF Runs
<1> SUFFICES ASSUME NEW u \in Tests
             PROVE  /\ u \in left' =>
                         /\ reported'[u] = <<>>
                         /\ \A x \in Workers : ~Runs(x, u)'
                    /\ \A v, x \in Workers : (Runs(v, u) /\ Runs(x, u))' => v = x
                    /\ \A x \in Workers : Runs(x, u)' =>
                         /\ phase'[x] = "setup" => reported'[u] = <<>>
                         /\ phase'[x] = "call" => ReportedUpTo(u, 1)'
                         /\ phase'[x] = "teardown" => ReportedUpTo(u, 2)'
                    /\ u \notin left' /\ (\A x \in Workers : ~Runs(x, u)')
                         => ReportedUpTo(u, 3)'
  BY Zenon DEF WayPart
<1>6. CASE u = t
  BY <1>2, <1>3, <1>4, <1>5, <1>6 DEF Runs
<1>7. CASE u # t
  <2>1. \A x \in Workers : Runs(x, u)' => x # w /\ Runs(x, u)
    BY <1>3, <1>4, <1>5, <1>7 DEF Runs
  <2>2. \A x \in Workers : Runs(x, u) => x # w /\ Runs(x, u)'
    BY <1>3, <1>4, <1>7 DEF Runs
  <2>3. \A n : ReportedUpTo(u, n)' <=> ReportedUpTo(u, n)
    BY <1>1, <1>7 DEF ReportedUpTo, PassedUpTo
  <2>4. reported'[u] = reported[u]
    BY <1>1, <1>7
  <2>5. QED
    BY <1>4, <2>1, <2>2, <2>3, <2>4 DEF WayInv, WayPart
<1>8. QED
  BY <1>6, <1>7

Sent(p, v) == [when |-> p, outcome |-> Verdict[v].outcome,
               wasxfail |-> Verdict[v].wasxfail]

LEMMA SentReport ==
  ASSUME NEW v \in Verdicts, NEW p \in Phases \cup {"crash"}
  PROVE  /\ Sent(p, v) \in Reports
         /\ Sent(p, v).when = p
         /\ v \in {"failed", "skipped", "xfailed"} =>
              Sent(p, v).outcome # "passed" \/ Sent(p, v).wasxfail
<1>1. Sent(p, v) \in Reports
  BY VerdictReports DEF Sent
<1>2. Sent(p, v).when = p /\ Sent(p, v).outcome = Verdict[v].outcome
  BY DEF Sent
<1>3. v \in {"failed", "skipped", "xfailed"} => Verdict[v].outcome # "passed"
  BY DEF Verdict
<1>4. QED
  BY <1>1, <1>2, <1>3

LEMMA WayOfTest ==
  ASSUME WayInv, NEW w \in Workers, RunTest(w) \/ KeyFails(w) \/ Crash(w)
  PROVE  WayPart'
<1> USE DEF WayInv
<1>1. CASE TakeTest(w)
  <2>1. PICK t \in left : /\ left' = left \ {t}
                          /\ test' = [test EXCEPT ![w] = t]
    BY <1>1 DEF TakeTest
  <2>2. /\ test[w] = NoTest
        /\ phase' = [phase EXCEPT ![w] = "setup"]
        /\ UNCHANGED <<results, reported>>
    BY <1>1 DEF TakeTest, In, RunTypes, reportVars
  <2>3. \A u \in Tests, n \in 1..3 : ReportedUpTo(u, n)' <=> ReportedUpTo(u, n)
    BY <2>2 DEF ReportedUpTo, PassedUpTo
  <2>4. /\ test \in [Workers -> Tests \cup {NoTest}]
        /\ phase \in [Workers -> {"none"} \cup Phases]
        /\ t \in Tests /\ NoTest \notin Tests
    BY Names DEF RunTypes
  <2>5. \A v \in Workers, u \in Tests :
          Runs(v, u)' <=> IF v = w THEN u = t ELSE Runs(v, u)
    BY <2>1, <2>4 DEF Runs
  <2>6. /\ phase'[w] = "setup"
        /\ \A v \in Workers : v # w => phase'[v] = phase[v]
    BY <2>2, <2>4
  <2>7. \A v \in Workers, u \in Tests : Runs(v, u) => v # w
    BY <2>2, <2>4 DEF Runs
  <2>8. /\ \A v \in Workers : ~Runs(v, t)
        /\ reported[t] = <<>>
    BY <2>1, <2>4 DEF WayPart
  <2> SUFFICES
        ASSUME NEW u \in Tests
        PROVE  /\ u \in left' =>
                    /\ reported'[u] = <<>>
                    /\ \A x \in Workers : ~Runs(x, u)'
               /\ \A v, x \in Workers : (Runs(v, u) /\ Runs(x, u))' => v = x
               /\ \A x \in Workers : Runs(x, u)' =>
                    /\ phase'[x] = "setup" => reported'[u] = <<>>
                    /\ phase'[x] = "call" => ReportedUpTo(u, 1)'
                    /\ phase'[x] = "teardown" => ReportedUpTo(u, 2)'
               /\ u \notin left' /\ (\A x \in Workers : ~Runs(x, u)')
                    => ReportedUpTo(u, 3)'
    BY Zenon DEF WayPart
  <2>9. CASE u = t
    BY <2>1, <2>2, <2>5, <2>6, <2>8, <2>9
  <2>10. CASE u # t
    <3>1. \A x \in Workers : Runs(x, u)' <=> Runs(x, u)
      BY <2>5, <2>7, <2>10
    <3>2. u \in left' <=> u \in left
      BY <2>1, <2>10
    <3>3. reported'[u] = reported[u]
      BY <2>2
    <3>4. \A x \in Workers : Runs(x, u) => phase'[x] = phase[x]
      BY <2>6, <2>7
    <3>5. QED
      BY <2>3, <3>1, <3>2, <3>3, <3>4 DEF WayPart
  <2>11. QED
    BY <2>9, <2>10
<1>2. ASSUME NEW v \in Verdicts, phase[w] \in Phases, Send(w, phase[w], v),
             UNCHANGED left,
             \/ /\ UNCHANGED test
                /\ phase[w] = "setup"
                /\ v \in {"failed", "skipped", "xfailed"}
                /\ phase' = [phase EXCEPT ![w] = "teardown"]
             \/ /\ UNCHANGED test
                /\ phase[w] = "setup"
                /\ phase' = [phase EXCEPT ![w] = "call"]
             \/ /\ UNCHANGED test
                /\ phase[w] = "call"
                /\ phase' = [phase EXCEPT ![w] = "teardown"]
             \/ /\ phase[w] = "teardown"
                /\ test' = [test EXCEPT ![w] = NoTest]
                /\ phase' = [phase EXCEPT ![w] = "none"]
      PROVE  WayPart'
  <2>1. PICK t \in Tests : Runs(w, t)
    BY <1>2 DEF RunTypes, Phases, Runs
  <2> DEFINE r == Sent(phase[w], v)
  <2>2. /\ r \in Reports
        /\ r.when = phase[w]
        /\ v \in {"failed", "skipped", "xfailed"} =>
             r.outcome # "passed" \/ r.wasxfail
    BY <1>2, SentReport
  <2>3. LogReport(t, r)
    BY <1>2, <2>1 DEF Send, Sent, Runs
  <2>4. CASE phase[w] = "setup" /\ v \in {"failed", "skipped", "xfailed"}
    <3>1. ReportedUpTo(t, 1)' /\ ReportedUpTo(t, 2)'
      <4> HIDE DEF r
      <4>1. QED
        BY <2>2, <2>3, <2>4, NotPassed
    <3>2. QED
      <4> HIDE DEF r
      <4>1. QED
        BY <1>2, <2>1, <2>2, <2>3, <2>4, <3>1, WaySent
  <2>5. CASE phase[w] = "setup" /\ phase' = [phase EXCEPT ![w] = "call"]
    <3> HIDE DEF r
    <3>1. reported[t] = <<>>
      BY <2>1, <2>5 DEF WayPart
    <3>2. r.when = Order[0 + 1]
      BY <2>2, <2>5 DEF Order
    <3>3. ReportedUpTo(t, 0 + 1)'
      BY <2>2, <2>3, <3>1, <3>2, NextPhase
    <3>4. ReportedUpTo(t, 1)'
      BY <3>3
    <3>5. QED
      BY <1>2, <2>1, <2>2, <2>3, <2>5, <3>4, WaySent
  <2>6. CASE phase[w] = "call"
    <3> HIDE DEF r
    <3>1. ReportedUpTo(t, 1)
      BY <2>1, <2>6 DEF WayPart
    <3>2. r.when = Order[1 + 1]
      BY <2>2, <2>6 DEF Order
    <3>3. ReportedUpTo(t, 1 + 1)'
      BY <2>2, <2>3, <3>1, <3>2, NextPhase
    <3>4. ReportedUpTo(t, 2)'
      BY <3>3
    <3>5. QED
      BY <1>2, <2>1, <2>2, <2>3, <2>6, <3>4, WaySent
  <2>7. CASE phase[w] = "teardown"
    <3> HIDE DEF r
    <3>1. ReportedUpTo(t, 2)
      BY <2>1, <2>7 DEF WayPart
    <3>2. r.when = Order[2 + 1]
      BY <2>2, <2>7 DEF Order
    <3>3. ReportedUpTo(t, 2 + 1)'
      BY <2>2, <2>3, <3>1, <3>2, NextPhase
    <3>4. ReportedUpTo(t, 3)'
      BY <3>3
    <3>5. QED
      BY <1>2, <2>1, <2>2, <2>3, <2>7, <3>4, WaySent
  <2>8. QED
    BY <1>2, <2>4, <2>5, <2>6, <2>7
<1>3. CASE SkipTest(w)
  <2>1. /\ phase[w] = "setup" /\ UNCHANGED <<left, test>>
        /\ Send(w, phase[w], "skipped")
        /\ phase' = [phase EXCEPT ![w] = "teardown"]
    BY <1>3 DEF SkipTest, In, EndPhase
  <2>2. QED
    BY <1>2, <2>1 DEF Verdicts, Phases
<1>4. CASE EndSetup(w)
  <2>1. phase[w] = "setup" /\ UNCHANGED <<left, test>>
    BY <1>4 DEF EndSetup, In
  <2>2. CASE EndPhase(w, "passed", "call")
    BY <1>2, <2>1, <2>2 DEF EndPhase, Verdicts, Phases
  <2>3. CASE \E v \in Raises[test[w]] : EndPhase(w, v, "teardown")
    <3>1. PICK v \in Raises[test[w]] : EndPhase(w, v, "teardown")
      BY <2>3
    <3>2. v \in {"failed", "skipped", "xfailed"}
      BY <2>1, Names DEF RunTypes
    <3>3. QED
      BY <1>2, <2>1, <3>1, <3>2 DEF EndPhase, Verdicts, Phases
  <2>4. QED
    BY <1>4, <2>2, <2>3 DEF EndSetup
<1>5. CASE EndCall(w) \/ EndTeardown(w)
  <2>1. phase[w] \in {"call", "teardown"}
    BY <1>5 DEF EndCall, EndTeardown, In
  <2>2. Raises[test[w]] \cup {"passed", "xpassed"} \subseteq Verdicts
    BY <2>1, Names DEF RunTypes, Verdicts
  <2>3. CASE EndCall(w)
    <3>1. PICK v \in Verdicts : EndPhase(w, v, "teardown")
      BY <2>2, <2>3 DEF EndCall
    <3>2. phase[w] = "call" /\ UNCHANGED <<left, test>>
      BY <2>3 DEF EndCall, In
    <3>3. QED
      BY <1>2, <3>1, <3>2 DEF EndPhase, Phases
  <2>4. CASE EndTeardown(w)
    <3>1. PICK v \in Verdicts : EndPhase(w, v, "none")
      BY <2>2, <2>4 DEF EndTeardown
    <3>2. /\ phase[w] = "teardown" /\ UNCHANGED left
          /\ test' = [test EXCEPT ![w] = NoTest]
      BY <2>4 DEF EndTeardown, In
    <3>3. QED
      BY <1>2, <3>1, <3>2 DEF EndPhase, Phases
  <2>5. QED
    BY <1>5, <2>3, <2>4
<1>6. CASE Crash(w)
  <2>1. PICK t \in Tests : Runs(w, t)
    BY <1>6 DEF Crash, RunTypes, Runs
  <2> DEFINE r == Sent("crash", "failed")
  <2>2. r \in Reports /\ (r.outcome # "passed" \/ r.wasxfail)
    BY SentReport DEF Verdicts
  <2>3. /\ LogReport(t, r)
        /\ UNCHANGED left
        /\ test' = [test EXCEPT ![w] = NoTest]
        /\ phase' = [phase EXCEPT ![w] = "none"]
    BY <1>6, <2>1 DEF Crash, Send, Sent, Runs
  <2> HIDE DEF r
  <2>4. ReportedUpTo(t, 3)'
    BY <2>2, <2>3, NotPassed
  <2>5. QED
    BY <2>1, <2>2, <2>3, <2>4, WaySent
<1>7. CASE UseKey(w) \/ InKey(w) \/ KeyReturns(w) \/ KeyFails(w)
  <2>1. UNCHANGED <<left, test, phase, results, reported>>
    BY <1>7, Zenon
       DEF UseKey, InKey, KeyReturns, KeyFails, runVars, reportVars
  <2>2. QED
    BY <2>1 DEF WayPart, Runs, ReportedUpTo, PassedUpTo
<1>8. QED
  BY <1>1, <1>3, <1>4, <1>5, <1>6, <1>7 DEF RunTest

LEMMA WayStep ==
  ASSUME WayInv, [Next]_vars
  PROVE  WayPart' /\ DonePart'
<1>1. ASSUME NEW w \in Workers, RunTest(w) \/ KeyFails(w) \/ Crash(w)
      PROVE  DonePart'
  <2>1. CASE session = "running" /\ session' = session
    BY <2>1 DEF DonePart
  <2>2. CASE UNCHANGED <<session, left, test>>
    BY <2>2 DEF DonePart, WayInv
  <2>3. CASE UseKey(w) \/ InKey(w) \/ KeyReturns(w) \/ KeyFails(w)
    BY <2>2, <2>3, Zenon DEF UseKey, InKey, KeyReturns, KeyFails, runVars
  <2>4. CASE TakeTest(w) \/ SkipTest(w) \/ EndSetup(w) \/ EndCall(w)
               \/ EndTeardown(w) \/ Crash(w)
    BY <2>1, <2>4, Zenon
       DEF TakeTest, SkipTest, EndSetup, EndCall, EndTeardown, Crash, In
  <2>5. QED
    BY <1>1, <2>3, <2>4 DEF RunTest
<1>2. ASSUME NEW how \in {"finished", "interrupted"}, Finish(how)
      PROVE  WayPart'
  <2>1. UNCHANGED <<left, test, phase, results, reported>>
    BY <1>2 DEF Finish, SessionFinish
  <2>2. QED
    BY <2>1 DEF WayInv, WayPart, Runs, ReportedUpTo, PassedUpTo
<1>3. CASE FinishAll
  BY <1>2, <1>3 DEF FinishAll, Finish, DonePart
<1>4. CASE Interrupt
  BY <1>2, <1>4 DEF Interrupt, Finish, DonePart
<1>5. CASE NextRun
  <2>1. \A w \in Workers, t \in Tests : ~Runs(w, t)'
    BY <1>5, Names DEF NextRun, Runs
  <2>2. left' = Tests /\ session' = "running"
    BY <1>5 DEF NextRun
  <2>3. \A t \in Tests : reported'[t] = <<>>
    BY <1>5 DEF NextRun, NewReporter
  <2>4. QED
    BY <2>1, <2>2, <2>3 DEF WayPart, DonePart
<1>6. CASE UNCHANGED vars
  BY <1>6 DEF vars, runVars, reportVars, WayInv, WayPart, DonePart, Runs,
     ReportedUpTo, PassedUpTo
<1>7. QED
  BY <1>1, <1>3, <1>4, <1>5, <1>6, WayOfTest DEF Next

LEMMA WayInvariant == Spec => []WayInv
<1>1. Init => WayInv
  <2> SUFFICES ASSUME Init PROVE WayInv
    OBVIOUS
  <2>1. RunTypes /\ ReportInv
    BY RunTypesInitially, ReportInitially DEF Init
  <2>2. /\ \A w \in Workers, t \in Tests : ~Runs(w, t)
        /\ \A t \in Tests : reported[t] = <<>>
        /\ left = Tests
        /\ session = "running"
    BY Names DEF Init, ReportInit, Runs
  <2>3. QED
    BY <2>1, <2>2 DEF WayInv, WayPart, DonePart
<1>2. WayInv /\ [Next]_vars => WayInv'
  <2> SUFFICES ASSUME WayInv, [Next]_vars PROVE WayInv'
    OBVIOUS
  <2>1. RunTypes' /\ ReportInv'
    BY RunTypesPreserved, ReportOfStep, ReportPreserved DEF WayInv
  <2>2. QED
    BY <2>1, WayStep DEF WayInv
<1>3. QED
  BY <1>1, <1>2, PTL DEF Spec

\* Of a run that was not interrupted, every test is listed, and as passed only
\* if all of its phases passed, however many workers crashed or failed.
THEOREM Complete == Spec => []PassedIsComplete
<1>1. ASSUME WayInv, session = "finished", NEW t \in Tests
      PROVE  /\ t \in DOMAIN Render
             /\ Render[t].outcome = "passed" =>
                  /\ [i \in DOMAIN reported[t] |-> reported[t][i].when] =
                       <<"setup", "call", "teardown">>
                  /\ \A i \in 1..3 : reported[t][i].outcome = "passed"
  <2>1. \A w \in Workers : ~Runs(w, t)
    BY <1>1, Names DEF WayInv, DonePart, Runs
  <2>2. ReportedUpTo(t, 3)
    BY <1>1, <2>1 DEF WayInv, WayPart, DonePart
  <2>3. t \in DOMAIN Render /\ Render[t].outcome = results[t].outcome
    BY <2>2 DEF Render, ReportedUpTo
  <2>4. ASSUME results[t].outcome = "passed"
        PROVE  /\ [i \in DOMAIN reported[t] |-> reported[t][i].when] =
                    <<"setup", "call", "teardown">>
               /\ \A i \in 1..3 : reported[t][i].outcome = "passed"
    <3>1. PassedUpTo(t, 3)
      BY <2>2, <2>4 DEF ReportedUpTo
    <3>2. DOMAIN reported[t] = 1..3
      BY <3>1, LenProperties DEF PassedUpTo, WayInv, ReportInv, ReportTypeOK
    <3>3. [i \in DOMAIN reported[t] |-> reported[t][i].when] =
            [i \in 1..3 |-> Order[i]]
      BY <3>1, <3>2 DEF PassedUpTo
    <3>4. [i \in 1..3 |-> Order[i]] = <<"setup", "call", "teardown">>
      BY DEF Order
    <3>5. QED
      BY <3>1, <3>3, <3>4 DEF PassedUpTo
  <2>5. QED
    BY <2>3, <2>4
<1>2. WayInv => PassedIsComplete
  BY <1>1 DEF PassedIsComplete
<1>3. QED
  BY <1>2, WayInvariant, PTL
=============================================================================
