----------------------------- MODULE SummaryReport -----------------------------
(***************************************************************************)
(* report.py: SummaryReporter merges the reports of the phases of each     *)
(* test and appends a section to the job summary when the session ends.    *)
(***************************************************************************)
EXTENDS Naturals, Sequences, FiniteSets

CONSTANTS
  Tests,
  Processes,   \* the processes of a run that load the plugin ...
  Controller   \* ... and among them the one that runs no tests

ASSUME ReportAssumption ==
  /\ Controller \in Processes
  /\ IsFiniteSet(Processes)

VARIABLES
  results,   \* the result of each test that has reported
  summary,   \* number of sections in the job summary file
  reported   \* history: the reports that the reporter was given

reportVars == <<results, summary, reported>>

\* wasxfail: the phase failed as expected (skipped) or passed in spite of it.
Reports ==
  [when: {"setup", "call", "teardown", "crash"},
   outcome: {"passed", "failed", "skipped"}, wasxfail: BOOLEAN]

Outcomes == {"passed", "failed", "error", "skipped", "xfailed", "xpassed"}

NoResult == [outcome |-> "none", details |-> <<>>]
NewResult == [outcome |-> "passed", details |-> <<>>]
Results == [outcome: Outcomes \cup {"none"}, details: Seq(Reports)]

\* With pytest-xdist, only the controller writes the report.
RegisteredEverywhere(p) == p \in Processes                     \* mutant
Registered(p) == p = Controller

MergeLastWins(result, r) ==                                    \* mutant
  CASE r.wasxfail -> [result EXCEPT !.outcome =
                        IF r.outcome = "skipped" THEN "xfailed" ELSE "xpassed"]
    [] ~r.wasxfail /\ r.outcome = "failed" ->
         [outcome |-> IF r.when = "call" THEN "failed" ELSE "error",
          details |-> Append(result.details, r)]
    [] OTHER -> [result EXCEPT !.outcome = r.outcome]

MergeByPhase(result, r) ==                                     \* mutant
  IF r.outcome = "failed"
  THEN [outcome |-> IF r.when = "call" THEN "failed" ELSE r.when,
        details |-> Append(result.details, r)]
  ELSE result

MergeIgnoresErrors(result, r) ==                                   \* mutant
  CASE r.wasxfail -> [result EXCEPT !.outcome =
                        IF r.outcome = "skipped" THEN "xfailed" ELSE "xpassed"]
    [] ~r.wasxfail /\ r.outcome = "failed" /\ r.when = "call" ->
         [outcome |-> "failed", details |-> Append(result.details, r)]
    [] OTHER -> result

Merge(result, r) ==
  CASE r.wasxfail -> [result EXCEPT !.outcome =
                        IF r.outcome = "skipped" THEN "xfailed" ELSE "xpassed"]
    [] ~r.wasxfail /\ r.outcome = "failed" ->
         [outcome |-> IF r.when = "call" THEN "failed" ELSE "error",
          details |-> Append(result.details, r)]
    [] ~r.wasxfail /\ r.outcome = "skipped" /\ result.outcome = "passed" ->
         [result EXCEPT !.outcome = "skipped"]
    [] OTHER -> result

ReportInit ==
  /\ results = [t \in Tests |-> NoResult]
  /\ summary = 0
  /\ reported = [t \in Tests |-> <<>>]

LogReport(t, r) ==
  /\ results' = [results EXCEPT ![t] =
                   Merge(IF @ = NoResult THEN NewResult ELSE @, r)]
  /\ reported' = [reported EXCEPT ![t] = Append(@, r)]
  /\ UNCHANGED summary

\* What render shows: every result, and the details of some.
Render ==
  [t \in {t \in Tests : results[t] # NoResult} |->
    [outcome |-> results[t].outcome,
     details |-> IF results[t].outcome \in {"failed", "error"}
                 THEN results[t].details ELSE <<>>]]

\* pytest_sessionfinish: each process with a reporter appends what it renders.
SessionFinish ==
  /\ summary' = summary + Cardinality({p \in Processes : Registered(p)})
  /\ UNCHANGED <<results, reported>>

\* The next run has a new reporter and the same summary file.
NewReporter ==
  /\ results' = [t \in Tests |-> NoResult]
  /\ reported' = [t \in Tests |-> <<>>]
  /\ UNCHANGED summary

ReportNext ==
  \/ \E t \in Tests, r \in Reports : LogReport(t, r)
  \/ SessionFinish
  \/ NewReporter

ReportSpec == ReportInit /\ [][ReportNext]_reportVars

-----------------------------------------------------------------------------
ReportTypeOK ==
  /\ results \in [Tests -> Results]
  /\ reported \in [Tests -> Seq(Reports)]
  /\ summary \in Nat

Failed(r) == r.outcome = "failed" /\ ~r.wasxfail

\* README "lists each test with its outcome ... followed by the details of
\* failures": a test of which a phase failed is listed as failed or error, with
\* the details of every phase that failed, unless a later phase of it ended as
\* an expected failure, which hides them all.
FailuresShown ==
  \A t \in Tests : \A i \in DOMAIN reported[t] : Failed(reported[t][i]) =>
    \/ /\ t \in DOMAIN Render
       /\ \E j \in DOMAIN Render[t].details :
            Render[t].details[j] = reported[t][i]
    \/ \E j \in DOMAIN reported[t] : i < j /\ reported[t][j].wasxfail

Decisive(r) == r.wasxfail \/ r.outcome = "failed"

\* The outcome o of a test follows from its reports reps.
Follows(o, reps) ==
  \/ \E i \in DOMAIN reps :
       /\ Decisive(reps[i])
       /\ \A j \in DOMAIN reps : Decisive(reps[j]) => j <= i
       /\ o = CASE ~reps[i].wasxfail ->
                   IF reps[i].when = "call" THEN "failed" ELSE "error"
              [] reps[i].wasxfail ->
                   IF reps[i].outcome = "skipped" THEN "xfailed" ELSE "xpassed"
  \/ /\ \A i \in DOMAIN reps : ~Decisive(reps[i])
     /\ o = IF \E i \in DOMAIN reps : reps[i].outcome = "skipped"
            THEN "skipped" ELSE "passed"

\* The outcome a test is listed with is that of the last phase of it that
\* failed, or was expected to, however many phases passed or were skipped before
\* and after it; without one, a skipped phase makes the test a skipped one. A
\* test is listed from its first report on.
OutcomeFollows ==
  \A t \in Tests :
    /\ t \in DOMAIN Render <=> reported[t] # <<>>
    /\ t \in DOMAIN Render => Follows(Render[t].outcome, reported[t])
=============================================================================
