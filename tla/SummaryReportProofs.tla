-------------------------- MODULE SummaryReportProofs --------------------------
(***************************************************************************)
(* Proofs about SummaryReport for every sequence of reports: of any phases *)
(* in any order, as often as pytest likes.                                 *)
(***************************************************************************)
EXTENDS SummaryReport, SequenceTheorems, FiniteSetTheorems, TLAPS

\* The result res accounts for the failures among the reports reps.
Accounts(res, reps) ==
  \A i \in DOMAIN reps : Failed(reps[i]) =>
    \/ /\ res.outcome \in {"failed", "error"}
       /\ \E j \in DOMAIN res.details : res.details[j] = reps[i]
    \/ \E j \in DOMAIN reps : i < j /\ reps[j].wasxfail

\* Merge as a choice between four results.
LEMMA MergeCases ==
  ASSUME NEW res \in Results, NEW r \in Reports
  PROVE  \/ /\ r.wasxfail
            /\ \E o \in {"xfailed", "xpassed"} :
                 Merge(res, r) = [res EXCEPT !.outcome = o]
         \/ /\ Failed(r)
            /\ \E o \in {"failed", "error"} :
                 Merge(res, r) = [outcome |-> o,
                                  details |-> Append(res.details, r)]
         \/ /\ ~Failed(r)
            /\ res.outcome = "passed"
            /\ Merge(res, r) = [res EXCEPT !.outcome = "skipped"]
         \/ /\ ~Failed(r)
            /\ Merge(res, r) = res
  BY DEF Merge, Failed

LEMMA MergeType ==
  ASSUME NEW res \in Results, NEW r \in Reports
  PROVE  /\ Merge(res, r) \in Results
         /\ res.outcome # "none" => Merge(res, r).outcome # "none"
<1>1. Append(res.details, r) \in Seq(Reports)
  BY DEF Results
<1>2. /\ res = [outcome |-> res.outcome, details |-> res.details]
      /\ res.outcome \in Outcomes \cup {"none"}
      /\ res.details \in Seq(Reports)
  BY DEF Results
<1>3. ASSUME NEW o \in Outcomes, Merge(res, r) = [res EXCEPT !.outcome = o]
      PROVE  /\ Merge(res, r).outcome = o
             /\ Merge(res, r) \in Results
  BY <1>2, <1>3 DEF Results
<1>4. ASSUME NEW o \in Outcomes,
             Merge(res, r) = [outcome |-> o, details |-> Append(res.details, r)]
      PROVE  /\ Merge(res, r).outcome = o
             /\ Merge(res, r) \in Results
  BY <1>1, <1>4 DEF Results
<1>5. "none" \notin Outcomes
  BY DEF Outcomes
<1>6. \/ \E o \in Outcomes : Merge(res, r) = [res EXCEPT !.outcome = o]
      \/ \E o \in Outcomes :
           Merge(res, r) = [outcome |-> o, details |-> Append(res.details, r)]
      \/ Merge(res, r) = res
  BY MergeCases DEF Outcomes
<1>7. QED
  BY <1>3, <1>4, <1>5, <1>6

LEMMA MergeAccounts ==
  ASSUME NEW res \in Results, NEW reps \in Seq(Reports), NEW r \in Reports,
         Accounts(res, reps)
  PROVE  Accounts(Merge(res, r), Append(reps, r))
<1> DEFINE n == Len(reps) + 1
<1>1. /\ n \in Nat
      /\ DOMAIN reps = 1..Len(reps)
      /\ Len(reps) \in Nat
      /\ DOMAIN Append(reps, r) = 1..n
      /\ \A i \in DOMAIN reps : Append(reps, r)[i] = reps[i] /\ i < n
      /\ Append(reps, r)[n] = r
  BY LenProperties, AppendProperties
<1>2. SUFFICES ASSUME NEW i \in 1..n, Failed(Append(reps, r)[i])
               PROVE  \/ /\ Merge(res, r).outcome \in {"failed", "error"}
                         /\ \E j \in DOMAIN Merge(res, r).details :
                              Merge(res, r).details[j] = Append(reps, r)[i]
                      \/ \E j \in 1..n : i < j /\ Append(reps, r)[j].wasxfail
  BY <1>1 DEF Accounts
<1>3. /\ res.details \in Seq(Reports)
      /\ DOMAIN res.details = 1..Len(res.details)
      /\ Len(res.details) \in Nat
      /\ DOMAIN Append(res.details, r) = 1..(Len(res.details) + 1)
      /\ \A j \in DOMAIN res.details :
           Append(res.details, r)[j] = res.details[j]
      /\ Append(res.details, r)[Len(res.details) + 1] = r
  BY LenProperties, AppendProperties DEF Results
<1>4. CASE i = n
  <2>1. Failed(r)
    BY <1>1, <1>2, <1>4
  <2>2. PICK o \in {"failed", "error"} :
          Merge(res, r) = [outcome |-> o, details |-> Append(res.details, r)]
    BY <2>1, MergeCases DEF Failed
  <2>3. QED
    BY <1>1, <1>3, <1>4, <2>2
<1>5. CASE i \in DOMAIN reps
  <2>1. Append(reps, r)[i] = reps[i] /\ Failed(reps[i])
    BY <1>1, <1>2, <1>5
  <2>2. CASE \E j \in DOMAIN reps : i < j /\ reps[j].wasxfail
    <3>1. PICK j \in DOMAIN reps : i < j /\ reps[j].wasxfail
      BY <2>2
    <3>2. j \in 1..n /\ Append(reps, r)[j].wasxfail
      BY <1>1, <3>1
    <3>3. QED
      BY <3>1, <3>2
  <2>3. CASE r.wasxfail
    BY <1>1, <1>5, <2>3
  <2>4. CASE /\ ~r.wasxfail
             /\ res.outcome \in {"failed", "error"}
             /\ \E j \in DOMAIN res.details : res.details[j] = reps[i]
    <3>1. PICK j \in DOMAIN res.details : res.details[j] = reps[i]
      BY <2>4
    <3>2. \/ Merge(res, r) = res
          \/ \E o \in {"failed", "error"} :
               Merge(res, r) = [outcome |-> o,
                                details |-> Append(res.details, r)]
      BY <2>4, MergeCases
    <3>3. CASE Merge(res, r) = res
      BY <2>1, <2>4, <3>3
    <3>4. CASE \E o \in {"failed", "error"} :
                 Merge(res, r) = [outcome |-> o,
                                  details |-> Append(res.details, r)]
      <4>1. /\ Merge(res, r).outcome \in {"failed", "error"}
            /\ Merge(res, r).details = Append(res.details, r)
        BY <3>4
      <4>2. /\ j \in DOMAIN Append(res.details, r)
            /\ Append(res.details, r)[j] = reps[i]
        BY <1>3, <3>1
      <4>3. QED
        BY <2>1, <4>1, <4>2
    <3>5. QED
      BY <3>2, <3>3, <3>4
  <2>5. QED
    BY <1>5, <2>1, <2>2, <2>3, <2>4 DEF Accounts
<1>6. QED
  BY <1>1, <1>2, <1>4, <1>5

\* Every test that has reported has a result, which accounts for its reports.
ReportInv ==
  /\ ReportTypeOK
  /\ \A t \in Tests :
       /\ results[t] = NoResult <=> reported[t] = <<>>
       /\ results[t] # NoResult => results[t].outcome # "none"
       /\ Accounts(results[t], reported[t])

LEMMA NewResultType ==
  /\ NewResult \in Results
  /\ NewResult.outcome # "none"
  /\ NoResult \in Results
  /\ NoResult.outcome = "none"
  BY EmptySeq DEF NewResult, NoResult, Results, Outcomes

LEMMA ReportInitially == ReportInit => ReportInv
<1> SUFFICES ASSUME ReportInit PROVE ReportInv
  OBVIOUS
<1>1. results \in [Tests -> Results] /\ \A t \in Tests : results[t] = NoResult
  BY NewResultType DEF ReportInit
<1>2. /\ reported \in [Tests -> Seq(Reports)]
      /\ \A t \in Tests : reported[t] = <<>>
  BY EmptySeq DEF ReportInit
<1>3. \A res : Accounts(res, <<>>)
  BY EmptySeq DEF Accounts
<1>4. summary \in Nat
  BY DEF ReportInit
<1>5. QED
  BY <1>1, <1>2, <1>3, <1>4 DEF ReportInv, ReportTypeOK

\* The processes with a reporter are finitely many.
LEMMA Sections == Cardinality({p \in Processes : Registered(p)}) \in Nat
<1>1. IsFiniteSet({p \in Processes : Registered(p)})
  BY ReportAssumption, FS_Subset
<1>2. QED
  BY <1>1, FS_CardinalityType

LEMMA ReportPreserved ==
  ASSUME ReportInv, [ReportNext]_reportVars
  PROVE  ReportInv'
<1>1. ASSUME NEW t \in Tests, NEW r \in Reports, LogReport(t, r)
      PROVE  ReportInv'
  <2> DEFINE old == IF results[t] = NoResult THEN NewResult ELSE results[t]
  <2>1. /\ old \in Results
        /\ old.outcome # "none"
        /\ Accounts(old, reported[t])
    <3>1. Accounts(NewResult, <<>>)
      BY EmptySeq DEF Accounts
    <3>2. QED
      BY <3>1, NewResultType DEF ReportInv, ReportTypeOK
  <2>2. reported[t] \in Seq(Reports)
    BY DEF ReportInv, ReportTypeOK
  <2>3. /\ Merge(old, r) \in Results
        /\ Merge(old, r).outcome # "none"
        /\ Accounts(Merge(old, r), Append(reported[t], r))
    BY <2>1, <2>2, MergeType, MergeAccounts
  <2>4. Append(reported[t], r) \in Seq(Reports) /\ Append(reported[t], r) # <<>>
    BY <2>2, AppendProperties
  <2>5. /\ results' = [results EXCEPT ![t] = Merge(old, r)]
        /\ reported' = [reported EXCEPT ![t] = Append(reported[t], r)]
        /\ summary' = summary
    BY <1>1 DEF LogReport, ReportInv, ReportTypeOK
  <2>6. ReportTypeOK'
    BY <2>3, <2>4, <2>5 DEF ReportInv, ReportTypeOK
  <2>7. ASSUME NEW u \in Tests
        PROVE  /\ results'[u] = NoResult <=> reported'[u] = <<>>
               /\ results'[u] # NoResult => results'[u].outcome # "none"
               /\ Accounts(results'[u], reported'[u])
    <3>1. CASE u = t
      <4>1. /\ results'[u] = Merge(old, r)
            /\ reported'[u] = Append(reported[t], r)
        BY <2>5, <3>1 DEF ReportInv, ReportTypeOK
      <4>2. QED
        BY <2>3, <2>4, <4>1, NewResultType
    <3>2. CASE u # t
      <4>1. results'[u] = results[u] /\ reported'[u] = reported[u]
        BY <2>5, <3>2 DEF ReportInv, ReportTypeOK
      <4>2. QED
        BY <4>1 DEF ReportInv
    <3>3. QED
      BY <3>1, <3>2
  <2>8. QED
    BY <2>6, <2>7 DEF ReportInv
<1>2. CASE SessionFinish
  <2>1. summary' \in Nat
    BY <1>2, Sections DEF SessionFinish, ReportInv, ReportTypeOK
  <2>2. QED
    BY <1>2, <2>1 DEF SessionFinish, ReportInv, ReportTypeOK
<1>3. CASE NewReporter
  <2>1. /\ results' \in [Tests -> Results]
        /\ \A t \in Tests : results'[t] = NoResult
    BY <1>3, NewResultType DEF NewReporter
  <2>2. /\ reported' \in [Tests -> Seq(Reports)]
        /\ \A t \in Tests : reported'[t] = <<>>
    BY <1>3, EmptySeq DEF NewReporter
  <2>3. \A res : Accounts(res, <<>>)
    BY EmptySeq DEF Accounts
  <2>4. summary' \in Nat
    BY <1>3 DEF NewReporter, ReportInv, ReportTypeOK
  <2>5. QED
    BY <2>1, <2>2, <2>3, <2>4 DEF ReportInv, ReportTypeOK
<1>4. CASE UNCHANGED reportVars
  BY <1>4 DEF reportVars, ReportInv, ReportTypeOK
<1>5. QED
  BY <1>1, <1>2, <1>3, <1>4 DEF ReportNext

\* What accounts for the failures is what render shows.
LEMMA AccountedIsShown == ReportInv => FailuresShown
<1> SUFFICES ASSUME ReportInv, NEW t \in Tests,
                    NEW i \in DOMAIN reported[t], Failed(reported[t][i]),
                    ~ \E j \in DOMAIN reported[t] :
                        i < j /\ reported[t][j].wasxfail
             PROVE  /\ t \in DOMAIN Render
                    /\ \E j \in DOMAIN Render[t].details :
                         Render[t].details[j] = reported[t][i]
  BY DEF FailuresShown
<1>1. /\ results[t].outcome \in {"failed", "error"}
      /\ \E j \in DOMAIN results[t].details :
           results[t].details[j] = reported[t][i]
  BY DEF ReportInv, Accounts
<1>2. results[t] # NoResult
  BY <1>1, NewResultType
<1>3. /\ t \in DOMAIN Render
      /\ Render[t].details = results[t].details
  BY <1>1, <1>2 DEF Render
<1>4. QED
  BY <1>1, <1>3

\* The results, the reports and the summary keep their types.
THEOREM ReportTypeCorrect == ReportSpec => []ReportTypeOK
<1>1. ReportInv => ReportTypeOK
  BY DEF ReportInv
<1>2. QED
  BY <1>1, ReportInitially, ReportPreserved, PTL DEF ReportSpec

\* Whatever the phases of a test report, in whatever order, its failures are
\* shown unless a later phase of it ended as an expected failure.
THEOREM Shown == ReportSpec => []FailuresShown
  BY ReportInitially, ReportPreserved, AccountedIsShown, PTL DEF ReportSpec
-----------------------------------------------------------------------------
(***************************************************************************)
(* The outcome of a test is a function of its reports.                     *)
(***************************************************************************)

OutcomeInv ==
  \A t \in Tests :
    results[t] # NoResult => Follows(results[t].outcome, reported[t])

\* A report that fails, or that was expected to, decides the outcome ...
LEMMA DecisiveMerge ==
  ASSUME NEW res \in Results, NEW reps \in Seq(Reports), NEW r \in Reports,
         Decisive(r)
  PROVE  Follows(Merge(res, r).outcome, Append(reps, r))
<1> DEFINE n == Len(reps) + 1
<1>1. /\ n \in DOMAIN Append(reps, r)
      /\ \A i \in DOMAIN Append(reps, r) : i <= n
      /\ Append(reps, r)[n] = r
  BY LenProperties, AppendProperties
<1>2. CASE r.wasxfail
  <2>1. Merge(res, r) = [res EXCEPT !.outcome =
          IF r.outcome = "skipped" THEN "xfailed" ELSE "xpassed"]
    BY <1>2 DEF Merge
  <2>2. Merge(res, r).outcome =
          IF r.outcome = "skipped" THEN "xfailed" ELSE "xpassed"
    BY <2>1 DEF Results
  <2>3. QED
    BY <1>1, <1>2, <2>2 DEF Follows
<1>3. CASE ~r.wasxfail
  <2>1. Merge(res, r).outcome = IF r.when = "call" THEN "failed" ELSE "error"
    BY <1>3 DEF Merge, Decisive
  <2>2. QED
    BY <1>1, <1>3, <2>1 DEF Follows
<1>4. QED
  BY <1>2, <1>3

\* ... and one that does not leaves it as it was, but for the first skip of a
\* test that has passed so far.
LEMMA OtherMerge ==
  ASSUME NEW res \in Results, NEW reps \in Seq(Reports), NEW r \in Reports,
         ~Decisive(r), Follows(res.outcome, reps)
  PROVE  Follows(Merge(res, r).outcome, Append(reps, r))
<1> DEFINE n == Len(reps) + 1
<1> DEFINE all == Append(reps, r)
<1>1. /\ DOMAIN all = DOMAIN reps \cup {n}
      /\ n \notin DOMAIN reps
      /\ DOMAIN reps \subseteq Nat
      /\ \A i \in DOMAIN reps : all[i] = reps[i]
      /\ all[n] = r
  BY LenProperties, AppendProperties
<1>2. Merge(res, r).outcome =
        IF r.outcome = "skipped" /\ res.outcome = "passed"
        THEN "skipped" ELSE res.outcome
  BY DEF Merge, Decisive, Results
<1>3. CASE \A i \in DOMAIN reps : ~Decisive(reps[i])
  <2>1. res.outcome = IF \E i \in DOMAIN reps : reps[i].outcome = "skipped"
                      THEN "skipped" ELSE "passed"
    BY <1>3 DEF Follows
  <2>2. \A i \in DOMAIN all : ~Decisive(all[i])
    BY <1>1, <1>3
  <2>3. (\E i \in DOMAIN all : all[i].outcome = "skipped")
          <=> \/ \E i \in DOMAIN reps : reps[i].outcome = "skipped"
              \/ r.outcome = "skipped"
    BY <1>1
  <2>4. QED
    BY <1>2, <2>1, <2>2, <2>3 DEF Follows
<1>4. CASE \E i \in DOMAIN reps : Decisive(reps[i])
  <2>1. PICK i \in DOMAIN reps :
          /\ Decisive(reps[i])
          /\ \A j \in DOMAIN reps : Decisive(reps[j]) => j <= i
          /\ res.outcome = CASE ~reps[i].wasxfail ->
                   IF reps[i].when = "call" THEN "failed" ELSE "error"
              [] reps[i].wasxfail ->
                   IF reps[i].outcome = "skipped" THEN "xfailed" ELSE "xpassed"
    BY <1>4 DEF Follows
  <2>2. res.outcome # "passed"
    BY <2>1
  <2>3. Merge(res, r).outcome = res.outcome
    BY <1>2, <2>2
  <2>4. /\ i \in DOMAIN all
        /\ all[i] = reps[i]
        /\ \A j \in DOMAIN all : Decisive(all[j]) => j <= i
    BY <1>1, <2>1
  <2>5. QED
    BY <2>1, <2>3, <2>4 DEF Follows
<1>5. QED
  BY <1>3, <1>4

LEMMA OutcomePreserved ==
  ASSUME ReportInv, OutcomeInv, [ReportNext]_reportVars
  PROVE  OutcomeInv'
<1>1. ASSUME NEW t \in Tests, NEW r \in Reports, LogReport(t, r)
      PROVE  OutcomeInv'
  <2> DEFINE old == IF results[t] = NoResult THEN NewResult ELSE results[t]
  <2>1. Follows(NewResult.outcome, <<>>)
    BY EmptySeq DEF Follows, NewResult
  <2>2. /\ old \in Results
        /\ reported[t] \in Seq(Reports)
        /\ Follows(old.outcome, reported[t])
    BY <2>1, NewResultType DEF ReportInv, ReportTypeOK, OutcomeInv
  <2>3. Follows(Merge(old, r).outcome, Append(reported[t], r))
    BY <2>2, DecisiveMerge, OtherMerge
  <2>4. /\ results' = [results EXCEPT ![t] = Merge(old, r)]
        /\ reported' = [reported EXCEPT ![t] = Append(reported[t], r)]
    BY <1>1 DEF LogReport, ReportInv, ReportTypeOK
  <2>5. ASSUME NEW u \in Tests, results'[u] # NoResult
        PROVE  Follows(results'[u].outcome, reported'[u])
    <3>1. CASE u = t
      <4>1. /\ results'[u] = Merge(old, r)
            /\ reported'[u] = Append(reported[t], r)
        BY <2>4, <3>1 DEF ReportInv, ReportTypeOK
      <4>2. QED
        BY <2>3, <4>1
    <3>2. CASE u # t
      <4>1. results'[u] = results[u] /\ reported'[u] = reported[u]
        BY <2>4, <3>2 DEF ReportInv, ReportTypeOK
      <4>2. QED
        BY <2>5, <4>1 DEF OutcomeInv
    <3>3. QED
      BY <3>1, <3>2
  <2>6. QED
    BY <2>5 DEF OutcomeInv
<1>2. CASE NewReporter
  BY <1>2 DEF NewReporter, OutcomeInv
<1>3. CASE SessionFinish \/ UNCHANGED reportVars
  BY <1>3 DEF SessionFinish, reportVars, OutcomeInv
<1>4. QED
  BY <1>1, <1>2, <1>3 DEF ReportNext

\* Render lists the tests with a result, each with its outcome.
LEMMA ListedFollows == ReportInv /\ OutcomeInv => OutcomeFollows
<1> SUFFICES ASSUME ReportInv, OutcomeInv, NEW t \in Tests
             PROVE  /\ t \in DOMAIN Render <=> reported[t] # <<>>
                    /\ t \in DOMAIN Render =>
                         Follows(Render[t].outcome, reported[t])
  BY DEF OutcomeFollows
<1>1. t \in DOMAIN Render <=> results[t] # NoResult
  BY DEF Render
<1>2. t \in DOMAIN Render => Render[t].outcome = results[t].outcome
  BY DEF Render
<1>3. QED
  BY <1>1, <1>2 DEF ReportInv, OutcomeInv

\* However many phases of a test report, and in whatever order, it is listed
\* with the outcome of its last decisive phase.
THEOREM Decided == ReportSpec => []OutcomeFollows
<1>1. ReportInit => OutcomeInv
  BY DEF ReportInit, OutcomeInv
<1>2. ReportInv /\ OutcomeInv /\ [ReportNext]_reportVars => OutcomeInv'
  BY OutcomePreserved
<1>3. QED
  BY <1>1, <1>2, ReportInitially, ReportPreserved, ListedFollows, PTL
     DEF ReportSpec
=============================================================================
