------------------------- MODULE BakeryBuilderProofs -------------------------
(***************************************************************************)
(* Proofs about BakeryBuilder for every number of workers, systems,        *)
(* artifacts, parameter sets and test runs.                                *)
(***************************************************************************)
EXTENDS BakeryBuilder, TLAPS

-----------------------------------------------------------------------------
(***************************************************************************)
(* The inductive invariants behind the properties of the builder.          *)
(***************************************************************************)

\* A file that is complete and was baked in the current run.
Fresh(f) == f.state = "whole" /\ f.run = run

\* The lock is held by exactly the worker inside the section, and what that
\* worker is baking was not baked in this run before.
LockInv ==
  /\ \A w \in Workers : pc[w] \in Holding <=> lock = w
  /\ \A w \in Workers :
       pc[w] \in {"baking", "baked", "copying", "copied"} =>
         call[w] \notin markers

\* Without orphans a bake belongs to the worker in the section and is alone,
\* and the output is complete and of this run from the exit of run-bakery on:
\* first under build/, then as the open source, then as the copy.
BakeInv ==
  /\ \A w \in Workers : proc[w].phase # "none" =>
       /\ pc[w] = "baking"
       /\ proc[w].target = call[w]
       /\ proc[w].run = run
       /\ proc[w].alone
       /\ proc[w].phase = "exited" /\ call[w] \in Artifacts =>
            Fresh(build[call[w]])
  /\ \A w \in Workers :
       /\ pc[w] = "baked" => Fresh(build[call[w]])
       /\ pc[w] = "copying" => Fresh(source[w])
       /\ pc[w] = "copied" => Fresh(artifact[call[w]])
       /\ got[w] \subseteq markers
  /\ \A a \in markers : Fresh(artifact[a])

-----------------------------------------------------------------------------

LEMMA AbsentIsFile == Absent \in Files
  BY ConstantsAssumption DEF Absent, Files, Contents

LEMMA NoProcIsProc == NoProc \in Procs
  BY ConstantsAssumption DEF NoProc, Procs, Contents

\* Only the bake of an artifact gets as far as the copy of the artifact: the
\* type of what is copied depends on it.
CopiesAreOfArtifacts ==
  \A w \in Workers :
    pc[w] \in {"baked", "copying", "copied"} => call[w] \in Artifacts

TypeInv == TypeOK /\ CopiesAreOfArtifacts

\* Every variable of the builder keeps its type.
LEMMA TypeInvariant == Spec => []TypeInv
<1>1. Init => TypeInv
  BY ConstantsAssumption, AbsentIsFile, NoProcIsProc
  DEF Init, TypeInv, TypeOK, CopiesAreOfArtifacts, Contents, Pcs
<1>2. TypeInv /\ [Next]_vars => TypeInv'
  <2> SUFFICES ASSUME TypeInv, [Next]_vars
               PROVE  TypeInv'
    OBVIOUS
  <2> USE ConstantsAssumption DEF TypeInv, TypeOK, CopiesAreOfArtifacts
  <2>1. ASSUME NEW w \in Workers, CreateWithoutParameters(w)
        PROVE  TypeInv'
    BY <2>1 DEF CreateWithoutParameters, Pcs
  <2>2. ASSUME NEW w \in Workers, WriteTmp(w)
        PROVE  TypeInv'
    BY <2>2 DEF WriteTmp, Pcs
  <2>3. ASSUME NEW w \in Workers, ReplaceParams(w)
        PROVE  TypeInv'
    BY <2>3 DEF ReplaceParams, Pcs, Contents
  <2>4. ASSUME NEW w \in Workers, NEW a \in Artifacts, ReuseBaked(w, a)
        PROVE  TypeInv'
    BY <2>4 DEF ReuseBaked, Baked, Hand
  <2>5. ASSUME NEW w \in Workers, NEW a \in Artifacts \cup {NoArtifact},
               QueueForLock(w, a)
        PROVE  TypeInv'
    BY <2>5 DEF QueueForLock, Pcs
  <2>6. ASSUME NEW w \in Workers, AcquireLock(w)
        PROVE  TypeInv'
    BY <2>6 DEF AcquireLock, Pcs, Holding
  <2>7. ASSUME NEW w \in Workers, FoundBaked(w)
        PROVE  TypeInv'
    BY <2>7 DEF FoundBaked, Found, Baked, Hand, Release, Pcs
  <2>8. ASSUME NEW w \in Workers, SpawnBakery(w)
        PROVE  TypeInv'
    <3>1. NoneLive \in BOOLEAN
      BY DEF NoneLive
    <3>2. [phase |-> "spawned", target |-> call[w], run |-> run,
           params |-> NoParams, alone |-> NoneLive] \in Procs
      BY <3>1 DEF Procs, Contents
    <3>3. \A v \in Workers : [proc[v] EXCEPT !.alone = FALSE] \in Procs
      BY DEF Procs
    <3>4. proc' \in [Workers -> Procs]
      BY <2>8, <3>2, <3>3 DEF SpawnBakery, Found, Baked
    <3>5. log' \in [Artifacts -> {"none", "partial", "full"}]
      BY <2>8 DEF SpawnBakery, Found, Baked
    <3>6. QED
      BY <2>8, <3>4, <3>5 DEF SpawnBakery, Found, Baked, Pcs, Holding
  <2>9. ASSUME NEW w \in Workers, BakerySucceeded(w)
        PROVE  TypeInv'
    BY <2>9, NoProcIsProc DEF BakerySucceeded, Release, Pcs, Holding
  <2>10. ASSUME NEW w \in Workers, BakeryFailed(w)
         PROVE  TypeInv'
    BY <2>10, NoProcIsProc DEF BakeryFailed, Release, Pcs
  <2>11. ASSUME NEW w \in Workers, OpenCopy(w)
         PROVE  TypeInv'
    <3>1. pc' \in [Workers -> Pcs]
      BY <2>11 DEF OpenCopy, Pcs, Holding
    <3>2. source' \in [Workers -> Files] /\ artifact' \in [Artifacts -> Files]
      BY <2>11 DEF OpenCopy, Files
    <3>3. QED
      BY <2>11, <3>1, <3>2 DEF OpenCopy
  <2>12. ASSUME NEW w \in Workers, CopyFails(w)
         PROVE  TypeInv'
    BY <2>12, AbsentIsFile DEF CopyFails, Release, Pcs
  <2>13. ASSUME NEW w \in Workers, CompleteCopy(w)
         PROVE  TypeInv'
    BY <2>13, AbsentIsFile DEF CompleteCopy, Pcs, Holding
  <2>14. ASSUME NEW w \in Workers, TouchMarker(w)
         PROVE  TypeInv'
    BY <2>14 DEF TouchMarker, Hand, Release, Pcs
  <2>15. ASSUME NEW w \in Workers, BakeryStarts(w)
         PROVE  TypeInv'
    <3>1. proc' \in [Workers -> Procs] /\ proc'[w] \in Procs
      BY <2>15 DEF BakeryStarts, ParamFile, Procs, Contents
    <3>2. File("partial", proc[w].run, proc'[w].params) \in Files
      BY <3>1 DEF File, Files, Procs
    <3>3. build' \in [Artifacts -> Files]
      BY <2>15, <3>2, AbsentIsFile DEF BakeryStarts, ParamFile
    <3>4. QED
      BY <2>15, <3>1, <3>3 DEF BakeryStarts, ParamFile
  <2>16. ASSUME NEW w \in Workers, BakeryExits(w)
         PROVE  TypeInv'
    <3>1. Ended(w, "exited") \in Procs
      BY NoProcIsProc DEF Ended, Procs
    <3>2. \A s \in {"whole", "partial"} :
            File(s, proc[w].run, proc[w].params) \in Files
      BY DEF File, Files, Procs
    <3>3. build' \in [Artifacts -> Files]
      BY <2>16, <3>2 DEF BakeryExits
    <3>4. QED
      BY <2>16, <3>1, <3>3 DEF BakeryExits
  <2>17. ASSUME NEW w \in Workers, BakeryBreaks(w)
         PROVE  TypeInv'
    <3>1. Ended(w, "failed") \in Procs
      BY NoProcIsProc DEF Ended, Procs
    <3>2. QED
      BY <2>17, <3>1 DEF BakeryBreaks
  <2>18. ASSUME NEW w \in Workers, Interrupt(w)
         PROVE  TypeInv'
    BY <2>18, NoProcIsProc, AbsentIsFile DEF Interrupt, Die, Pcs
  <2>19. ASSUME NEW w \in Workers, Crash(w)
         PROVE  TypeInv'
    BY <2>19, AbsentIsFile DEF Crash, Die, Pcs
  <2>20. ASSUME NEW w \in Workers, ReplaceWorker(w)
         PROVE  TypeInv'
    BY <2>20 DEF ReplaceWorker, Pcs
  <2>21. CASE NextRun
    BY <2>21 DEF NextRun, Pcs
  <2>22. CASE UNCHANGED vars
    BY <2>22 DEF vars
  <2>23. ASSUME NEW w \in Workers, SpawnFails(w)
         PROVE  TypeInv'
    BY <2>23 DEF SpawnFails, Found, Baked, Release, Pcs
  <2>24. ASSUME NEW w \in Workers, LogFails(w)
         PROVE  TypeInv'
    BY <2>24, NoProcIsProc DEF LogFails, Release, Pcs
  <2>25. QED
    BY <2>1, <2>2, <2>3, <2>4, <2>5, <2>6, <2>7, <2>8, <2>9, <2>10, <2>11,
       <2>12, <2>13, <2>14, <2>15, <2>16, <2>17, <2>18, <2>19, <2>20, <2>21,
       <2>22, <2>23, <2>24
    DEF Next, WorkerStep, BakeryStep, CallStep
<1>3. QED
  BY <1>1, <1>2, PTL DEF Spec, TypeInv

\* Every variable of the builder keeps its type.
THEOREM TypeCorrect == Spec => []TypeOK
  BY TypeInvariant, PTL DEF TypeInv

-----------------------------------------------------------------------------
(***************************************************************************)
(* The lock: an inductive invariant of its own, orphans or not.            *)
(***************************************************************************)

LEMMA LockInitially == Init => LockInv
  BY ConstantsAssumption DEF Init, LockInv, Holding

LEMMA LockPreserved ==
  ASSUME TypeInv, LockInv, [Next]_vars
  PROVE  LockInv'
<1> USE ConstantsAssumption DEF TypeInv, TypeOK, LockInv, Holding
<1>1. ASSUME NEW w \in Workers, CreateWithoutParameters(w)
      PROVE  LockInv'
  BY <1>1 DEF CreateWithoutParameters
<1>2. ASSUME NEW w \in Workers, WriteTmp(w)
      PROVE  LockInv'
  BY <1>2 DEF WriteTmp
<1>3. ASSUME NEW w \in Workers, ReplaceParams(w)
      PROVE  LockInv'
  BY <1>3 DEF ReplaceParams
<1>4. ASSUME NEW w \in Workers, NEW a \in Artifacts, ReuseBaked(w, a)
      PROVE  LockInv'
  BY <1>4 DEF ReuseBaked, Baked
<1>5. ASSUME NEW w \in Workers, NEW a \in Artifacts \cup {NoArtifact},
             QueueForLock(w, a)
      PROVE  LockInv'
  BY <1>5 DEF QueueForLock
<1>6. ASSUME NEW w \in Workers, AcquireLock(w)
      PROVE  LockInv'
  BY <1>6 DEF AcquireLock
<1>7. ASSUME NEW w \in Workers, FoundBaked(w)
      PROVE  LockInv'
  BY <1>7 DEF FoundBaked, Found, Baked, Release
<1>8. ASSUME NEW w \in Workers, SpawnBakery(w)
      PROVE  LockInv'
  BY <1>8 DEF SpawnBakery, Found, Baked
<1>9. ASSUME NEW w \in Workers, SpawnFails(w)
      PROVE  LockInv'
  BY <1>9 DEF SpawnFails, Found, Baked, Release
<1>10. ASSUME NEW w \in Workers, LogFails(w)
       PROVE  LockInv'
  BY <1>10 DEF LogFails, Release
<1>11. ASSUME NEW w \in Workers, BakerySucceeded(w)
       PROVE  LockInv'
  BY <1>11 DEF BakerySucceeded, Release
<1>12. ASSUME NEW w \in Workers, BakeryFailed(w)
       PROVE  LockInv'
  BY <1>12 DEF BakeryFailed, Release
<1>13. ASSUME NEW w \in Workers, OpenCopy(w)
       PROVE  LockInv'
  BY <1>13 DEF OpenCopy
<1>14. ASSUME NEW w \in Workers, CopyFails(w)
       PROVE  LockInv'
  BY <1>14 DEF CopyFails, Release
<1>15. ASSUME NEW w \in Workers, CompleteCopy(w)
       PROVE  LockInv'
  BY <1>15 DEF CompleteCopy
<1>16. ASSUME NEW w \in Workers, TouchMarker(w)
       PROVE  LockInv'
  BY <1>16 DEF TouchMarker, Release
<1>17. ASSUME NEW w \in Workers, BakeryStep(w)
       PROVE  LockInv'
  BY <1>17 DEF BakeryStep, BakeryStarts, BakeryExits, BakeryBreaks
<1>18. ASSUME NEW w \in Workers, Interrupt(w) \/ Crash(w)
       PROVE  LockInv'
  BY <1>18 DEF Interrupt, Crash, Die
<1>19. ASSUME NEW w \in Workers, ReplaceWorker(w)
       PROVE  LockInv'
  BY <1>19 DEF ReplaceWorker
<1>20. CASE NextRun
  BY <1>20 DEF NextRun
<1>21. CASE UNCHANGED vars
  BY <1>21 DEF vars
<1>22. QED
  BY <1>1, <1>2, <1>3, <1>4, <1>5, <1>6, <1>7, <1>8, <1>9, <1>10, <1>11,
     <1>12, <1>13, <1>14, <1>15, <1>16, <1>17, <1>18, <1>19, <1>20, <1>21
  DEF Next, WorkerStep, CallStep

\* The lock is held by exactly the worker inside the section, and nothing that
\* is in the run already is baked again, whatever ends the workers.
THEOREM LockInvariant == Spec => []LockInv
<1>1. TypeInv /\ LockInv /\ [Next]_vars => LockInv'
  BY LockPreserved
<1>2. QED
  BY <1>1, LockInitially, TypeInvariant, PTL DEF Spec

\* No two workers are inside the exclusive section together, for any number
\* of workers and whatever interrupts, failures and kills there are.
THEOREM Exclusion == Spec => []ExclusiveSections
<1>1. LockInv => ExclusiveSections
  BY DEF LockInv, ExclusiveSections
<1>2. QED
  BY <1>1, LockInvariant, PTL

LEMMA MarkedKept ==
  ASSUME TypeInv, LockInv, [Next]_vars, run' = run
  PROVE  \A a \in markers : artifact'[a] = artifact[a] /\ log'[a] = log[a]
<1> DEFINE Kept ==
       \A a \in markers : artifact'[a] = artifact[a] /\ log'[a] = log[a]
<1> USE ConstantsAssumption DEF TypeInv, TypeOK, LockInv
<1>1. ASSUME NEW w \in Workers, WorkerStep(w)
      PROVE  Kept
  BY <1>1 DEF Found, Baked, WorkerStep, CreateWithoutParameters, WriteTmp,
     ReplaceParams, FoundBaked, SpawnBakery, SpawnFails, LogFails,
     BakerySucceeded, BakeryFailed, OpenCopy, CopyFails, CompleteCopy,
     TouchMarker
<1>2. ASSUME NEW w \in Workers, AcquireLock(w) \/ CallStep(w)
      PROVE  Kept
  BY <1>2 DEF AcquireLock, CallStep, Baked, ReuseBaked, QueueForLock
<1>3. ASSUME NEW w \in Workers, BakeryStep(w)
      PROVE  Kept
  BY <1>3 DEF BakeryStep, BakeryStarts, BakeryExits, BakeryBreaks
<1>4. ASSUME NEW w \in Workers,
             Interrupt(w) \/ Crash(w) \/ ReplaceWorker(w)
      PROVE  Kept
  BY <1>4 DEF Interrupt, Crash, ReplaceWorker
<1>5. CASE NextRun
  BY <1>5 DEF NextRun
<1>6. CASE UNCHANGED vars
  BY <1>6 DEF vars
<1>7. QED
  BY <1>1, <1>2, <1>3, <1>4, <1>5, <1>6 DEF Next

\* Once the marker of an artifact is there, its copy and its log stay as they
\* are to the end of the run, even if an orphaned bake is at work.
THEOREM Frozen == Spec => MarkedIsFrozen
<1> DEFINE Kept == run' = run =>
       \A a \in markers : artifact'[a] = artifact[a] /\ log'[a] = log[a]
<1>1. TypeInv /\ LockInv /\ [Next]_vars => [Kept]_vars
  BY MarkedKept
<1>2. QED
  BY <1>1, TypeInvariant, LockInvariant, PTL DEF Spec, MarkedIsFrozen

\* The log of an artifact is complete from the end of its bake to its marker.
LogInv ==
  \A w \in Workers :
    pc[w] \in {"baked", "copying", "copied"} => log[call[w]] = "full"

LEMMA LogPreserved ==
  ASSUME TypeInv, LockInv, LogInv, [Next]_vars
  PROVE  LogInv'
<1> USE ConstantsAssumption
    DEF TypeInv, TypeOK, CopiesAreOfArtifacts, LockInv, LogInv, Holding
<1>1. ASSUME NEW w \in Workers,
             CreateWithoutParameters(w) \/ WriteTmp(w) \/ ReplaceParams(w)
      PROVE  LogInv'
  BY <1>1 DEF CreateWithoutParameters, WriteTmp, ReplaceParams
<1>2. ASSUME NEW w \in Workers, CallStep(w) \/ AcquireLock(w) \/ FoundBaked(w)
      PROVE  LogInv'
  BY <1>2 DEF CallStep, ReuseBaked, QueueForLock, AcquireLock, FoundBaked,
     Release
<1>3. ASSUME NEW w \in Workers, SpawnBakery(w)
      PROVE  LogInv'
  BY <1>3 DEF SpawnBakery
<1>4. ASSUME NEW w \in Workers, SpawnFails(w) \/ LogFails(w) \/ BakeryFailed(w)
      PROVE  LogInv'
  BY <1>4 DEF SpawnFails, LogFails, BakeryFailed, Release
<1>5. ASSUME NEW w \in Workers, BakerySucceeded(w)
      PROVE  LogInv'
  BY <1>5 DEF BakerySucceeded, Release
<1>6. ASSUME NEW w \in Workers,
             OpenCopy(w) \/ CopyFails(w) \/ CompleteCopy(w) \/ TouchMarker(w)
      PROVE  LogInv'
  BY <1>6 DEF OpenCopy, CopyFails, CompleteCopy, TouchMarker, Release
<1>7. ASSUME NEW w \in Workers, BakeryStep(w)
      PROVE  LogInv'
  BY <1>7 DEF BakeryStep, BakeryStarts, BakeryExits, BakeryBreaks
<1>8. ASSUME NEW w \in Workers,
             Interrupt(w) \/ Crash(w) \/ ReplaceWorker(w)
      PROVE  LogInv'
  BY <1>8 DEF Interrupt, Crash, Die, ReplaceWorker
<1>9. CASE NextRun
  BY <1>9 DEF NextRun
<1>10. CASE UNCHANGED vars
  BY <1>10 DEF vars
<1>11. QED
  BY <1>1, <1>2, <1>3, <1>4, <1>5, <1>6, <1>7, <1>8, <1>9, <1>10
  DEF Next, WorkerStep

LEMMA LogInvariant == Spec => []LogInv
<1>1. Init => LogInv
  BY DEF Init, LogInv
<1>2. TypeInv /\ LockInv /\ LogInv /\ [Next]_vars => LogInv'
  BY LogPreserved
<1>3. QED
  BY <1>1, <1>2, TypeInvariant, LockInvariant, PTL DEF Spec

-----------------------------------------------------------------------------
(***************************************************************************)
(* The bakes, when no run-bakery outlives its worker.                      *)
(***************************************************************************)

LEMMA BakeInitially == Init => BakeInv
  BY ConstantsAssumption DEF Init, BakeInv, NoProc

LEMMA BakePreserved ==
  ASSUME ~OrphansSurvive, TypeInv, LockInv, BakeInv, [Next]_vars
  PROVE  BakeInv'
<1> USE ConstantsAssumption
    DEF TypeInv, TypeOK, CopiesAreOfArtifacts, LockInv, BakeInv, Holding,
        Fresh, NoProc
<1>1. ASSUME NEW w \in Workers, CreateWithoutParameters(w)
      PROVE  BakeInv'
  BY <1>1 DEF CreateWithoutParameters
<1>2. ASSUME NEW w \in Workers, WriteTmp(w)
      PROVE  BakeInv'
  BY <1>2 DEF WriteTmp
<1>3. ASSUME NEW w \in Workers, ReplaceParams(w)
      PROVE  BakeInv'
  BY <1>3 DEF ReplaceParams
<1>4. ASSUME NEW w \in Workers, NEW a \in Artifacts, ReuseBaked(w, a)
      PROVE  BakeInv'
  BY <1>4 DEF ReuseBaked, Baked, Hand
<1>5. ASSUME NEW w \in Workers, NEW a \in Artifacts \cup {NoArtifact},
             QueueForLock(w, a)
      PROVE  BakeInv'
  BY <1>5 DEF QueueForLock
<1>6. ASSUME NEW w \in Workers, AcquireLock(w)
      PROVE  BakeInv'
  BY <1>6 DEF AcquireLock
<1>7. ASSUME NEW w \in Workers, FoundBaked(w)
      PROVE  BakeInv'
  BY <1>7 DEF FoundBaked, Found, Baked, Hand, Release
<1>8. ASSUME NEW w \in Workers, SpawnBakery(w)
      PROVE  BakeInv'
  BY <1>8 DEF SpawnBakery, Found, Baked, NoneLive, Live
<1>9. ASSUME NEW w \in Workers, SpawnFails(w)
      PROVE  BakeInv'
  BY <1>9 DEF SpawnFails, Found, Baked, Release
<1>10. ASSUME NEW w \in Workers, LogFails(w)
       PROVE  BakeInv'
  BY <1>10 DEF LogFails, Release
<1>11. ASSUME NEW w \in Workers, BakerySucceeded(w)
       PROVE  BakeInv'
  BY <1>11 DEF BakerySucceeded, Release
<1>12. ASSUME NEW w \in Workers, BakeryFailed(w)
       PROVE  BakeInv'
  BY <1>12 DEF BakeryFailed, Release
<1>13. ASSUME NEW w \in Workers, OpenCopy(w)
       PROVE  BakeInv'
  BY <1>13 DEF OpenCopy
<1>14. ASSUME NEW w \in Workers, CopyFails(w)
       PROVE  BakeInv'
  BY <1>14 DEF CopyFails, Release
<1>15. ASSUME NEW w \in Workers, CompleteCopy(w)
       PROVE  BakeInv'
  BY <1>15 DEF CompleteCopy
<1>16. ASSUME NEW w \in Workers, TouchMarker(w)
       PROVE  BakeInv'
  BY <1>16 DEF TouchMarker, Hand, Release
<1>17. ASSUME NEW w \in Workers, BakeryStarts(w)
       PROVE  BakeInv'
  BY <1>17 DEF BakeryStarts, ParamFile
<1>18. ASSUME NEW w \in Workers, BakeryExits(w)
       PROVE  BakeInv'
  <2>1. /\ pc[w] = "baking"
        /\ proc[w].target = call[w]
        /\ proc[w].run = run
        /\ proc[w].alone
    BY <1>18 DEF BakeryExits
  <2>2. \A v \in Workers : v # w => proc'[v] = proc[v] /\ pc[v] \notin Holding
    BY <1>18, <2>1 DEF BakeryExits
  <2>3. proc[w] \in Procs
    OBVIOUS
  <2>4. proc'[w] = [proc[w] EXCEPT !.phase = "exited"]
    BY <1>18, <2>1 DEF BakeryExits, Ended
  <2>5. /\ proc'[w].target = call[w]
        /\ proc'[w].run = run
        /\ proc'[w].alone
    BY <2>1, <2>3, <2>4 DEF Procs
  <2>6. call[w] \in Artifacts => Fresh(build'[call[w]])
    BY <1>18, <2>1 DEF BakeryExits, File
  <2>7. QED
    BY <1>18, <2>1, <2>2, <2>5, <2>6 DEF BakeryExits
<1>19. ASSUME NEW w \in Workers, BakeryBreaks(w)
       PROVE  BakeInv'
  BY <1>19 DEF BakeryBreaks, Ended, Live
<1>20. ASSUME NEW w \in Workers, Interrupt(w)
       PROVE  BakeInv'
  BY <1>20 DEF Interrupt, Die
<1>21. ASSUME NEW w \in Workers, ReplaceWorker(w)
       PROVE  BakeInv'
  BY <1>21 DEF ReplaceWorker
<1>22. CASE NextRun
  BY <1>22 DEF NextRun
<1>23. CASE UNCHANGED vars
  BY <1>23 DEF vars
<1>24. QED
  BY <1>1, <1>2, <1>3, <1>4, <1>5, <1>6, <1>7, <1>8, <1>9, <1>10, <1>11,
     <1>12, <1>13, <1>14, <1>15, <1>16, <1>17, <1>18, <1>19, <1>20, <1>21,
     <1>22, <1>23
  DEF Next, WorkerStep, BakeryStep, CallStep, Crash

\* From the exit of run-bakery to the marker, what is passed on is complete and
\* of this run, and every marker stands for such a copy.
THEOREM BakeInvariant ==
  ASSUME ~OrphansSurvive
  PROVE  Spec => []BakeInv
<1>1. TypeInv /\ LockInv /\ BakeInv /\ [Next]_vars => BakeInv'
  BY BakePreserved
<1>2. QED
  BY <1>1, BakeInitially, TypeInvariant, LockInvariant, PTL DEF Spec

\* When no run-bakery outlives its worker, the lock file serializes the bakes:
\* the processes themselves, not only the sections that start them.
THEOREM Serialized ==
  ASSUME ~OrphansSurvive
  PROVE  Spec => []OneBakeAtATime
<1>1. LockInv /\ BakeInv => OneBakeAtATime
  BY DEF LockInv, BakeInv, OneBakeAtATime, Live, Holding
<1>2. QED
  BY <1>1, LockInvariant, BakeInvariant, PTL

\* Whatever bakes fail and workers end, the paths that bake_image and
\* bake_bundle returned keep pointing at complete files of this run.
THEOREM Served ==
  ASSUME ~OrphansSurvive
  PROVE  Spec => []ServedIsBaked
<1>1. BakeInv => ServedIsBaked
  BY DEF BakeInv, ServedIsBaked, Fresh
<1>2. QED
  BY <1>1, BakeInvariant, PTL

-----------------------------------------------------------------------------
(***************************************************************************)
(* Refinement.  What is on the store's shelf is marked and frozen, so only *)
(* the steps that touch markers or hand out paths are steps of the store,  *)
(* and what TouchMarker puts there is what a bake of this run can have.    *)
(***************************************************************************)

\* With orphans a copy can be broken: of the files nothing is promised then.
CopyInv == OrphansSurvive \/ BakeInv

LEMMA CopyInvariant == Spec => []CopyInv
<1>1. CASE OrphansSurvive
  <2>1. CopyInv
    BY <1>1 DEF CopyInv
  <2>2. QED
    BY <2>1, PTL
<1>2. CASE ~OrphansSurvive
  <2>1. Spec => []BakeInv
    BY <1>2, BakeInvariant
  <2>2. BakeInv => CopyInv
    BY DEF CopyInv
  <2>3. QED
    BY <2>1, <2>2, PTL
<1>3. QED
  BY <1>1, <1>2

\* What is put on the shelf when the marker of a copied artifact is touched.
LEMMA CopiedIsPublishable ==
  ASSUME TypeInv, LogInv, CopyInv, NEW w \in Workers, pc[w] = "copied"
  PROVE  [file |-> artifact[call[w]], log |-> log[call[w]]] \in Publishable[run]
<1>1. call[w] \in Artifacts /\ log[call[w]] = "full"
  BY DEF TypeInv, CopiesAreOfArtifacts, LogInv
<1>2. artifact[call[w]] \in Files /\ run \in 1..MaxRuns
  BY <1>1 DEF TypeInv, TypeOK
<1>3. OrphansSurvive \/ Fresh(artifact[call[w]])
  BY DEF CopyInv, BakeInv
<1>4. artifact[call[w]] \in {f \in Files :
        OrphansSurvive \/ (f.state = "whole" /\ f.run = run)}
  BY <1>2, <1>3 DEF Fresh
<1>5. QED
  BY <1>1, <1>2, <1>4 DEF Publishable

LEMMA StoreStep ==
  ASSUME TypeInv, LockInv, LogInv, CopyInv, [Next]_vars
  PROVE  [Store!Next]_(Store!storeVars)
<1> USE ConstantsAssumption DEF TypeInv, TypeOK, LockInv
<1>1. Store!available = markers
  BY DEF Store!available, Shelf
<1>2. ASSUME UNCHANGED <<run, markers>>
      PROVE  UNCHANGED Shelf
  BY <1>2, MarkedKept DEF Shelf
<1> DEFINE Stutter == UNCHANGED <<run, markers, got>>
<1>3. ASSUME Stutter
      PROVE  UNCHANGED Store!storeVars
  BY <1>2, <1>3 DEF Store!storeVars
<1>4. ASSUME NEW w \in Workers, NEW a \in markers, Hand(w, a),
             UNCHANGED <<run, markers>>
      PROVE  Store!Next
  <2>1. Store!HandOut(w, a)
    BY <1>1, <1>2, <1>4 DEF Hand, Store!HandOut
  <2>2. QED
    BY <2>1 DEF Store!Next
<1>5. ASSUME NEW w \in Workers, FoundBaked(w)
      PROVE  Store!Next
  BY <1>4, <1>5 DEF FoundBaked, Found, Baked
<1>6. ASSUME NEW w \in Workers, NEW a \in Artifacts, ReuseBaked(w, a)
      PROVE  Store!Next
  BY <1>4, <1>6 DEF ReuseBaked, Baked
<1>7. ASSUME NEW w \in Workers, TouchMarker(w)
      PROVE  Store!Next
  <2> DEFINE a == call[w]
             contents == [file |-> artifact[a], log |-> log[a]]
  <2>1. a \in Artifacts /\ a \notin markers
    BY <1>7 DEF TouchMarker, CopiesAreOfArtifacts
  <2>2. contents \in Publishable[run]
    BY <1>7, CopiedIsPublishable DEF TouchMarker
  <2>3. Shelf' = [b \in markers \cup {a} |->
                    IF b = a THEN contents ELSE Shelf[b]]
    BY <1>7, <2>1 DEF TouchMarker, Shelf
  <2>4. Store!Publish(w, a, contents)
    BY <1>1, <1>7, <2>1, <2>3 DEF TouchMarker, Hand, Store!Publish
  <2>5. QED
    BY <2>1, <2>2, <2>4 DEF Store!Next
<1>8. ASSUME NEW w \in Workers, ReplaceWorker(w)
      PROVE  Store!Next
  BY <1>2, <1>8 DEF ReplaceWorker, Store!Next, Store!Forget
<1>9. ASSUME NextRun
      PROVE  Store!Next
  <2>1. Shelf' = [a \in {} |-> a]
    BY <1>9 DEF NextRun, Shelf
  <2>2. QED
    BY <1>9, <2>1 DEF NextRun, Store!Next, Store!NextRun
<1>10. ASSUME NEW w \in Workers, WorkerStep(w)
       PROVE  Stutter \/ FoundBaked(w) \/ TouchMarker(w)
  BY <1>10 DEF WorkerStep, CreateWithoutParameters, WriteTmp, ReplaceParams,
     SpawnBakery, SpawnFails, LogFails, BakerySucceeded, BakeryFailed,
     OpenCopy, CopyFails, CompleteCopy
<1>11. ASSUME NEW w \in Workers,
              AcquireLock(w) \/ BakeryStep(w) \/ Interrupt(w) \/ Crash(w)
       PROVE  Stutter
  BY <1>11 DEF AcquireLock, BakeryStep, BakeryStarts, BakeryExits,
     BakeryBreaks, Interrupt, Crash
<1>12. ASSUME NEW w \in Workers, NEW a \in Artifacts \cup {NoArtifact},
              QueueForLock(w, a)
       PROVE  Stutter
  BY <1>12 DEF QueueForLock
<1>13. CASE UNCHANGED vars
  BY <1>3, <1>13 DEF vars
<1>14. QED
  BY <1>3, <1>5, <1>6, <1>7, <1>8, <1>9, <1>10, <1>11, <1>12, <1>13
  DEF Next, CallStep

\* Every behaviour of the builder is one of the artifact store, whatever fails
\* and whoever is interrupted or killed: an artifact is published at most once
\* per run, with a complete log, is neither changed nor withdrawn before the
\* run ends, and nothing else is ever handed to a test.  Its copy is complete
\* and of this run too, unless an orphan may have spoilt it.
THEOREM Implements == Spec => ImplementsStore
<1>1. Init => Store!Init
  BY DEF Init, Store!Init, Shelf
<1>2. TypeInv /\ LockInv /\ LogInv /\ CopyInv /\ [Next]_vars =>
        [Store!Next]_(Store!storeVars)
  BY StoreStep
<1>3. QED
  BY <1>1, <1>2, TypeInvariant, LockInvariant, LogInvariant, CopyInvariant,
     PTL
  DEF Spec, ImplementsStore, Store!Spec

-----------------------------------------------------------------------------
(***************************************************************************)
(* The parameter file, orphans or not.                                     *)
(***************************************************************************)

\* The builders of a run get one fixture's parameters, if any.
OneParameterSet ==
  \A v, w \in Workers :
    \/ ParametersOf[v] = ParametersOf[w]
    \/ NoParams \in {ParametersOf[v], ParametersOf[w]}

\* The file has the content that the worker wants there, if it wants one.
Written(w) == ParametersOf[w] # NoParams => paramFile = ParametersOf[w]

\* The file is written before the first bake, and later writers write the same.
ParamInv ==
  \A w \in Workers :
    /\ pc[w] = "replacing" => ParametersOf[w] # NoParams
    /\ pc[w] \in Holding \cup {"idle", "waiting"} => Written(w)
    /\ proc[w].phase # "none" => Written(w)
    /\ proc[w].phase \in {"writing", "exited"} =>
         proc[w].params = ParametersOf[w]

LEMMA ParamPreserved ==
  ASSUME OneParameterSet, TypeInv, ParamInv, [Next]_vars
  PROVE  ParamInv'
<1> USE ConstantsAssumption
    DEF TypeInv, TypeOK, ParamInv, Written, Holding, NoProc
<1>1. ASSUME NEW w \in Workers,
             CreateWithoutParameters(w) \/ WriteTmp(w)
      PROVE  ParamInv'
  BY <1>1 DEF CreateWithoutParameters, WriteTmp
<1>2. ASSUME NEW w \in Workers, ReplaceParams(w)
      PROVE  ParamInv'
  <2>1. /\ paramFile' = ParametersOf[w]
        /\ pc[w] = "replacing" /\ ParametersOf[w] # NoParams
        /\ pc' = [pc EXCEPT ![w] = "idle"]
        /\ proc' = proc
    BY <1>2 DEF ReplaceParams
  <2>2. \A v \in Workers : Written(v)'
    BY <2>1 DEF OneParameterSet
  <2>3. QED
    BY <2>1, <2>2
<1>3. ASSUME NEW w \in Workers, CallStep(w) \/ AcquireLock(w) \/ FoundBaked(w)
      PROVE  ParamInv'
  <2>1. UNCHANGED <<paramFile, proc>>
    BY <1>3 DEF CallStep, ReuseBaked, QueueForLock, AcquireLock, FoundBaked
  <2>2. /\ pc[w] \in {"idle", "waiting", "locked"}
        /\ \/ pc' = pc
           \/ \E at \in {"idle", "waiting", "locked"} :
                pc' = [pc EXCEPT ![w] = at]
    BY <1>3 DEF CallStep, ReuseBaked, QueueForLock, AcquireLock, FoundBaked,
       Release
  <2>3. QED
    BY <2>1, <2>2
<1>4. ASSUME NEW w \in Workers, SpawnBakery(w)
      PROVE  ParamInv'
  <2>1. /\ pc[w] = "locked" /\ pc' = [pc EXCEPT ![w] = "baking"]
        /\ UNCHANGED paramFile
        /\ proc'[w].phase = "spawned"
        /\ \A v \in Workers \ {w} :
             proc'[v].phase = proc[v].phase /\ proc'[v].params = proc[v].params
    BY <1>4 DEF SpawnBakery, Procs
  <2>2. QED
    BY <2>1
<1>5. ASSUME NEW w \in Workers,
             \/ SpawnFails(w) \/ LogFails(w) \/ BakerySucceeded(w)
             \/ BakeryFailed(w)
      PROVE  ParamInv'
  BY <1>5 DEF SpawnFails, LogFails, BakerySucceeded, BakeryFailed, Release
<1>6. ASSUME NEW w \in Workers,
             \/ OpenCopy(w) \/ CopyFails(w) \/ CompleteCopy(w)
             \/ TouchMarker(w)
      PROVE  ParamInv'
  BY <1>6 DEF OpenCopy, CopyFails, CompleteCopy, TouchMarker, Release
<1>7. ASSUME NEW w \in Workers, BakeryStarts(w)
      PROVE  ParamInv'
  <2>1. /\ proc[w].phase = "spawned" /\ UNCHANGED <<paramFile, pc>>
        /\ proc'[w].phase = "writing"
        /\ proc'[w].params = ParamFile(w)
        /\ \A v \in Workers \ {w} : proc'[v] = proc[v]
    BY <1>7 DEF BakeryStarts, Procs
  <2>2. ParamFile(w) = ParametersOf[w]
    BY <2>1 DEF ParamFile
  <2>3. QED
    BY <2>1, <2>2
<1>8. ASSUME NEW w \in Workers, BakeryExits(w) \/ BakeryBreaks(w)
      PROVE  ParamInv'
  <2>1. /\ UNCHANGED <<paramFile, pc>>
        /\ \A v \in Workers \ {w} : proc'[v] = proc[v]
        /\ proc[w].phase \in {"spawned", "writing"}
        /\ \/ proc'[w] = NoProc
           \/ proc'[w] = [proc[w] EXCEPT !.phase = "failed"]
           \/ /\ proc[w].phase = "writing"
              /\ proc'[w] = [proc[w] EXCEPT !.phase = "exited"]
    BY <1>8 DEF BakeryExits, BakeryBreaks, Ended, Live
  <2>2. proc[w] \in Procs
    OBVIOUS
  <2>3. /\ proc'[w].phase = "exited" => /\ proc[w].phase = "writing"
                                        /\ proc'[w].params = proc[w].params
        /\ proc'[w].phase \in {"none", "failed", "exited"}
    BY <2>1, <2>2 DEF Procs
  <2>4. QED
    BY <2>1, <2>3
<1>9. ASSUME NEW w \in Workers, Interrupt(w) \/ Crash(w)
      PROVE  ParamInv'
  BY <1>9 DEF Interrupt, Crash, Die
<1>10. ASSUME NEW w \in Workers, ReplaceWorker(w)
       PROVE  ParamInv'
  BY <1>10 DEF ReplaceWorker
<1>11. CASE NextRun
  BY <1>11 DEF NextRun, Live
<1>12. CASE UNCHANGED vars
  BY <1>12 DEF vars
<1>13. QED
  BY <1>1, <1>2, <1>3, <1>4, <1>5, <1>6, <1>7, <1>8, <1>9, <1>10, <1>11,
     <1>12
  DEF Next, WorkerStep, BakeryStep

\* If the builders of a run have the same parameters or none, every bake uses
\* those of its own builder: also the bakes of the previous run's orphans, and
\* although any builder may replace the file under any bake.
THEOREM OwnParameters ==
  ASSUME OneParameterSet
  PROVE  Spec => []BakedWithOwnParameters
<1>1. Init => ParamInv
  <2> SUFFICES ASSUME Init, NEW w \in Workers
               PROVE  pc[w] = "new" /\ proc[w].phase = "none"
    BY DEF ParamInv, Holding
  <2>1. QED
    BY DEF Init, NoProc
<1>2. TypeInv /\ ParamInv /\ [Next]_vars => ParamInv'
  BY ParamPreserved
<1>3. ParamInv => BakedWithOwnParameters
  BY DEF ParamInv, BakedWithOwnParameters
<1>4. QED
  BY <1>1, <1>2, <1>3, TypeInvariant, PTL DEF Spec
=============================================================================
