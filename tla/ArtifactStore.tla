---------------------------- MODULE ArtifactStore ----------------------------
(***************************************************************************)
(* What BakeryBuilder promises to the tests, without locks, launchers,     *)
(* files or failures: in a test run every artifact is published at most    *)
(* once, with contents that a bake of this run can have, keeps them to the *)
(* end of the run, and tests are only handed artifacts that are there.     *)
(***************************************************************************)
EXTENDS Naturals

CONSTANTS
  Workers, Artifacts, MaxRuns,
  Publishable   \* the contents that can be published in each run

VARIABLES
  run,     \* number of the current test run
  shelf,   \* the contents of the artifacts of this run that can be used
  handed   \* artifacts handed to the tests of each worker

storeVars == <<run, shelf, handed>>

available == DOMAIN shelf

Init ==
  /\ run = 1
  /\ shelf = [a \in {} |-> a]
  /\ handed = [w \in Workers |-> {}]

\* The worker that bakes an artifact is the first one to get it.
Publish(w, a, contents) ==
  /\ a \notin available
  /\ shelf' = [b \in available \cup {a} |->
                 IF b = a THEN contents ELSE shelf[b]]
  /\ handed' = [handed EXCEPT ![w] = @ \cup {a}]
  /\ UNCHANGED run

HandOut(w, a) ==
  /\ a \in available
  /\ handed' = [handed EXCEPT ![w] = @ \cup {a}]
  /\ UNCHANGED <<run, shelf>>

\* A replacement worker starts without artifacts.
Forget(w) ==
  /\ handed' = [handed EXCEPT ![w] = {}]
  /\ UNCHANGED <<run, shelf>>

NextRun ==
  /\ run < MaxRuns
  /\ run' = run + 1
  /\ shelf' = [a \in {} |-> a]
  /\ handed' = [w \in Workers |-> {}]

Next ==
  \/ \E w \in Workers :
       \/ \E a \in Artifacts, contents \in Publishable[run] :
            Publish(w, a, contents)
       \/ \E a \in Artifacts : HandOut(w, a)
       \/ Forget(w)
  \/ NextRun

Spec == Init /\ [][Next]_storeVars
=============================================================================
