----------------------------- MODULE VMLifecycle -----------------------------
(***************************************************************************)
(* The life of one VM, whoever holds it and however its start, its test or *)
(* its QEMU end: QEMU is launched once, in a work directory that exists,   *)
(* and never again after the VM was given up; a VM that its holder closes, *)
(* or whose start is undone, takes both QEMU and the directory with it.    *)
(*                                                                         *)
(* It is what TestSession relies on of each of its VMs, and what VMHandle  *)
(* does with its one.                                                      *)
(***************************************************************************)
VARIABLES
  life,      \* none, new, starting, ready, gone or abandoned
  running,   \* is there a QEMU process that neither ended nor was killed?
  held       \* does the work directory exist?

lifeVars == <<life, running, held>>

Init ==
  /\ life \in {"none", "new"}
  /\ running = FALSE
  /\ held = (life = "new")

Goes(from, to) == life \in from /\ life' = to

Create ==
  /\ Goes({"none"}, "new")
  /\ held' = TRUE
  /\ UNCHANGED running

\* A start that waits for nothing is over when QEMU runs.
Launch ==
  /\ \E to \in {"starting", "ready"} : Goes({"new"}, to)
  /\ running' = TRUE
  /\ UNCHANGED held

Started ==
  /\ Goes({"starting"}, "ready")
  /\ UNCHANGED <<running, held>>

Release(from) ==
  /\ Goes(from, "gone")
  /\ running' = FALSE
  /\ held' = FALSE

Undo == Release({"starting"})
Close == Release({"ready", "abandoned"})

\* A start that raises, or is interrupted, where nothing undoes it.
Abandon ==
  /\ Goes({"none", "new", "starting"}, "abandoned")
  /\ held' = TRUE
  /\ UNCHANGED running

Die ==
  /\ running
  /\ running' = FALSE
  /\ UNCHANGED <<life, held>>

\* The next test of the worker has VMs and directories of its own.  What an
\* abandoned start has left behind is nobody's any more.
Forget ==
  /\ Goes({"gone", "abandoned"}, "none")
  /\ running' = FALSE
  /\ held' = FALSE

Next ==
  \/ Create \/ Launch \/ Started \/ Undo \/ Close \/ Abandon
  \/ Die \/ Forget

Spec == Init /\ [][Next]_lifeVars
=============================================================================
