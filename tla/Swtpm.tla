--------------------------------- MODULE Swtpm ---------------------------------
(***************************************************************************)
(* SwtpmProcess of qemu/efi.py: the context manager that starts an         *)
(* emulated TPM in a directory of its own, waits for its control socket,   *)
(* and stops it, against the swtpm process.                                *)
(***************************************************************************)
VARIABLES
  tpmAt,      \* where the with statement is
  tpmDir,     \* does the directory of the TPM exist?
  tpm,        \* the process: it binds its socket before it listens on it
  tpmSignal   \* the last signal that it was sent

tpmVars == <<tpmAt, tpmDir, tpm, tpmSignal>>

TpmRuns == tpm \in {"starting", "bound", "listening"}
Socket == tpm \in {"bound", "listening", "left"}

TpmInit ==
  /\ tpmAt = "out"
  /\ tpmDir = FALSE
  /\ tpm = "none"
  /\ tpmSignal = "none"

TpmGoes(from, to) == tpmAt = from /\ tpmAt' = to

\* __enter__ up to Popen: swtpm_setup has made the state of the TPM.
TpmStart ==
  /\ TpmGoes("out", "waiting")
  /\ tpmDir' = TRUE
  /\ tpm' = "starting"
  /\ UNCHANGED tpmSignal

\* swtpm_setup or Popen raises; __exit__ is not called after that.
TpmStartFails ==
  /\ TpmGoes("out", "raised")
  /\ tpmDir' = TRUE
  /\ UNCHANGED <<tpm, tpmSignal>>

TpmReadyUnseen ==                                              \* mutant
  /\ TpmGoes("waiting", "in")
  /\ TpmRuns
  /\ UNCHANGED <<tpmDir, tpm, tpmSignal>>

\* A round of the loop: first a look for the socket, then one at the process.
TpmReady ==
  /\ TpmGoes("waiting", "in")
  /\ Socket
  /\ UNCHANGED <<tpmDir, tpm, tpmSignal>>

TpmExited ==
  /\ TpmGoes("waiting", "raised")
  /\ tpm = "dead"
  /\ UNCHANGED <<tpmDir, tpm, tpmSignal>>

TpmTimesOut ==
  /\ TpmGoes("waiting", "timedOut")
  /\ UNCHANGED <<tpmDir, tpm, tpmSignal>>

\* __exit__
TpmExit ==
  /\ TpmGoes("in", IF TpmRuns THEN "terminating" ELSE "closing")
  /\ tpmSignal' = IF TpmRuns THEN "TERM" ELSE tpmSignal
  /\ UNCHANGED <<tpmDir, tpm>>

TpmWaited ==
  /\ tpmAt \in {"terminating", "killing"} /\ tpmAt' = "closing"
  /\ ~TpmRuns
  /\ UNCHANGED <<tpmDir, tpm, tpmSignal>>

TpmGivesUp ==                                                  \* mutant
  /\ TpmGoes("terminating", "closing")
  /\ UNCHANGED <<tpmDir, tpm, tpmSignal>>

TpmKill ==
  /\ TpmGoes("terminating", "killing")
  /\ TpmRuns
  /\ tpmSignal' = "KILL"
  /\ UNCHANGED <<tpmDir, tpm>>

\* The second wait raises TimeoutExpired out of __exit__.
TpmExitRaises ==
  /\ TpmGoes("killing", "exitRaised")
  /\ TpmRuns
  /\ UNCHANGED <<tpmDir, tpm, tpmSignal>>

TpmClose ==
  /\ TpmGoes("closing", "closed")
  /\ tpmDir' = FALSE
  /\ UNCHANGED <<tpm, tpmSignal>>

\* The finalizer of a TemporaryDirectory that nobody refers to any more.
TpmCollected ==
  /\ tpmAt \in {"raised", "timedOut", "exitRaised"}
  /\ tpmDir /\ tpmDir' = FALSE
  /\ UNCHANGED <<tpmAt, tpm, tpmSignal>>

\* swtpm, from how the testkit uses it: the socket exists when it is bound, and
\* may be there still when the process is dead.
TpmBinds ==
  /\ \/ tpm = "starting" /\ tpm' = "bound"
     \/ tpm = "bound" /\ tpm' = "listening"
  /\ UNCHANGED <<tpmAt, tpmDir, tpmSignal>>

TpmDies ==
  /\ TpmRuns
  /\ tpm' \in (IF Socket THEN {"dead", "left"} ELSE {"dead"})
  /\ UNCHANGED <<tpmAt, tpmDir, tpmSignal>>

TpmEnter == TpmStart \/ TpmStartFails
TpmWaits ==
  \/ TpmReady \/ TpmExited \/ TpmTimesOut
  \/ TpmWaited \/ TpmKill \/ TpmExitRaises \/ TpmClose
TpmProcess == TpmBinds \/ TpmDies

TpmNext == TpmEnter \/ TpmWaits \/ TpmExit \/ TpmCollected \/ TpmProcess

TpmSpec == TpmInit /\ [][TpmNext]_tpmVars

-----------------------------------------------------------------------------
TpmTypeOK ==
  /\ tpmAt \in {"out", "waiting", "in", "terminating", "killing", "closing",
                "closed", "raised", "timedOut", "exitRaised"}
  /\ tpmDir \in BOOLEAN
  /\ tpm \in {"none", "starting", "bound", "listening", "dead", "left"}
  /\ tpmSignal \in {"none", "TERM", "KILL"}

\* "Use it as a context manager so that the TPM and its state are removed": after
\* the with statement, however it went, the process is dead, or was killed and
\* is too slow to die, and its directory goes.  The one exception is an
\* __enter__ that times out: it has started swtpm and never stops it.
NoTpmLeft ==
  /\ tpmAt \in {"closed", "raised"} => ~TpmRuns
  /\ tpmAt = "closed" => ~tpmDir
  /\ tpmAt = "exitRaised" => tpmSignal = "KILL" \/ ~TpmRuns
=============================================================================
