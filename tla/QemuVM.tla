-------------------------------- MODULE QemuVM --------------------------------
(***************************************************************************)
(* QemuVM (src/rugix_testkit/qemu/vm.py): a test starts and stops a QEMU   *)
(* process and waits for text on its serial console, while one thread per  *)
(* started process copies the console from the pipe to `_serial_log'.      *)
(*                                                                         *)
(* Boots number the processes started.  The i-th chunk printed by boot g   *)
(* is the pair <<g, i>>; every boot prints the same texts, i names the one *)
(* in the i-th chunk.  A chunk is what one os.read returns.                *)
(***************************************************************************)
EXTENDS Naturals, Sequences, FiniteSets

CONSTANTS
  MaxStarts,    \* bound on the calls of start
  MaxChunks,    \* bound on the chunks that one boot prints
  Awaited,      \* texts that the test waits for, by their number
  PipeSize,     \* chunks that fit into the pipe
  Descriptors,  \* numbers that the stdout pipe of a process can get
  KillFails     \* can a killed process outlast the 5 s that stop waits?

ASSUME ConstantsAssumption ==
  /\ MaxStarts \in Nat \ {0}
  /\ MaxChunks \in Nat
  /\ Awaited \subseteq 1..MaxChunks
  /\ PipeSize \in Nat \ {0}
  /\ IF KillFails THEN Cardinality(Descriptors) >= MaxStarts
     ELSE Descriptors # {}
  /\ KillFails \in BOOLEAN

VARIABLES
  starts,     \* number of calls of start
  process,    \* _process: the boot, 0 for None
  stopEvent,  \* _stop_event
  serialLog,  \* _serial_log
  reader,     \* the _read_serial thread of each boot
  pc,         \* where the test's thread is
  wanted,     \* the text that wait_for_serial waits for
  answer,     \* how the last wait_for_serial ended
  qemu,       \* state of each process
  printed,    \* number of chunks that each process has printed
  taken,      \* number of chunks that were read from its pipe
  fd,         \* number of this end of its pipe
  open        \* boots whose pipe is open on this end

qemuVars == <<qemu, printed, taken, fd, open>>
vars == <<starts, process, stopEvent, serialLog, reader, pc, wanted, answer,
          qemu, printed, taken, fd, open>>

Boots == 1..MaxStarts
Texts == 1..MaxChunks
NoChunk == <<0, 0>>
Alive(g) == qemu[g] \in {"running", "quitting", "killed"}

NoReader == [at |-> "none", fd |-> 0, pipe |-> 0, chunk |-> NoChunk]

\* The reader of boot r becomes x.
Becomes(r, x) == reader' = [reader EXCEPT ![r] = x]

Captured(t) == \E i \in DOMAIN serialLog : serialLog[i][2] = t

Init ==
  /\ starts = 0
  /\ process = 0
  /\ stopEvent = "clear"
  /\ serialLog = <<>>
  /\ reader = [r \in Boots |-> NoReader]
  /\ pc = "idle"
  /\ wanted = 0
  /\ answer = "none"
  /\ qemu = [g \in Boots |-> "none"]
  /\ printed = [g \in Boots |-> 0]
  /\ taken = [g \in Boots |-> 0]
  /\ fd = [g \in Boots |-> 0]
  /\ open = {}

-----------------------------------------------------------------------------
(***************************************************************************)
(* start and stop, called by the test's thread.                            *)
(***************************************************************************)

\* Popen takes a free number for the pipe; it first reaps the processes that
\* stop gave up on and that have ended since.
StillOpen == {g \in open : Alive(g)}

\* The event and the log are reset, the process and its reader are started.
\* Callers stop a VM before they start it again.
KeptLog == serialLog                                           \* mutant
ClearedLog == <<>>

Start ==
  /\ pc = "idle"
  /\ process = 0
  /\ starts < MaxStarts
  /\ starts' = starts + 1
  /\ process' = starts'
  /\ stopEvent' = "clear"
  /\ serialLog' = ClearedLog
  /\ Becomes(starts', [NoReader EXCEPT !.at = "begin"])
  /\ answer' = "none"
  /\ qemu' = [qemu EXCEPT ![starts'] = "running"]
  /\ open' = StillOpen \cup {starts'}
  /\ \E n \in Descriptors \ {fd[g] : g \in StillOpen} :
       fd' = [fd EXCEPT ![starts'] = n]
  /\ UNCHANGED <<pc, wanted, printed, taken>>

\* Popen raises: the event and the log have been reset all the same.
StartFails ==
  /\ pc = "idle"
  /\ process = 0
  /\ starts < MaxStarts
  /\ starts' = starts + 1
  /\ stopEvent' = "clear"
  /\ serialLog' = ClearedLog
  /\ answer' = "none"
  /\ UNCHANGED <<process, reader, pc, wanted, qemuVars>>

\* stop: the event is set and Ctrl-A X written, which a dead QEMU ignores.
Stop ==
  /\ pc = "idle"
  /\ process # 0
  /\ stopEvent' = "set"
  /\ qemu' = [qemu EXCEPT ![process] = IF @ = "running" THEN "quitting" ELSE @]
  /\ answer' = "none"
  /\ pc' = "stopping"
  /\ UNCHANGED <<starts, process, serialLog, reader, wanted, printed, taken,
                 fd, open>>

\* wait returns; with the last reference to the process its pipe is closed.
StopDone ==
  /\ pc \in {"stopping", "killing"}
  /\ ~Alive(process)
  /\ process' = 0
  /\ open' = open \ {process}
  /\ pc' = "idle"
  /\ UNCHANGED <<starts, stopEvent, serialLog, reader, wanted, answer, qemu,
                 printed, taken, fd>>

\* QEMU is still there after the timeout: kill.
StopNeverKills == FALSE                                        \* mutant
StopKills ==
  /\ pc = "stopping"
  /\ Alive(process)
  /\ qemu' = [qemu EXCEPT ![process] = "killed"]
  /\ pc' = "killing"
  /\ UNCHANGED <<starts, process, stopEvent, serialLog, reader, wanted, answer,
                 printed, taken, fd, open>>

\* QEMU is still there 5 s later: log an error and forget it.
StopGivesUpUnkilled ==                                         \* mutant
  /\ pc = "stopping"
  /\ process' = 0
  /\ pc' = "idle"
  /\ UNCHANGED <<starts, stopEvent, serialLog, reader, wanted, answer, qemuVars>>

StopGivesUp ==
  /\ KillFails
  /\ pc = "killing"
  /\ Alive(process)
  /\ process' = 0
  /\ pc' = "idle"
  /\ UNCHANGED <<starts, stopEvent, serialLog, reader, wanted, answer, qemuVars>>

-----------------------------------------------------------------------------
(***************************************************************************)
(* wait_for_serial: the output is read, then the process is polled.        *)
(***************************************************************************)

WaitForSerial(t) ==
  /\ pc = "idle"
  /\ pc' = "looking"
  /\ wanted' = t
  /\ answer' = "none"
  /\ UNCHANGED <<starts, process, stopEvent, serialLog, reader, qemuVars>>

Finish(a) == answer' = a /\ pc' = "idle"

Look ==
  /\ pc = "looking"
  /\ \/ Captured(wanted) /\ Finish("found")
     \/ ~Captured(wanted) /\ pc' = "polling" /\ UNCHANGED answer
  /\ UNCHANGED <<starts, process, stopEvent, serialLog, reader, wanted,
                 qemuVars>>

\* A process that has exited ends the wait, otherwise it goes on after 0.1 s.
Poll ==
  /\ pc = "polling"
  /\ IF process # 0 /\ ~Alive(process)
     THEN Finish("exited")
     ELSE pc' = "looking" /\ UNCHANGED answer
  /\ UNCHANGED <<starts, process, stopEvent, serialLog, reader, wanted,
                 qemuVars>>

\* The timeout is over when the loop comes round.
Deadline ==
  /\ pc = "looking"
  /\ Finish("deadline")
  /\ UNCHANGED <<starts, process, stopEvent, serialLog, reader, wanted,
                 qemuVars>>

-----------------------------------------------------------------------------
(***************************************************************************)
(* _read_serial, one thread per boot; no thread is ever joined.            *)
(***************************************************************************)

Move(r, at) == Becomes(r, [NoReader EXCEPT !.at = at, !.fd = reader[r].fd])

End(r, at) == Becomes(r, [NoReader EXCEPT !.at = at])

\* The thread looks up the process that is the current one when it first
\* runs, and asserts that there is one.
ReaderBegins(r) ==
  /\ reader[r].at = "begin"
  /\ IF process = 0
     THEN End(r, "asserted")
     ELSE Becomes(r, [NoReader EXCEPT !.at = "check", !.fd = fd[process]])
  /\ UNCHANGED <<starts, process, stopEvent, serialLog, pc, wanted, answer,
                 qemuVars>>

ReaderChecksProcess(r) ==                                      \* mutant
  /\ reader[r].at = "check"
  /\ IF process = 0 \/ ~Alive(process) THEN End(r, "done") ELSE Move(r, "enter")
  /\ UNCHANGED <<starts, process, stopEvent, serialLog, pc, wanted, answer,
                 qemuVars>>

ReaderChecks(r) ==
  /\ reader[r].at = "check"
  /\ IF stopEvent = "set" THEN End(r, "done") ELSE Move(r, "enter")
  /\ UNCHANGED <<starts, process, stopEvent, serialLog, pc, wanted, answer,
                 qemuVars>>

\* os.read(fd, 4096) reads whatever pipe has this number now; with none, it
\* raises an OSError that ends the thread.
ReaderEnters(r) ==
  /\ reader[r].at = "enter"
  /\ LET pipes == {g \in open : fd[g] = reader[r].fd}
     IN  \/ /\ pipes = {}
            /\ End(r, "done")
         \/ \E g \in pipes :
              Becomes(r, [reader[r] EXCEPT !.at = "reading", !.pipe = g])
  /\ UNCHANGED <<starts, process, stopEvent, serialLog, pc, wanted, answer,
                 qemuVars>>

ReaderReadsAtEnd(r) ==                                         \* mutant
  /\ reader[r].at = "reading"
  /\ LET g == reader[r].pipe
     IN  /\ taken[g] < printed[g] \/ ~Alive(g)
         /\ taken' = [taken EXCEPT ![g] = @ + 1]
         /\ Becomes(r, [reader[r] EXCEPT !.at = "append",
                                         !.chunk = <<g, taken'[g]>>])
  /\ UNCHANGED <<starts, process, stopEvent, serialLog, pc, wanted, answer,
                 qemu, printed, fd, open>>

ReaderReads(r) ==
  /\ reader[r].at = "reading"
  /\ LET g == reader[r].pipe
     IN  /\ taken[g] < printed[g]
         /\ taken' = [taken EXCEPT ![g] = @ + 1]
         /\ Becomes(r, [reader[r] EXCEPT !.at = "append",
                                         !.chunk = <<g, taken'[g]>>])
  /\ UNCHANGED <<starts, process, stopEvent, serialLog, pc, wanted, answer,
                 qemu, printed, fd, open>>

\* The writing end is closed and the pipe is empty.
ReaderAtEnd(r) ==
  /\ reader[r].at = "reading"
  /\ LET g == reader[r].pipe IN taken[g] = printed[g] /\ ~Alive(g)
  /\ End(r, "done")
  /\ UNCHANGED <<starts, process, stopEvent, serialLog, pc, wanted, answer,
                 qemuVars>>

ReaderSkipsUndecodable(r) ==                                   \* mutant
  /\ reader[r].at = "append"
  /\ \/ serialLog' = Append(serialLog, reader[r].chunk)
     \/ UNCHANGED serialLog
  /\ Move(r, "check")
  /\ UNCHANGED <<starts, process, stopEvent, pc, wanted, answer, qemuVars>>

ReaderRetries(r) ==                                            \* mutant
  /\ reader[r].at = "append"
  /\ serialLog' = Append(serialLog, reader[r].chunk)
  /\ Move(r, "check") \/ UNCHANGED reader
  /\ UNCHANGED <<starts, process, stopEvent, pc, wanted, answer, qemuVars>>

ReaderAppends(r) ==
  /\ reader[r].at = "append"
  /\ serialLog' = Append(serialLog, reader[r].chunk)
  /\ Move(r, "check")
  /\ UNCHANGED <<starts, process, stopEvent, pc, wanted, answer, qemuVars>>

-----------------------------------------------------------------------------
(***************************************************************************)
(* The QEMU process, from how vm.py uses it.                               *)
(***************************************************************************)

\* The guest prints while there is room in the pipe.
QemuPrints(g) ==
  /\ qemu[g] \in {"running", "quitting"}
  /\ printed[g] < MaxChunks
  /\ printed[g] - taken[g] < PipeSize
  /\ printed' = [printed EXCEPT ![g] = @ + 1]
  /\ UNCHANGED <<starts, process, stopEvent, serialLog, reader, pc, wanted,
                 answer, qemu, taken, fd, open>>

\* It ends: a poweroff, a crash, Ctrl-A X or the kill.
QemuExits(g) ==
  /\ Alive(g)
  /\ qemu' = [qemu EXCEPT ![g] = "dead"]
  /\ UNCHANGED <<starts, process, stopEvent, serialLog, reader, pc, wanted,
                 answer, printed, taken, fd, open>>

-----------------------------------------------------------------------------
ReaderStep(r) ==
  \/ ReaderBegins(r)
  \/ ReaderChecks(r)
  \/ ReaderEnters(r)
  \/ ReaderReads(r)
  \/ ReaderAtEnd(r)
  \/ ReaderAppends(r)

\* The test's thread goes on by itself inside stop and wait_for_serial.
StopStep == StopDone \/ StopKills \/ StopGivesUp
WaitStep == Look \/ Poll

Next ==
  \/ Start \/ StartFails
  \/ Stop \/ StopStep
  \/ (\E t \in Awaited : WaitForSerial(t)) \/ WaitStep \/ Deadline
  \/ \E r \in Boots : ReaderStep(r)
  \/ \E g \in Boots : QemuPrints(g) \/ QemuExits(g)

Spec == Init /\ [][Next]_vars

\* Threads run, and time passes: a wait that comes round for ever meets its
\* deadline.  A killed process ends unless KillFails.
Fairness ==
  /\ WF_vars(StopStep)
  /\ WF_vars(WaitStep)
  /\ SF_vars(Deadline)
  /\ \A r \in Boots : WF_vars(ReaderStep(r))
  /\ \A g \in Boots : WF_vars(qemu[g] = "killed" /\ QemuExits(g))

FairSpec == Spec /\ Fairness

-----------------------------------------------------------------------------
Chunks == Boots \X Texts

Readers == [at: {"none", "begin", "check", "enter", "reading", "append",
                 "done", "asserted"},
            fd: Descriptors \cup {0}, pipe: Boots \cup {0},
            chunk: Chunks \cup {NoChunk}]

TypeOK ==
  /\ starts \in 0..MaxStarts
  /\ process \in 0..MaxStarts
  /\ stopEvent \in {"clear", "set"}
  /\ serialLog \in Seq(Chunks)
  /\ reader \in [Boots -> Readers]
  /\ pc \in {"idle", "stopping", "killing", "looking", "polling"}
  /\ wanted \in Texts \cup {0}
  /\ answer \in {"none", "found", "exited", "deadline"}
  /\ qemu \in [Boots -> {"none", "running", "quitting", "killed", "dead"}]
  /\ printed \in [Boots -> 0..MaxChunks]
  /\ taken \in [Boots -> 0..MaxChunks]
  /\ fd \in [Boots -> Descriptors \cup {0}]
  /\ open \subseteq Boots

\* "Captured serial console output": until a VM is started again, the log is
\* what QEMU printed from the first chunk on, in order and without gaps,
\* whenever stop is called or QEMU exits.
CapturedInOrder ==
  starts = 1 => \A i \in DOMAIN serialLog : serialLog[i] = <<1, i>>

\* No reader is joined, so a reader of an earlier boot may append to the log
\* of the current one; each of them adds at most one chunk of an earlier boot,
\* unless a process that stop gave up on was still there at the last start.
Stale == {i \in DOMAIN serialLog : serialLog[i][1] # starts}

StaleOutputIsBounded ==
  open \subseteq {starts} => Stale = {} \/ Cardinality(Stale) < starts

\* However many readers of however many boots append to the log, and whichever
\* of them share a pipe: nothing is in the log that was not printed, and
\* nothing is in it twice.
CapturedOnce ==
  \A i \in DOMAIN serialLog :
    /\ serialLog[i][2] <= printed[serialLog[i][1]]
    /\ \A j \in DOMAIN serialLog : serialLog[i] = serialLog[j] => i = j

\* A process that _process no longer refers to has ended or has a SIGKILL
\* pending: stop and start leave no VM running.
NoStrayQemu ==
  \A g \in Boots : g # process => qemu[g] \in {"none", "killed", "dead"}

\* stop and wait_for_serial come to an end, also when QEMU neither answers nor
\* exits and when its pipe is full because the reader has already ended.
CallsReturn == pc # "idle" ~> pc = "idle"

\* Whatever the process has printed ends up in the log unless the VM is
\* stopped first: also what is still in the pipe when QEMU exits.
AllIsCaptured ==
  \A i \in Texts :
    process # 0 /\ printed[process] >= i /\ stopEvent = "clear"
      ~> \/ process = 0
         \/ stopEvent = "set"
         \/ \E k \in DOMAIN serialLog : serialLog[k] = <<process, i>>

\* wait_for_serial gives up early, with "serial output did not contain",
\* only if the text is not in the output.
GivesUpOnlyInVain == answer = "exited" => ~Captured(wanted)
=============================================================================
