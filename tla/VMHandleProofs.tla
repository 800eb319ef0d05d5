---------------------------- MODULE VMHandleProofs ----------------------------
(***************************************************************************)
(* Proofs about VMHandle for every number of calls and boots, and, unless  *)
(* an assumption is named, for every way in which the guest, its QEMU and  *)
(* its connections may fail.                                               *)
(***************************************************************************)
EXTENDS VMHandle, SequenceTheorems, TLAPS

LEMMA Bounds ==
  /\ MaxCalls \in Nat
  /\ MaxBoots \in Nat \ {0}
  BY ConstantsAssumption, Zenon

\* The guest has booted unless it is off, and a command that is under way
\* belongs to a call and went out over a connection.
Underway ==
  /\ phase # "off" => boot # 0
  /\ pc \in {"sending", "answering"} => calls # 0 /\ op # "start"
  /\ pc = "answering" => conn # 0
  /\ pc = "failed" => op # "start"
  /\ pc = "new" => op = "start"

TypeInv == TypeOK /\ Underway

LEMMA TypeStep ==
  ASSUME TypeInv, [Next]_vars
  PROVE  TypeInv'
<1> USE Bounds DEF TypeInv, TypeOK, Underway, Finished
<1>1. CASE Start
  BY <1>1 DEF Start, log
<1>2. CASE SetupFails \/ Interrupted
  BY <1>2 DEF SetupFails, Interrupted, guest, log
<1>3. CASE Close
  BY <1>3 DEF Close, StopAndCleanup, log
<1>4. CASE Run \/ Reboot
  <2>1. ASSUME NEW o \in {"run", "reboot"}, NEW k \in {"plain", "reboot"},
               Call(o, k)
        PROVE  TypeInv'
    BY <2>1 DEF Call, guest
  <2>2. QED
    BY <1>4, <2>1 DEF Run, Reboot
<1>5. CASE Reopen
  BY <1>5 DEF Reopen, Answers, guest, log
<1>6. CASE Execute
  <2>1. awaited' \in BOOLEAN
    BY <1>6, Zenon DEF Execute
  <2>2. QED
    BY <1>6, <2>1 DEF Execute, Usable, Answers
<1>7. CASE Exit
  <2>1. history' \in Seq(1..MaxCalls)
    BY <1>7 DEF Exit, Record
  <2>a. awaited' \in BOOLEAN
    BY <1>7, Zenon DEF Exit
  <2>2. /\ UNCHANGED <<boot, phase, workDir, bootId, op, kind, local, calls,
                       ranOn, executed, swallowed>>
        /\ \/ BeginWait
           \/ \E outcome \in {"ok", "CmdError"} : End(outcome)
    BY <1>7, Zenon DEF Exit, guest
  <2>3. CASE BeginWait
    BY <2>1, <2>a, <2>2, <2>3 DEF BeginWait
  <2>4. ASSUME NEW outcome \in {"ok", "CmdError"}, End(outcome)
        PROVE  TypeInv'
    BY <1>7, <2>1, <2>a, <2>2, <2>4 DEF End, Exit
  <2>5. QED
    BY <2>2, <2>3, <2>4
<1>8. CASE DropRaises
  <2>1. pc \in {"sending", "answering"}
    BY <1>8 DEF DropRaises, Dropped
  <2>2. UNCHANGED <<boot, phase, workDir, bootId, op, local, calls, history,
                    executed, kind, ranOn, awaited>>
    BY <1>8, Zenon DEF DropRaises, guest
  <2>3. CASE op = "reboot"
    <3>1. BeginWait /\ swallowed' = swallowed \cup {calls}
      BY <1>8, <2>3, Zenon DEF DropRaises
    <3>2. calls \in 1..MaxCalls
      BY <2>1
    <3>3. swallowed' \subseteq 1..MaxCalls
      BY <3>1, <3>2
    <3>4. QED
      BY <2>1, <2>2, <2>3, <3>1, <3>3 DEF BeginWait
  <2>4. CASE op # "reboot"
    <3>1. last' = "disconnected" /\ pc' = "failed"
          /\ UNCHANGED <<conn, swallowed>>
      BY <1>8, <2>4, Zenon DEF DropRaises
    <3>2. QED
      BY <2>1, <2>2, <3>1
  <2>5. QED
    BY <2>3, <2>4
<1>c. CASE CommandTimesOut
  BY <1>c DEF CommandTimesOut, guest, log
<1>9. CASE DropAsCode
  <2>1. history' \in Seq(1..MaxCalls)
    BY <1>9 DEF DropAsCode, Dropped, Record
  <2>2. /\ UNCHANGED <<boot, phase, workDir, bootId, op, kind, local, calls,
                       ranOn, executed, swallowed, awaited>>
        /\ \/ BeginWait
           \/ \E outcome \in {"ok", "CmdError"} : End(outcome)
    BY <1>9, Zenon DEF DropAsCode, guest
  <2>3. pc \in {"sending", "answering"}
    BY <1>9 DEF DropAsCode, Dropped
  <2>4. CASE BeginWait
    BY <2>1, <2>2, <2>3, <2>4 DEF BeginWait
  <2>5. ASSUME NEW outcome \in {"ok", "CmdError"}, End(outcome)
        PROVE  TypeInv'
    BY <2>1, <2>2, <2>3, <2>5 DEF End
  <2>6. QED
    BY <2>2, <2>4, <2>5
<1>10. CASE Connect
  BY <1>10 DEF Connect, Answers, guest, log
<1>11. CASE Identify
  BY <1>11 DEF Identify, Usable, Answers, Adopt, TryAgain, guest, log
<1>b. CASE BootFails
  BY <1>b DEF BootFails, StopAndCleanup, log
<1>12. CASE IdentifyDropped
  <2>1. CASE op # "start"
    <3>1. /\ pc' = "connecting" /\ local' = 0
          /\ UNCHANGED <<guest, workDir, conn, bootId, last, op, log>>
      BY <1>12, <2>1, Zenon DEF IdentifyDropped, TryAgain
    <3>2. QED
      BY <2>1, <3>1 DEF guest, log
  <2>2. QED
    BY <1>12, <1>b, <2>1 DEF IdentifyDropped
<1>13. CASE IdentifyDroppedAsCode
  <2>1. CASE op # "start"
    <3>1. /\ last' = "CmdError" /\ pc' = "failed" /\ local' = 0
          /\ UNCHANGED <<guest, workDir, conn, bootId, op, log>>
      BY <1>13, <2>1, Zenon DEF IdentifyDroppedAsCode
    <3>2. QED
      BY <2>1, <3>1 DEF guest, log
  <2>2. QED
    BY <1>13, <1>b, <2>1 DEF IdentifyDroppedAsCode
<1>14. CASE TimesOut
  <2>1. CASE op # "start"
    <3>1. /\ last' = "TimeoutError" /\ pc' = "failed"
          /\ UNCHANGED <<guest, workDir, conn, bootId, op, local, log>>
      BY <1>14, <2>1, Zenon DEF TimesOut
    <3>2. QED
      BY <2>1, <3>1 DEF guest, log
  <2>2. QED
    BY <1>14, <1>b, <2>1 DEF TimesOut
<1>15. CASE GuestUp
  BY <1>15 DEF GuestUp, log
<1>16. CASE GuestRestarts
  BY <1>16 DEF GuestRestarts, log
<1>17. CASE QemuExits
  BY <1>17 DEF QemuExits, log
<1>18. CASE UNCHANGED vars
  BY <1>18 DEF vars, guest, log
<1>19. QED
  BY <1>1, <1>2, <1>3, <1>4, <1>5, <1>6, <1>7, <1>8, <1>9, <1>10, <1>11,
     <1>12, <1>13, <1>14, <1>15, <1>16, <1>17, <1>18, <1>c
  DEF Next, CommandStep, WaitStep

LEMMA TypeInvariant == Spec => []TypeInv
<1>1. Init => TypeInv
  BY Bounds DEF Init, TypeInv, TypeOK, Underway, Finished
<1>2. TypeInv /\ [Next]_vars => TypeInv'
  BY TypeStep
<1>3. QED
  BY <1>1, <1>2, PTL DEF Spec

\* Types, and that the handle is never without connection when it asserts one.
THEOREM TypeCorrect == Spec => []TypeOK
<1>1. TypeInv => TypeOK
  BY DEF TypeInv
<1>2. QED
  BY <1>1, TypeInvariant, PTL
-----------------------------------------------------------------------------
\* The calls that are missing from the history are those that a swallowed drop
\* ended, the one that is under way and, once the test has failed, the one that
\* it failed with.
Recorded ==
  /\ executed \subseteq 1..calls
  /\ swallowed \subseteq 1..calls
  /\ \A i \in DOMAIN history : history[i] <= calls
  /\ pc \in {"sending", "answering"} =>
       calls \notin swallowed /\ \A i \in DOMAIN history : history[i] # calls
  /\ pc = "sending" => calls \notin executed
  /\ pc \notin Finished \ {"idle"} =>
       \A c \in executed \ swallowed :
         \/ \E i \in DOMAIN history : history[i] = c
         \/ pc = "answering" /\ c = calls
  /\ \A i \in DOMAIN history : history[i] \notin swallowed
  /\ \A i, j \in DOMAIN history : i < j => history[i] < history[j]

\* What a step that leaves the log alone must not do.
LEMMA LogKept ==
  ASSUME TypeInv, Recorded,
         UNCHANGED <<calls, history, executed, swallowed>>,
         pc' \in {"sending", "answering"} => pc' = pc,
         pc' \notin Finished \ {"idle"} =>
           pc \notin Finished \ {"idle"} /\ (pc = "answering" => pc' = pc)
  PROVE  Recorded'
  BY DEF Recorded, Finished

\* The answer of the call under way goes into the history.
LEMMA LogExtended ==
  ASSUME TypeInv, Recorded, Record,
         pc \in {"sending", "answering"},
         UNCHANGED <<calls, executed, swallowed>>,
         pc' \in {"idle", "connecting"}
  PROVE  Recorded'
<1> USE Bounds DEF TypeInv, TypeOK, Underway
<1>1. calls \in 1..MaxCalls
  OBVIOUS
<1>2. /\ DOMAIN history = 1..Len(history)
      /\ DOMAIN history' = 1..(Len(history) + 1)
      /\ Len(history) \in Nat
      /\ \A i \in DOMAIN history : history'[i] = history[i]
      /\ history'[Len(history) + 1] = calls
  BY <1>1, LenProperties, AppendProperties DEF Record
<1>3. \A i \in DOMAIN history : history[i] \in Nat /\ history[i] < calls
  <2>1. \A i \in DOMAIN history : history[i] \in 1..MaxCalls
    BY <1>2, ElementOfSeq
  <2>2. QED
    BY <1>1, <2>1 DEF Recorded
<1>4. \A i \in DOMAIN history' : history'[i] <= calls
  BY <1>1, <1>2, <1>3
<1>5. \A i, j \in DOMAIN history' : i < j => history'[i] < history'[j]
  <2> SUFFICES ASSUME NEW i \in DOMAIN history', NEW j \in DOMAIN history', i < j
               PROVE  history'[i] < history'[j]
    OBVIOUS
  <2>1. i \in DOMAIN history /\ history'[i] = history[i] /\ history[i] < calls
    BY <1>2, <1>3
  <2>2. CASE j \in DOMAIN history
    BY <1>2, <2>1, <2>2 DEF Recorded
  <2>3. CASE j \notin DOMAIN history
    BY <1>2, <2>1, <2>3
  <2>4. QED
    BY <2>2, <2>3
<1>6. \A c \in executed \ swallowed : \E i \in DOMAIN history' : history'[i] = c
  BY <1>2 DEF Recorded, Finished
<1>7. \A i \in DOMAIN history' : history'[i] \notin swallowed
  BY <1>2 DEF Recorded
<1>8. QED
  BY <1>4, <1>5, <1>6, <1>7 DEF Recorded

LEMMA RecordedStep ==
  ASSUME TypeInv, Recorded, [Next]_vars
  PROVE  Recorded'
<1> USE Bounds DEF TypeInv, TypeOK, Underway, Finished
<1>1. CASE Start \/ SetupFails \/ Interrupted \/ Close
  BY <1>1, LogKept DEF Start, SetupFails, Interrupted, Close, log
<1>2. CASE Run \/ Reboot
  <2>1. /\ pc = "idle" /\ pc' = "sending" /\ calls' = calls + 1
        /\ UNCHANGED <<history, executed, swallowed>>
    BY <1>2, Zenon DEF Run, Reboot, Call
  <2>2. \A i \in DOMAIN history : history[i] \in Nat
    BY ElementOfSeq, LenProperties
  <2>3. QED
    BY <2>1, <2>2 DEF Recorded
<1>3. CASE Reopen
  BY <1>3, LogKept DEF Reopen, log
<1>4. CASE Execute
  <2>1. /\ pc = "sending" /\ pc' = "answering"
        /\ UNCHANGED <<calls, history, swallowed>>
        /\ executed' = executed \cup {calls}
    BY <1>4 DEF Execute
  <2>2. calls \in 1..calls
    BY <2>1
  <2>3. QED
    BY <2>1, <2>2 DEF Recorded
<1>5. CASE Exit
  BY <1>5, LogExtended, Zenon DEF Exit, BeginWait, End
<1>6. CASE DropAsCode
  BY <1>6, LogExtended, Zenon DEF DropAsCode, Dropped, BeginWait, End
<1>7. CASE DropRaises
  <2>1. CASE op = "reboot"
    <3>1. /\ pc \in {"sending", "answering"} /\ pc' = "connecting"
          /\ UNCHANGED <<calls, history, executed>>
          /\ swallowed' = swallowed \cup {calls}
      BY <1>7, <2>1 DEF DropRaises, Dropped, BeginWait
    <3>2. calls \in 1..calls
      BY <3>1
    <3>3. QED
      BY <2>1, <3>1, <3>2 DEF Recorded
  <2>2. CASE op # "reboot"
    BY <1>7, <2>2, LogKept DEF DropRaises
  <2>3. QED
    BY <2>1, <2>2
<1>c. CASE CommandTimesOut
  BY <1>c, LogKept DEF CommandTimesOut, log
<1>8. CASE Connect \/ Identify
  BY <1>8, LogKept DEF Connect, Identify, Adopt, TryAgain, log
<1>9. CASE IdentifyDropped \/ IdentifyDroppedAsCode \/ TimesOut
  BY <1>9, LogKept
  DEF IdentifyDropped, IdentifyDroppedAsCode, TimesOut, BootFails, TryAgain, log
<1>10. CASE GuestUp \/ GuestRestarts \/ QemuExits
  BY <1>10, LogKept DEF GuestUp, GuestRestarts, QemuExits, log
<1>11. CASE UNCHANGED vars
  BY <1>11, LogKept DEF vars, log
<1>12. QED
  BY <1>1, <1>2, <1>3, <1>4, <1>5, <1>6, <1>7, <1>8, <1>9, <1>10, <1>11, <1>c
  DEF Next, CommandStep, WaitStep

\* While the test goes on, the history has every command that run executed, for
\* reboot and install_and_reboot too, once and in order, but for those whose drop
\* run_disconnecting swallowed: it has none of these.  This holds whatever drops,
\* stalls, dies or times out, and with reboots that nobody waits for.
THEOREM Faithful == Spec => []HistoryFaithful
<1>1. Init => Recorded
  BY DEF Init, Recorded
<1>2. TypeInv /\ Recorded /\ [Next]_vars => Recorded'
  BY RecordedStep
<1>3. Recorded => HistoryFaithful
  BY DEF Recorded, HistoryFaithful, Finished
<1>4. QED
  BY <1>1, <1>2, <1>3, TypeInvariant, PTL DEF Spec

-----------------------------------------------------------------------------
LEMMA NothingLeftStep ==
  ASSUME NothingLeft, [Next]_vars
  PROVE  NothingLeft'
<1> USE DEF NothingLeft
<1>1. CASE Start
  BY <1>1 DEF Start
<1>2. CASE SetupFails \/ Interrupted
  BY <1>2, Zenon DEF SetupFails, Interrupted
<1>3. CASE Close
  BY <1>3 DEF Close, StopAndCleanup
<1>4. CASE Run \/ Reboot
  <2>1. pc' = "sending"
    BY <1>4, Zenon DEF Run, Reboot, Call
  <2>2. QED
    BY <2>1
<1>5. CASE CommandStep
  <2>1. pc' \in {"sending", "answering", "idle", "connecting", "failed"}
    BY <1>5, Zenon DEF CommandStep, Reopen, Execute, Exit, DropRaises, DropAsCode,
       CommandTimesOut, End, BeginWait
  <2>2. QED
    BY <2>1
<1>6. CASE Connect \/ Identify
  <2>1. pc' \in {"identifying", "idle", "connecting"}
    BY <1>6, Zenon DEF Connect, Identify, Adopt, TryAgain
  <2>2. QED
    BY <2>1
<1>7. CASE IdentifyDropped \/ IdentifyDroppedAsCode \/ TimesOut
  <2>1. BootFails \/ pc' \in {"connecting", "failed"}
    BY <1>7, Zenon DEF IdentifyDropped, IdentifyDroppedAsCode, TimesOut, TryAgain
  <2>2. QED
    BY <2>1 DEF BootFails, StopAndCleanup
<1>8. CASE GuestUp \/ GuestRestarts \/ QemuExits
  BY <1>8 DEF GuestUp, GuestRestarts, QemuExits
<1>9. CASE UNCHANGED vars
  BY <1>9 DEF vars, guest
<1>10. QED
  BY <1>1, <1>2, <1>3, <1>4, <1>5, <1>6, <1>7, <1>8, <1>9 DEF Next, WaitStep

\* A handle that was closed, or whose start raised an Exception while it waited for
\* SSH, leaves neither QEMU nor its directory behind, in whatever state its guest
\* and its connection are.
THEOREM Clean == Spec => []NothingLeft
<1>1. Init => NothingLeft
  BY DEF Init, NothingLeft
<1>2. NothingLeft /\ [Next]_vars => NothingLeft'
  BY NothingLeftStep
<1>3. QED
  BY <1>1, <1>2, PTL DEF Spec

-----------------------------------------------------------------------------
\* A reboot that was not waited for is never made good.
LEMMA AwaitedSoFar ==
  ASSUME TypeInv, [Next]_vars, awaited'
  PROVE  awaited
<1>1. CASE Execute \/ Exit
  BY <1>1, Zenon DEF Execute, Exit
<1>2. CASE Run \/ Reboot
  BY <1>2, Zenon DEF Run, Reboot, Call
<1>3. CASE DropRaises \/ DropAsCode
  BY <1>3, Zenon DEF DropRaises, DropAsCode
<1>4. CASE UNCHANGED log \/ UNCHANGED vars
  BY <1>4, Zenon DEF log, vars
<1>5. CASE Start \/ SetupFails \/ Interrupted \/ Close
  BY <1>4, <1>5, Zenon DEF Start, SetupFails, Interrupted, Close
<1>6. CASE Reopen \/ CommandTimesOut \/ Connect \/ Identify
  BY <1>4, <1>6, Zenon DEF Reopen, CommandTimesOut, Connect, Identify
<1>7. CASE IdentifyDropped \/ IdentifyDroppedAsCode \/ TimesOut
  BY <1>4, <1>7, Zenon DEF IdentifyDropped, IdentifyDroppedAsCode, TimesOut, BootFails
<1>8. CASE GuestUp \/ GuestRestarts \/ QemuExits
  BY <1>4, <1>8, Zenon DEF GuestUp, GuestRestarts, QemuExits
<1>9. QED
  BY <1>1, <1>2, <1>3, <1>4, <1>5, <1>6, <1>7, <1>8
  DEF Next, CommandStep, WaitStep

\* As long as every reboot has been waited for, the remembered boot id is that of
\* the boot that the last command went to, and that of the current boot except
\* while a new boot is waited for.
InSync == boot = bootId /\ phase # "stopping"

RebootInv ==
  /\ bootId <= boot
  /\ pc \in {"idle", "sending"} => InSync
  /\ pc = "answering" /\ op = "run" => InSync
  /\ pc = "answering" /\ op = "reboot" => boot = bootId \/ phase # "stopping"
  /\ pc = "sending" => ranOn = 0 /\ last = "none"
  /\ pc = "answering" => ranOn = bootId /\ last = "none"
  /\ pc = "new" => phase = "off" /\ boot = 0 /\ bootId = 0 /\ ranOn = 0
  /\ pc \in {"connecting", "identifying"} =>
       /\ ranOn \in {0, bootId}
       /\ boot = bootId \/ phase # "stopping"
       /\ op = "start" => phase # "stopping" /\ bootId = 0
       /\ op # "run"
  /\ last = "rebooted" => ranOn < bootId

LEMMA RebootStep ==
  ASSUME awaited', TypeInv, RebootInv, [Next]_vars
  PROVE  RebootInv'
<1> USE Bounds DEF TypeInv, TypeOK, Underway, Finished, RebootInv, InSync
<1>1. CASE Start
  BY <1>1 DEF Start, log
<1>2. CASE SetupFails \/ Interrupted
  <2>1. /\ pc' = "abandoned"
        /\ UNCHANGED <<guest, bootId, op, last, log>>
    BY <1>2, Zenon DEF SetupFails, Interrupted
  <2>2. QED
    BY <2>1 DEF guest, log
<1>3. CASE Close
  BY <1>3 DEF Close, StopAndCleanup, log
<1>4. CASE Run \/ Reboot
  <2>1. ASSUME NEW o \in {"run", "reboot"}, NEW k \in {"plain", "reboot"},
               Call(o, k)
        PROVE  RebootInv'
    BY <2>1 DEF Call, guest
  <2>2. QED
    BY <1>4, <2>1 DEF Run, Reboot
<1>5. CASE Reopen
  <2>1. pc = "sending" /\ UNCHANGED <<guest, bootId, pc, op, last, log>>
    BY <1>5, Zenon DEF Reopen
  <2>2. QED
    BY <2>1 DEF guest, log
<1>6. CASE Execute
  <2>1. /\ pc = "sending" /\ pc' = "answering" /\ ranOn' = boot
        /\ UNCHANGED <<boot, bootId, op, kind, last>>
        /\ op = "reboot" \/ phase' = phase
    BY <1>6 DEF Execute, Usable
  <2>2. QED
    BY <2>1
<1>7. CASE Exit
  <2>1. /\ pc = "answering"
        /\ ranOn = boot
        /\ UNCHANGED <<boot, phase, bootId, op, kind, ranOn>>
    BY <1>7 DEF Exit, Usable, guest
  <2>2. \/ op = "run" /\ \E outcome \in {"ok", "CmdError"} : End(outcome)
        \/ op = "reboot" /\ phase # "stopping" /\ End("CmdError")
        \/ op = "reboot" /\ BeginWait
    BY <1>7, awaited', Zenon DEF Exit
  <2>3. CASE op = "reboot" /\ BeginWait
    BY <2>1, <2>3 DEF BeginWait
  <2>4. CASE pc' = "idle" /\ last' \in {"ok", "CmdError"} /\ phase # "stopping"
    BY <2>1, <2>4
  <2>5. CASE op = "run" /\ \E outcome \in {"ok", "CmdError"} : End(outcome)
    BY <2>1, <2>4, <2>5 DEF End
  <2>6. CASE op = "reboot" /\ phase # "stopping" /\ End("CmdError")
    BY <2>4, <2>6 DEF End
  <2>7. QED
    BY <2>2, <2>3, <2>5, <2>6
<1>d. ASSUME op = "reboot", pc \in {"sending", "answering"}, BeginWait,
             UNCHANGED <<boot, phase, bootId, op, kind, ranOn>>
      PROVE  RebootInv'
  BY <1>d DEF BeginWait
<1>8. CASE DropRaises
  <2>1. /\ pc \in {"sending", "answering"}
        /\ UNCHANGED <<boot, phase, bootId, op, kind, ranOn>>
    BY <1>8 DEF DropRaises, Dropped, guest
  <2>2. CASE op = "reboot"
    BY <1>8, <1>d, <2>1, <2>2 DEF DropRaises
  <2>3. CASE op # "reboot"
    BY <1>8, <2>1, <2>3 DEF DropRaises
  <2>4. QED
    BY <2>2, <2>3
<1>c. CASE CommandTimesOut
  <2>1. /\ pc' = "failed" /\ last' = "CommandTimedOut"
        /\ UNCHANGED <<guest, bootId, op, log>>
    BY <1>c, Zenon DEF CommandTimesOut
  <2>2. QED
    BY <2>1 DEF guest, log
<1>9. CASE DropAsCode
  <2>1. /\ pc \in {"sending", "answering"}
        /\ UNCHANGED <<boot, phase, bootId, op, kind, ranOn>>
    BY <1>9, Zenon DEF DropAsCode, Dropped, guest
  <2>2. IF op = "reboot" THEN BeginWait
        ELSE \E outcome \in {"ok", "CmdError"} : End(outcome)
    BY <1>9, Zenon DEF DropAsCode
  <2>3. CASE op = "reboot"
    BY <1>d, <2>1, <2>2, <2>3
  <2>4. CASE op # "reboot"
    BY <2>1, <2>2, <2>4 DEF End
  <2>5. QED
    BY <2>3, <2>4
<1>10. CASE Connect
  BY <1>10 DEF Connect, guest, log
<1>11. CASE Identify
  <2>1. /\ pc = "identifying"
        /\ UNCHANGED <<boot, phase, op, kind, ranOn>>
    BY <1>11 DEF Identify, guest, log
  <2>2. CASE op = "start" /\ Adopt("started")
    BY <2>1, <2>2 DEF Adopt
  <2>3. CASE op = "reboot" /\ NewBoot /\ Adopt("rebooted")
    BY <2>1, <2>3 DEF Adopt, NewBoot
  <2>4. CASE op = "reboot" /\ TryAgain
    BY <2>1, <2>4 DEF TryAgain
  <2>5. QED
    BY <1>11, <2>2, <2>3, <2>4 DEF Identify
<1>b. CASE BootFails
  BY <1>b DEF BootFails, StopAndCleanup, log
<1>12. CASE IdentifyDropped
  <2>1. CASE op # "start"
    <3>1. /\ pc = "identifying" /\ pc' = "connecting"
          /\ UNCHANGED <<guest, bootId, op, last, log>>
      BY <1>12, <2>1, Zenon DEF IdentifyDropped, TryAgain
    <3>2. QED
      BY <3>1 DEF guest, log
  <2>2. QED
    BY <1>12, <1>b, <2>1 DEF IdentifyDropped
<1>13. CASE IdentifyDroppedAsCode \/ TimesOut
  <2>1. CASE op # "start"
    <3>1. /\ pc' = "failed" /\ last' \in {"CmdError", "TimeoutError"}
          /\ UNCHANGED <<guest, bootId, op, log>>
      BY <1>13, <2>1, Zenon DEF IdentifyDroppedAsCode, TimesOut
    <3>2. QED
      BY <3>1 DEF guest, log
  <2>2. QED
    BY <1>13, <1>b, <2>1 DEF IdentifyDroppedAsCode, TimesOut
<1>14. CASE GuestUp
  BY <1>14 DEF GuestUp, log
<1>15. CASE GuestRestarts
  BY <1>15 DEF GuestRestarts, log
<1>16. CASE QemuExits
  <2>1. /\ phase # "off" /\ phase' = "off"
        /\ UNCHANGED <<boot, bootId, pc, op, last, log>>
    BY <1>16, Zenon DEF QemuExits
  <2>2. QED
    BY <2>1 DEF log
<1>17. CASE UNCHANGED vars
  BY <1>17 DEF vars, guest, log
<1>18. QED
  BY <1>1, <1>2, <1>3, <1>4, <1>5, <1>6, <1>7, <1>8, <1>9, <1>10, <1>11,
     <1>12, <1>13, <1>14, <1>15, <1>16, <1>17, <1>c
  DEF Next, CommandStep, WaitStep

\* When reboot returns, the boot that its command ran on is over, as long as the
\* test has waited for every reboot of the guest, whatever drops, dies or times
\* out.
THEOREM Rebooted == Spec => []RebootIsOver
<1>1. Init => RebootInv
  BY DEF Init, RebootInv, InSync
<1>2. TypeInv /\ (awaited => RebootInv) /\ [Next]_vars => (awaited => RebootInv)'
  BY RebootStep, AwaitedSoFar
<1>3. (awaited => RebootInv) => RebootIsOver
  BY DEF RebootInv, RebootIsOver
<1>4. QED
  BY <1>1, <1>2, <1>3, TypeInvariant, PTL DEF Spec

-----------------------------------------------------------------------------
\* As long as every reboot has been waited for, the handle's connection is that to
\* the current boot whenever a command is sent.  So a drop before the command ran
\* means that QEMU is gone, and then there is no new boot.
RunInv ==
  /\ pc \in {"idle", "sending"} \/ (pc = "answering" /\ op = "run") =>
       conn = boot /\ phase \in {"up", "off"}
  /\ pc = "answering" => ranOn # 0 /\ conn = ranOn
  /\ pc \in {"connecting", "identifying"} /\ op = "reboot" /\ ranOn = 0 =>
       phase = "off" /\ boot = bootId
  /\ last = "rebooted" => ranOn # 0

LEMMA RunStep ==
  ASSUME awaited', TypeInv, RebootInv, RunInv, [Next]_vars
  PROVE  RunInv'
<1> USE Bounds DEF TypeInv, TypeOK, Underway, Finished, RebootInv, InSync, RunInv
<1>1. CASE Start
  BY <1>1 DEF Start, log
<1>2. CASE SetupFails \/ Interrupted
  <2>1. pc' = "abandoned" /\ UNCHANGED <<last, log>>
    BY <1>2, Zenon DEF SetupFails, Interrupted
  <2>2. QED
    BY <2>1 DEF log
<1>3. CASE Close
  BY <1>3 DEF Close, StopAndCleanup, log
<1>4. CASE Run \/ Reboot
  <2>1. ASSUME NEW o \in {"run", "reboot"}, NEW k \in {"plain", "reboot"},
               Call(o, k)
        PROVE  RunInv'
    BY <2>1 DEF Call, guest
  <2>2. QED
    BY <1>4, <2>1 DEF Run, Reboot
<1>5. CASE Reopen
  <2>1. /\ pc = "sending" /\ conn' = boot
        /\ UNCHANGED <<guest, bootId, pc, op, last, log>>
    BY <1>5, Zenon DEF Reopen
  <2>2. QED
    BY <2>1 DEF guest, log
<1>6. CASE Execute
  <2>1. /\ pc = "sending" /\ pc' = "answering" /\ ranOn' = boot
        /\ conn = boot /\ conn # 0
        /\ UNCHANGED <<boot, bootId, conn, op, kind, last>>
        /\ op = "reboot" \/ phase' = phase
    BY <1>6 DEF Execute, Usable
  <2>2. QED
    BY <2>1
<1>w. ASSUME op = "reboot", pc = "answering", BeginWait,
             UNCHANGED <<boot, phase, bootId, op, kind, ranOn>>
      PROVE  RunInv'
  BY <1>w DEF BeginWait
<1>7. CASE Exit
  <2>1. /\ pc = "answering"
        /\ ranOn = boot /\ phase \in {"up", "stopping"}
        /\ UNCHANGED <<boot, phase, bootId, op, kind, ranOn>>
    BY <1>7 DEF Exit, Usable, Answers, guest
  <2>2. \/ op = "run" /\ \E outcome \in {"ok", "CmdError"} : End(outcome)
        \/ op = "reboot" /\ phase # "stopping" /\ End("CmdError")
        \/ op = "reboot" /\ BeginWait
    BY <1>7, awaited', Zenon DEF Exit
  <2>3. CASE op = "run" /\ \E outcome \in {"ok", "CmdError"} : End(outcome)
    BY <2>1, <2>3 DEF End
  <2>4. CASE op = "reboot" /\ phase # "stopping" /\ End("CmdError")
    BY <2>1, <2>4 DEF End
  <2>5. QED
    BY <1>w, <2>1, <2>2, <2>3, <2>4
<1>d. ASSUME op = "reboot", pc = "sending", ~Healthy(conn), BeginWait,
             UNCHANGED <<boot, phase, bootId, op, kind, ranOn>>
      PROVE  RunInv'
  BY <1>d DEF BeginWait, Healthy
<1>8. CASE DropRaises
  <2>1. /\ Dropped /\ pc \in {"sending", "answering"}
        /\ UNCHANGED <<boot, phase, bootId, op, kind, ranOn>>
    BY <1>8 DEF DropRaises, Dropped, guest
  <2>2. CASE op = "reboot"
    BY <1>8, <1>d, <1>w, <2>1, <2>2 DEF DropRaises, Dropped
  <2>3. CASE op # "reboot"
    BY <1>8, <2>1, <2>3 DEF DropRaises
  <2>4. QED
    BY <2>2, <2>3
<1>c. CASE CommandTimesOut
  <2>1. /\ pc' = "failed" /\ last' = "CommandTimedOut"
        /\ UNCHANGED <<guest, bootId, op, log>>
    BY <1>c, Zenon DEF CommandTimesOut
  <2>2. QED
    BY <2>1 DEF guest, log
<1>9. CASE DropAsCode
  <2>1. /\ Dropped /\ pc \in {"sending", "answering"}
        /\ UNCHANGED <<boot, phase, bootId, op, kind, ranOn>>
    BY <1>9, Zenon DEF DropAsCode, Dropped, guest
  <2>2. IF op = "reboot" THEN BeginWait
        ELSE \E outcome \in {"ok", "CmdError"} : End(outcome)
    BY <1>9, Zenon DEF DropAsCode
  <2>3. CASE op = "reboot"
    BY <1>d, <1>w, <2>1, <2>2, <2>3 DEF Dropped
  <2>4. CASE op # "reboot"
    BY <2>1, <2>2, <2>4 DEF End
  <2>5. QED
    BY <2>3, <2>4
<1>10. CASE Connect
  BY <1>10 DEF Connect, guest, log, Answers
<1>11. CASE Identify
  <2>1. /\ pc = "identifying"
        /\ local = boot /\ phase \in {"up", "stopping"}
        /\ UNCHANGED <<boot, phase, op, kind, ranOn>>
    BY <1>11 DEF Identify, Usable, Answers, guest, log
  <2>2. CASE op = "start" /\ Adopt("started")
    BY <2>1, <2>2 DEF Adopt
  <2>3. CASE op = "reboot" /\ NewBoot /\ Adopt("rebooted")
    BY <2>1, <2>3 DEF Adopt, NewBoot
  <2>4. CASE op = "reboot" /\ TryAgain
    BY <2>1, <2>4 DEF TryAgain
  <2>5. QED
    BY <1>11, <2>2, <2>3, <2>4 DEF Identify
<1>b. CASE BootFails
  BY <1>b DEF BootFails, StopAndCleanup, log
<1>12. CASE IdentifyDropped
  <2>1. CASE op # "start"
    <3>1. /\ pc = "identifying" /\ pc' = "connecting"
          /\ UNCHANGED <<guest, bootId, op, last, log>>
      BY <1>12, <2>1, Zenon DEF IdentifyDropped, TryAgain
    <3>2. QED
      BY <3>1 DEF guest, log
  <2>2. QED
    BY <1>12, <1>b, <2>1 DEF IdentifyDropped
<1>13. CASE IdentifyDroppedAsCode \/ TimesOut
  <2>1. CASE op # "start"
    <3>1. /\ pc' = "failed" /\ last' \in {"CmdError", "TimeoutError"}
          /\ UNCHANGED <<guest, bootId, op, log>>
      BY <1>13, <2>1, Zenon DEF IdentifyDroppedAsCode, TimesOut
    <3>2. QED
      BY <3>1 DEF guest, log
  <2>2. QED
    BY <1>13, <1>b, <2>1 DEF IdentifyDroppedAsCode, TimesOut
<1>14. CASE GuestUp
  BY <1>14 DEF GuestUp, log
<1>15. CASE GuestRestarts
  BY <1>15 DEF GuestRestarts, log
<1>16. CASE QemuExits
  <2>1. /\ phase # "off" /\ phase' = "off"
        /\ UNCHANGED <<boot, conn, bootId, pc, op, last, log>>
    BY <1>16, Zenon DEF QemuExits
  <2>2. QED
    BY <2>1 DEF log
<1>17. CASE UNCHANGED vars
  BY <1>17 DEF vars, guest, log
<1>18. QED
  BY <1>1, <1>2, <1>3, <1>4, <1>5, <1>6, <1>7, <1>8, <1>9, <1>10, <1>11,
     <1>12, <1>13, <1>14, <1>15, <1>16, <1>17, <1>c
  DEF Next, CommandStep, WaitStep

\* reboot and install_and_reboot do not return on the strength of a drop alone:
\* their command ran, as long as the test has waited for every reboot of the guest.
THEOREM WasRun == Spec => []RebootWasRun
<1>1. Init => RebootInv /\ RunInv
  BY DEF Init, RebootInv, InSync, RunInv
<1>2. TypeInv /\ (awaited => RebootInv /\ RunInv) /\ [Next]_vars =>
        (awaited => RebootInv /\ RunInv)'
  BY RebootStep, RunStep, AwaitedSoFar
<1>3. (awaited => RebootInv /\ RunInv) => RebootWasRun
  BY DEF RunInv, RebootWasRun
<1>4. QED
  BY <1>1, <1>2, <1>3, TypeInvariant, PTL DEF Spec

-----------------------------------------------------------------------------
\* If every drop is an exception, wait_for_reboot fails only when its time is
\* up: the code -1 is all that can end it early, in calls whose command was given
\* a timeout too.
THEOREM FailsInTime ==
  ASSUME ~DropsAsCode
  PROVE  Spec => []WaitFailsOnlyByTimeout
<1>1. Init => WaitFailsOnlyByTimeout
  BY DEF Init, WaitFailsOnlyByTimeout
<1>2. TypeInv /\ WaitFailsOnlyByTimeout /\ [Next]_vars => WaitFailsOnlyByTimeout'
  <2> SUFFICES ASSUME TypeInv, WaitFailsOnlyByTimeout, [Next]_vars,
                      pc' = "failed", op' = "reboot", conn' = 0
               PROVE  last' = "TimeoutError"
    BY DEF WaitFailsOnlyByTimeout
  <2>1. CASE TimesOut
    BY <2>1 DEF TimesOut, BootFails
  <2>2. CASE DropRaises
    BY <2>2 DEF DropRaises, BeginWait
  <2>c. CASE CommandTimesOut
    BY <2>c DEF CommandTimesOut, TypeInv, TypeOK, Underway
  <2>3. CASE GuestUp \/ GuestRestarts \/ QemuExits \/ UNCHANGED vars
    BY <2>3 DEF GuestUp, GuestRestarts, QemuExits, vars, WaitFailsOnlyByTimeout
  <2>4. ASSUME Start \/ SetupFails \/ Interrupted \/ Close
        PROVE  FALSE
    BY <2>4 DEF Start, SetupFails, Interrupted, Close
  <2>5. ASSUME Run \/ Reboot \/ Reopen \/ Execute
        PROVE  FALSE
    BY <2>5 DEF Run, Reboot, Call, Reopen, Execute
  <2>6. ASSUME Exit \/ DropAsCode \/ Connect
        PROVE  FALSE
    BY <2>6, Zenon DEF Exit, DropAsCode, BeginWait, End, Connect
  <2>7. ASSUME Identify \/ IdentifyDropped \/ IdentifyDroppedAsCode
        PROVE  FALSE
    BY <2>7 DEF Identify, IdentifyDropped, IdentifyDroppedAsCode, Adopt,
       TryAgain, BootFails
  <2>8. QED
    BY <2>1, <2>2, <2>3, <2>4, <2>5, <2>6, <2>7, <2>c DEF Next, CommandStep, WaitStep
<1>3. QED
  BY <1>1, <1>2, TypeInvariant, PTL DEF Spec

-----------------------------------------------------------------------------
(***************************************************************************)
(* Refinement: the handle implements RemoteMachine.                        *)
(***************************************************************************)

\* As long as every reboot has been waited for, a guest that shuts down does so
\* because of the command of the last call, which was one of reboot.
StopInv ==
  phase = "stopping" =>
    /\ boot = bootId
    /\ ranOn # 0
    /\ op = "reboot"
    /\ pc \in {"answering", "connecting", "identifying", "failed"}

LEMMA StopStep ==
  ASSUME awaited', TypeInv, RebootInv, StopInv, [Next]_vars
  PROVE  StopInv'
<1> USE Bounds DEF TypeInv, TypeOK, Underway, StopInv, RebootInv, InSync
<1>1. ASSUME phase' # "stopping"
      PROVE  StopInv'
  BY <1>1
<1>2. CASE Start \/ GuestUp \/ GuestRestarts \/ QemuExits
  BY <1>1, <1>2 DEF Start, GuestUp, GuestRestarts, QemuExits
<1>b. CASE BootFails
  BY <1>1, <1>b DEF BootFails, StopAndCleanup
<1>3. CASE Close
  BY <1>1, <1>3 DEF Close, StopAndCleanup
<1>4. CASE SetupFails \/ Interrupted
  <2>1. op = "start" /\ UNCHANGED phase
    BY <1>4, Zenon DEF SetupFails, Interrupted, guest, TypeInv, Underway
  <2>2. QED
    BY <1>1, <2>1
<1>5. CASE Run \/ Reboot
  <2>1. pc = "idle" /\ UNCHANGED phase
    BY <1>5, Zenon DEF Run, Reboot, Call, guest
  <2>2. QED
    BY <1>1, <2>1
<1>6. CASE Reopen
  <2>1. pc = "sending" /\ UNCHANGED phase
    BY <1>6, Zenon DEF Reopen, guest
  <2>2. QED
    BY <1>1, <2>1
<1>7. CASE Execute
  <2>1. /\ pc = "sending" /\ pc' = "answering" /\ ranOn' = boot
        /\ UNCHANGED <<boot, bootId, op, kind>>
        /\ op = "reboot" \/ phase' = phase
        /\ boot # 0
    BY <1>7 DEF Execute, Usable
  <2>2. QED
    BY <2>1
<1>8. CASE Exit \/ DropRaises \/ DropAsCode \/ CommandTimesOut
  <2>1. /\ pc \in {"sending", "answering"}
        /\ UNCHANGED <<boot, phase, bootId, op, ranOn>>
    BY <1>8, Zenon
    DEF Exit, DropRaises, DropAsCode, CommandTimesOut, Dropped, guest, log
  <2>2. CASE op = "reboot" /\ phase = "stopping"
    <3>1. pc' \in {"connecting", "failed"}
      <4>1. CASE Exit
        <5>1. BeginWait
          BY <2>2, <4>1, awaited', Zenon DEF Exit
        <5>2. QED
          BY <5>1 DEF BeginWait
      <4>2. CASE DropRaises \/ DropAsCode \/ CommandTimesOut
        BY <2>2, <4>2 DEF DropRaises, DropAsCode, CommandTimesOut, BeginWait
      <4>3. QED
        BY <1>8, <4>1, <4>2
    <3>2. QED
      BY <2>1, <2>2, <3>1
  <2>3. QED
    BY <2>1, <2>2
<1>9. CASE Connect
  BY <1>9 DEF Connect, guest, log
<1>10. CASE Identify
  <2>1. UNCHANGED <<boot, phase, op, ranOn>>
    BY <1>10, Zenon DEF Identify, guest, log
  <2>2. CASE op = "reboot" /\ ~NewBoot /\ TryAgain
    BY <2>1, <2>2 DEF TryAgain
  <2>3. CASE op = "start" \/ NewBoot
    BY <1>10, <2>1, <2>3 DEF Identify, NewBoot
  <2>4. QED
    BY <1>10, <2>2, <2>3 DEF Identify
<1>11. CASE IdentifyDropped \/ IdentifyDroppedAsCode \/ TimesOut
  <2>1. CASE op # "start"
    <3>1. /\ pc' \in {"connecting", "failed"}
          /\ UNCHANGED <<guest, bootId, op, log>>
      BY <1>11, <2>1, Zenon
      DEF IdentifyDropped, IdentifyDroppedAsCode, TimesOut, TryAgain
    <3>2. QED
      BY <3>1 DEF guest, log
  <2>2. QED
    BY <1>11, <1>b, <2>1 DEF IdentifyDropped, IdentifyDroppedAsCode, TimesOut
<1>12. CASE UNCHANGED vars
  BY <1>12 DEF vars, guest, log
<1>13. QED
  BY <1>2, <1>3, <1>4, <1>5, <1>6, <1>7, <1>8, <1>9, <1>10, <1>11, <1>12
  DEF Next, CommandStep, WaitStep

LEMMA RemoteStep ==
  ASSUME awaited', awaited, TypeInv, RebootInv, RunInv, StopInv, [Next]_vars
  PROVE  [Remote!Next]_<<Machine, bootId, Status, ranOn # 0, workDir = "created">>
<1> USE Bounds DEF TypeInv, TypeOK, Underway
<1> DEFINE RN == [Remote!Next]_<<Machine, bootId, Status, ranOn # 0,
                                 workDir = "created">>
\* What all steps of the test's thread have in common that it does not see.
<1>s. ASSUME UNCHANGED <<Machine, bootId, Status, ranOn, workDir>>
      PROVE  RN
  BY <1>s
<1>g. ASSUME UNCHANGED guest
      PROVE  UNCHANGED Machine
  BY <1>g DEF guest, Machine
<1>1. CASE Start
  <2>1. Remote!PowerOn
    BY <1>1 DEF Start, log, Machine, Status, Remote!PowerOn, Remote!Goes
  <2>2. QED
    BY <2>1 DEF Remote!Next
<1>2. CASE SetupFails \/ Interrupted
  <2>1. /\ StartsBreak /\ pc' = "abandoned"
        /\ pc = "new" \/ (op = "start" /\ pc \in {"connecting", "identifying"})
        /\ UNCHANGED <<guest, workDir, bootId, log>>
    BY <1>2, Zenon DEF SetupFails, Interrupted
  <2>2. Status \in {"new", "starting"} /\ Status' = "abandoned"
    BY <2>1 DEF Status
  <2>3. Remote!Abandon
    BY <1>g, <2>1, <2>2 DEF log, Remote!Abandon, Remote!Goes
  <2>4. QED
    BY <2>3 DEF Remote!Next
<1>3. CASE Close
  <2>1. Remote!Close
    BY <1>3 DEF Close, StopAndCleanup, log, Machine, Status, Remote!Close,
       Remote!Release, Remote!Goes
  <2>2. QED
    BY <2>1 DEF Remote!Next
<1>b. ASSUME BootFails, pc \in {"connecting", "identifying"}
      PROVE  RN
  <2>1. Remote!NotStarted
    BY <1>b DEF BootFails, StopAndCleanup, log, Machine, Status,
       Remote!NotStarted, Remote!Release, Remote!Goes
  <2>2. QED
    BY <2>1 DEF Remote!Next
<1>4. CASE Run \/ Reboot
  <2>1. /\ pc = "idle" /\ pc' = "sending" /\ op' \in {"run", "reboot"}
        /\ ranOn' = 0
        /\ UNCHANGED <<guest, workDir, bootId>>
    BY <1>4 DEF Run, Reboot, Call
  <2>2. Status = "ready" /\ Status' \in {"running", "rebooting"}
    BY <2>1 DEF Status
  <2>3. Remote!Call
    BY <1>g, <2>1, <2>2 DEF Remote!Call, Remote!Goes
  <2>4. QED
    BY <2>3 DEF Remote!Next
<1>5. CASE Reopen
  <2>1. UNCHANGED <<Machine, bootId, Status, ranOn, workDir>>
    BY <1>5, <1>g DEF Reopen, Status, log
  <2>2. QED
    BY <1>s, <2>1
<1>6. CASE Execute
  <2>1. /\ pc = "sending" /\ pc' = "answering"
        /\ ranOn = 0 /\ ranOn' = boot /\ boot # 0 /\ boot = bootId
        /\ phase \in {"up", "stopping"} /\ phase' \in {"up", "stopping"}
        /\ UNCHANGED <<boot, workDir, bootId, op>>
    BY <1>6 DEF Execute, Usable, Answers, RebootInv, InSync
  <2>2. Status \in {"running", "rebooting"} /\ Status' = Status
    BY <2>1 DEF Status
  <2>3. Machine = bootId /\ Machine' = Machine
    BY <2>1 DEF Machine
  <2>4. Remote!RunCommand
    BY <2>1, <2>2, <2>3 DEF Remote!RunCommand
  <2>5. QED
    BY <2>4 DEF Remote!Next
\* The wait for the new boot is a part of the call.
<1>w. ASSUME op = "reboot", pc \in {"sending", "answering"}, BeginWait,
             UNCHANGED <<guest, workDir, bootId, op, ranOn>>
      PROVE  RN
  <2>1. UNCHANGED Status
    BY <1>w DEF BeginWait, Status
  <2>2. QED
    BY <1>g, <1>s, <1>w, <2>1
<1>r. ASSUME op = "run", pc \in {"sending", "answering"}, pc' \in {"idle", "failed"},
             UNCHANGED <<guest, workDir, bootId, op, ranOn>>
      PROVE  RN
  <2>1. Status = "running" /\ Status' \in {"ready", "failed"}
    BY <1>r DEF Status
  <2>2. Remote!RunReturns \/ Remote!Fail
    BY <1>g, <1>r, <2>1 DEF Remote!RunReturns, Remote!Fail, Remote!Goes
  <2>3. QED
    BY <2>2 DEF Remote!Next
<1>7. CASE Exit
  <2>1. /\ pc = "answering"
        /\ ranOn = boot /\ phase \in {"up", "stopping"}
        /\ UNCHANGED <<guest, workDir, bootId, op, ranOn>>
    BY <1>7 DEF Exit, Usable, Answers
  <2>2. \/ op = "run" /\ pc' = "idle"
        \/ op = "reboot" /\ pc' = "idle"
        \/ op = "reboot" /\ BeginWait
    BY <1>7, Zenon DEF Exit, End
  <2>3. CASE op = "reboot" /\ pc' = "idle"
    <3>1. Machine = bootId /\ ranOn # 0
      BY <2>1 DEF Machine, RebootInv, RunInv
    <3>2. Status = "rebooting" /\ Status' = "ready"
      BY <2>1, <2>3 DEF Status
    <3>3. Remote!RebootRefused
      BY <1>g, <2>1, <3>1, <3>2 DEF Remote!RebootRefused, Remote!Goes
    <3>4. QED
      BY <3>3 DEF Remote!Next
  <2>4. QED
    BY <1>r, <1>w, <2>1, <2>2, <2>3
<1>8. CASE DropRaises \/ DropAsCode
  <2>1. /\ pc \in {"sending", "answering"}
        /\ UNCHANGED <<guest, workDir, bootId, op, ranOn>>
    BY <1>8, Zenon DEF DropRaises, DropAsCode, Dropped
  <2>2. IF op = "reboot" THEN BeginWait ELSE pc' \in {"idle", "failed"}
    BY <1>8 DEF DropRaises, DropAsCode, End
  <2>3. QED
    BY <1>r, <1>w, <2>1, <2>2
<1>c. CASE CommandTimesOut
  <2>1. /\ pc \in {"sending", "answering"} /\ pc' = "failed"
        /\ UNCHANGED <<guest, workDir, bootId, op, ranOn>>
    BY <1>c DEF CommandTimesOut, log
  <2>2. Status \in {"running", "rebooting"} /\ Status' = "failed"
    BY <2>1 DEF Status
  <2>3. Remote!Fail
    BY <1>g, <2>1, <2>2 DEF Remote!Fail, Remote!Goes
  <2>4. QED
    BY <2>3 DEF Remote!Next
<1>9. CASE Connect
  <2>1. UNCHANGED <<Machine, bootId, Status, ranOn, workDir>>
    BY <1>9, <1>g DEF Connect, Status, log
  <2>2. QED
    BY <1>s, <2>1
<1>10. CASE Identify
  <2>1. /\ pc = "identifying"
        /\ local = boot /\ phase \in {"up", "stopping"} /\ boot # 0
        /\ UNCHANGED <<guest, workDir, op, ranOn>>
    BY <1>10 DEF Identify, Usable, Answers, log
  <2>2. Machine = boot /\ Machine' = Machine
    BY <1>g, <2>1 DEF Machine
  <2>3. CASE op = "start" /\ Adopt("started")
    <3>1. Status = "starting" /\ Status' = "ready" /\ bootId' = boot
      BY <2>1, <2>3 DEF Adopt, Status
    <3>2. Remote!Started
      BY <2>1, <2>2, <3>1 DEF Remote!Started, Remote!Goes
    <3>3. QED
      BY <3>2 DEF Remote!Next
  <2>4. CASE op = "reboot" /\ NewBoot /\ Adopt("rebooted")
    <3>1. Status = "rebooting" /\ Status' = "ready" /\ bootId' = boot
      BY <2>1, <2>4 DEF Adopt, Status
    <3>2. boot > bootId /\ ranOn # 0
      BY <2>1, <2>4 DEF NewBoot, RebootInv, RunInv
    <3>3. Remote!RebootReturns
      BY <2>1, <2>2, <3>1, <3>2 DEF Remote!RebootReturns, Remote!Goes
    <3>4. QED
      BY <3>3 DEF Remote!Next
  <2>5. CASE op = "reboot" /\ TryAgain
    <3>1. UNCHANGED <<bootId, Status>>
      BY <2>1, <2>5 DEF TryAgain, Status
    <3>2. QED
      BY <1>s, <2>1, <2>2, <3>1
  <2>6. QED
    BY <1>10, <2>3, <2>4, <2>5 DEF Identify
<1>11. CASE IdentifyDropped \/ IdentifyDroppedAsCode \/ TimesOut
  <2>1. pc \in {"connecting", "identifying"}
    BY <1>11 DEF IdentifyDropped, IdentifyDroppedAsCode, TimesOut
  <2>2. CASE op = "start"
    BY <1>11, <1>b, <2>1, <2>2
    DEF IdentifyDropped, IdentifyDroppedAsCode, TimesOut
  <2>3. CASE op # "start"
    <3>1. /\ pc' \in {"connecting", "failed"}
          /\ UNCHANGED <<guest, workDir, bootId, op, log>>
      BY <1>11, <2>3, Zenon
      DEF IdentifyDropped, IdentifyDroppedAsCode, TimesOut, TryAgain
    <3>2. op = "reboot"
      BY <2>1, <2>3 DEF RebootInv
    <3>3. Status = "rebooting" /\ Status' \in {"rebooting", "failed"}
      BY <2>1, <3>1, <3>2 DEF Status
    <3>4. CASE Status' = "rebooting"
      BY <1>g, <1>s, <3>1, <3>3, <3>4 DEF log
    <3>5. CASE Status' = "failed"
      <4>1. Remote!Fail
        BY <1>g, <3>1, <3>3, <3>5 DEF log, Remote!Fail, Remote!Goes
      <4>2. QED
        BY <4>1 DEF Remote!Next
    <3>6. QED
      BY <3>3, <3>4, <3>5
  <2>4. QED
    BY <2>2, <2>3
<1>12. CASE GuestUp
  <2>1. UNCHANGED <<Machine, bootId, Status, ranOn, workDir>>
    BY <1>12 DEF GuestUp, Machine, Status, log
  <2>2. QED
    BY <1>s, <2>1
<1>13. CASE GuestRestarts
  <2>1. /\ phase = "stopping" /\ phase' = "booting" /\ boot' = boot + 1
        /\ UNCHANGED <<workDir, bootId, pc, op, ranOn>>
    BY <1>13 DEF GuestRestarts, log
  <2>2. Machine = bootId /\ Machine' = bootId + 1 /\ ranOn # 0
    BY <2>1 DEF Machine, StopInv
  <2>3. Status \in {"rebooting", "failed"} /\ Status' = Status
    BY <2>1 DEF Status, StopInv
  <2>4. Remote!Restart
    BY <2>1, <2>2, <2>3 DEF Remote!Restart
  <2>5. QED
    BY <2>4 DEF Remote!Next
<1>14. CASE QemuExits
  <2>1. /\ phase # "off" /\ phase' = "off"
        /\ UNCHANGED <<boot, workDir, bootId, pc, op, ranOn>>
    BY <1>14, Zenon DEF QemuExits, log
  <2>2. Machine # 0 /\ Machine' = 0 /\ Status' = Status
    BY <2>1 DEF Machine, Status
  <2>3. Remote!PowerOff
    BY <2>1, <2>2 DEF Remote!PowerOff
  <2>4. QED
    BY <2>3 DEF Remote!Next
<1>15. CASE UNCHANGED vars
  <2>1. UNCHANGED <<Machine, bootId, Status, ranOn, workDir>>
    BY <1>15 DEF vars, guest, log, Machine, Status
  <2>2. QED
    BY <1>s, <2>1
<1>16. QED
  BY <1>1, <1>2, <1>3, <1>4, <1>5, <1>6, <1>7, <1>8, <1>9, <1>10, <1>11,
     <1>12, <1>13, <1>14, <1>15, <1>c
  DEF Next, CommandStep, WaitStep

\* As long as the test has waited for every reboot of the guest, every behaviour
\* of the handle is one of RemoteMachine: a command runs at most once, in the boot
\* that the test is connected to; that boot is left only by a call of reboot
\* whose command ran, once per call; and reboot returns in the boot after it.
THEOREM Implements == Spec => ImplementsRemoteMachine
<1> DEFINE Inv == awaited => RebootInv /\ RunInv /\ StopInv
<1>1. Init => Inv
  BY DEF Init, RebootInv, InSync, RunInv, StopInv
<1>2. Init => Remote!Init
  BY DEF Init, Remote!Init, Machine, Status
<1>3. TypeInv /\ Inv /\ [Next]_vars => Inv'
  BY RebootStep, RunStep, StopStep, AwaitedSoFar
<1>4. TypeInv /\ Inv /\ [Next]_vars =>
        [awaited' => awaited /\ Remote!Next]_(Remote!remoteVars)
  <2> SUFFICES ASSUME TypeInv, Inv, [Next]_vars, awaited'
               PROVE  [awaited /\ Remote!Next]_(Remote!remoteVars)
    OBVIOUS
  <2>1. awaited /\ UNCHANGED awaited
    <3>1. awaited
      BY AwaitedSoFar
    <3>2. awaited \in BOOLEAN /\ awaited' \in BOOLEAN
      BY TypeStep DEF TypeInv, TypeOK
    <3>3. QED
      BY <3>1, <3>2
  <2>2. [Remote!Next]_<<Machine, bootId, Status, ranOn # 0, workDir = "created">>
    BY <2>1, RemoteStep
  <2>3. QED
    BY <2>1, <2>2 DEF Remote!remoteVars
<1>5. QED
  BY <1>1, <1>2, <1>3, <1>4, TypeInvariant, PTL
  DEF Spec, ImplementsRemoteMachine, Remote!Spec

-----------------------------------------------------------------------------
(***************************************************************************)
(* The life of the VM, with or without waits for reboots, with starts that *)
(* break and a QEMU that dies.                                             *)
(***************************************************************************)

\* The work directory stays until the VM is given up.
DirInv == workDir = "removed" => pc \in {"closed", "lost"}

\* The steps of the test's thread, by what they do to the life of the VM.
LEMMA LifeOfStep ==
  ASSUME TypeInv, [Next]_vars
  PROVE  \/ Start \/ SetupFails \/ Interrupted \/ Close
         \/ BootFails /\ op = "start" /\ pc \in {"connecting", "identifying"}
         \/ Identify /\ op = "start" /\ pc' = "idle"
         \/ /\ Life' = Life
            /\ UNCHANGED workDir
            /\ \/ UNCHANGED phase
               \/ phase # "off" /\ phase' # "off"
               \/ QemuExits
<1> DEFINE Same == /\ Life' = Life
                   /\ UNCHANGED workDir
                   /\ \/ UNCHANGED phase
                      \/ phase # "off" /\ phase' # "off"
                      \/ QemuExits
<1> USE DEF TypeInv, Underway
<1>1. CASE Run \/ Reboot
  <2>1. pc = "idle" /\ pc' = "sending" /\ UNCHANGED <<phase, workDir>>
    BY <1>1, Zenon DEF Run, Reboot, Call, guest
  <2>2. QED
    BY <2>1 DEF Life
<1>2. CASE Reopen \/ DropRaises \/ DropAsCode \/ Exit \/ CommandTimesOut
  <2>1. /\ pc \in {"sending", "answering"}
        /\ pc' \in {"sending", "idle", "failed", "connecting"}
        /\ UNCHANGED <<phase, workDir, op>>
    BY <1>2, Zenon
    DEF Reopen, DropRaises, DropAsCode, Exit, CommandTimesOut, Dropped, BeginWait,
        End, guest
  <2>2. QED
    BY <2>1 DEF Life
<1>3. CASE Execute
  <2>1. /\ pc = "sending" /\ pc' = "answering"
        /\ phase # "off" /\ phase' # "off"
        /\ UNCHANGED workDir
    BY <1>3 DEF Execute, Usable, Answers
  <2>2. QED
    BY <2>1 DEF Life
<1>4. CASE Connect
  BY <1>4 DEF Connect, Life, guest
<1>5. CASE Identify
  <2>1. /\ pc = "identifying" /\ UNCHANGED <<phase, workDir, op>>
        /\ pc' \in {"idle", "connecting"}
        /\ pc' = "connecting" => op # "start"
    BY <1>5 DEF Identify, Adopt, TryAgain, guest
  <2>2. QED
    BY <1>5, <2>1 DEF Life
<1>6. CASE IdentifyDropped \/ IdentifyDroppedAsCode \/ TimesOut
  <2>1. CASE op = "start"
    BY <1>6, <2>1 DEF IdentifyDropped, IdentifyDroppedAsCode, TimesOut
  <2>2. CASE op # "start"
    <3>1. /\ pc \in {"connecting", "identifying"}
          /\ pc' \in {"connecting", "failed"}
          /\ UNCHANGED <<phase, workDir, op>>
      BY <1>6, <2>2, Zenon
      DEF IdentifyDropped, IdentifyDroppedAsCode, TimesOut, TryAgain, guest
    <3>2. QED
      BY <2>2, <3>1 DEF Life
  <2>3. QED
    BY <2>1, <2>2
<1>7. CASE GuestUp \/ GuestRestarts
  <2>1. phase # "off" /\ phase' # "off" /\ UNCHANGED <<pc, op, workDir>>
    BY <1>7 DEF GuestUp, GuestRestarts
  <2>2. QED
    BY <2>1 DEF Life
<1>8. CASE QemuExits
  <2>1. UNCHANGED <<pc, op, workDir>>
    BY <1>8, Zenon DEF QemuExits
  <2>2. QED
    BY <1>8, <2>1 DEF Life
<1>9. CASE UNCHANGED vars
  BY <1>9 DEF vars, Life
<1>10. QED
  BY <1>1, <1>2, <1>3, <1>4, <1>5, <1>6, <1>7, <1>8, <1>9 DEF Next, CommandStep, WaitStep

LEMMA DirStep ==
  ASSUME TypeInv, DirInv, [Next]_vars
  PROVE  DirInv'
<1>1. CASE Start \/ SetupFails \/ Interrupted
  BY <1>1 DEF Start, SetupFails, Interrupted, DirInv
<1>2. CASE Close \/ BootFails
  BY <1>2 DEF Close, BootFails, DirInv
<1>3. CASE Identify
  BY <1>3 DEF Identify, DirInv
<1>4. CASE Life' = Life /\ UNCHANGED workDir
  BY <1>4 DEF Life, DirInv
<1>5. QED
  BY <1>1, <1>2, <1>3, <1>4, LifeOfStep

LEMMA LifeStep ==
  ASSUME TypeInv, DirInv, [Next]_vars
  PROVE  [OneVM!Next]_(OneVM!lifeVars)
<1> DEFINE Step == [OneVM!Next]_(OneVM!lifeVars)
<1> USE DEF OneVM!Next, OneVM!lifeVars, OneVM!Goes, TypeInv, TypeOK, DirInv
<1>1. CASE Start
  <2>1. Life = "new" /\ Life' = "starting"
    BY <1>1 DEF Start, Life, Underway
  <2>2. OneVM!Launch
    BY <1>1, <2>1 DEF Start, OneVM!Launch
  <2>3. QED
    BY <2>2
<1>2. CASE SetupFails \/ Interrupted
  <2>1. /\ pc = "new" \/ (op = "start" /\ pc \in {"connecting", "identifying"})
        /\ pc' = "abandoned"
        /\ UNCHANGED <<phase, workDir>>
    BY <1>2, Zenon DEF SetupFails, Interrupted, guest
  <2>2. workDir = "created"
    BY <2>1
  <2>3. Life \in {"new", "starting"} /\ Life' = "abandoned"
    BY <2>1, <2>2 DEF Life
  <2>4. OneVM!Abandon
    BY <2>1, <2>2, <2>3 DEF OneVM!Abandon
  <2>5. QED
    BY <2>4
<1>3. CASE Close
  <2>1. Life = "ready" /\ Life' = "gone"
    BY <1>3 DEF Close, Life
  <2>2. OneVM!Close
    BY <1>3, <2>1 DEF Close, StopAndCleanup, OneVM!Close, OneVM!Release
  <2>3. QED
    BY <2>2
<1>4. CASE BootFails /\ op = "start" /\ pc \in {"connecting", "identifying"}
  <2>1. Life = "starting" /\ Life' = "gone"
    BY <1>4 DEF BootFails, StopAndCleanup, Life
  <2>2. OneVM!Undo
    BY <1>4, <2>1 DEF BootFails, StopAndCleanup, OneVM!Undo, OneVM!Release
  <2>3. QED
    BY <2>2
<1>5. CASE Identify /\ op = "start" /\ pc' = "idle"
  <2>1. pc = "identifying" /\ UNCHANGED <<phase, workDir>>
    BY <1>5 DEF Identify, guest
  <2>2. Life = "starting" /\ Life' = "ready"
    BY <1>5, <2>1 DEF Life
  <2>3. OneVM!Started
    BY <2>1, <2>2 DEF OneVM!Started
  <2>4. QED
    BY <2>3
<1>6. CASE /\ Life' = Life
           /\ UNCHANGED workDir
           /\ UNCHANGED phase \/ (phase # "off" /\ phase' # "off")
  BY <1>6
<1>7. CASE Life' = Life /\ UNCHANGED workDir /\ QemuExits
  <2>1. OneVM!Die
    BY <1>7 DEF QemuExits, OneVM!Die
  <2>2. QED
    BY <2>1
<1>8. QED
  BY <1>1, <1>2, <1>3, <1>4, <1>5, <1>6, <1>7, LifeOfStep

\* Whatever happens to its guest, its connection and its starts, a handle leads
\* the life of one VM: QEMU is launched once, and close or a start that is undone
\* takes QEMU and the work directory.
THEOREM Lives == Spec => ImplementsVMLifecycle
<1>1. Init => DirInv /\ OneVM!Init
  BY DEF Init, DirInv, OneVM!Init, Life
<1>2. TypeInv /\ DirInv /\ [Next]_vars => DirInv'
  BY DirStep
<1>3. TypeInv /\ DirInv /\ [Next]_vars => [OneVM!Next]_(OneVM!lifeVars)
  BY LifeStep
<1>4. QED
  BY <1>1, <1>2, <1>3, TypeInvariant, PTL
  DEF Spec, ImplementsVMLifecycle, OneVM!Spec
=============================================================================
