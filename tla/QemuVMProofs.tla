----------------------------- MODULE QemuVMProofs -----------------------------
(***************************************************************************)
(* Proofs about QemuVM for every number of starts, chunks and descriptors, *)
(* every size of the pipe, and with kills that fail as well as without.    *)
(***************************************************************************)
EXTENDS QemuVM, SequenceTheorems, FiniteSetTheorems, TLAPS

\* A reader that reads has a pipe, one that appends has a chunk.
ReadersAtWork ==
  \A r \in Boots :
    /\ reader[r].at = "reading" => reader[r].pipe \in Boots
    /\ reader[r].at = "append" => reader[r].chunk \in Chunks

TypeInv == TypeOK /\ ReadersAtWork

LEMMA Bounds ==
  /\ MaxStarts \in Nat \ {0}
  /\ MaxChunks \in Nat
  /\ Awaited \subseteq Texts
  BY ConstantsAssumption, Zenon DEF Texts

\* What becomes of one reader decides whether the types of all are kept.
LEMMA ReaderChange ==
  ASSUME reader \in [Boots -> Readers], ReadersAtWork,
         NEW r \in Boots, NEW x \in Readers,
         x.at = "reading" => x.pipe \in Boots,
         x.at = "append" => x.chunk \in Chunks,
         Becomes(r, x)
  PROVE  reader' \in [Boots -> Readers] /\ ReadersAtWork'
<1>1. reader' \in [Boots -> Readers]
  BY DEF Becomes
<1>2. ASSUME NEW q \in Boots
      PROVE  reader'[q] = IF q = r THEN x ELSE reader[q]
  BY DEF Becomes
<1>3. QED
  BY <1>1, <1>2 DEF ReadersAtWork

\* The records that the actions put in the place of a reader.
LEMMA ReaderTypes ==
  /\ NoReader \in Readers
  /\ \A at \in {"begin", "check", "enter", "done", "asserted"},
        n \in Descriptors \cup {0} :
       /\ [NoReader EXCEPT !.at = at] \in Readers
       /\ [NoReader EXCEPT !.at = at].at = at
       /\ [NoReader EXCEPT !.at = at, !.fd = n] \in Readers
       /\ [NoReader EXCEPT !.at = at, !.fd = n].at = at
  BY DEF NoReader, Readers

LEMMA WorkingReaderTypes ==
  ASSUME NEW x \in Readers
  PROVE  /\ x.fd \in Descriptors \cup {0}
         /\ \A g \in Boots :
              /\ [x EXCEPT !.at = "reading", !.pipe = g] \in Readers
              /\ [x EXCEPT !.at = "reading", !.pipe = g].at = "reading"
              /\ [x EXCEPT !.at = "reading", !.pipe = g].pipe = g
         /\ \A c \in Chunks :
              /\ [x EXCEPT !.at = "append", !.chunk = c] \in Readers
              /\ [x EXCEPT !.at = "append", !.chunk = c].at = "append"
              /\ [x EXCEPT !.at = "append", !.chunk = c].chunk = c
  BY DEF Readers

\* Every variable keeps its type.
LEMMA TypeInvariant == Spec => []TypeInv
<1>1. Init => TypeInv
  <2> SUFFICES ASSUME Init PROVE TypeInv
    OBVIOUS
  <2>1. reader \in [Boots -> Readers]
    BY ReaderTypes DEF Init
  <2>2. ReadersAtWork
    BY DEF Init, ReadersAtWork, NoReader
  <2>3. QED
    BY <2>1, <2>2, Bounds DEF Init, TypeInv, TypeOK
<1>2. TypeInv /\ [Next]_vars => TypeInv'
  <2> SUFFICES ASSUME TypeInv, [Next]_vars
               PROVE  TypeInv'
    OBVIOUS
  <2> USE Bounds DEF TypeInv, TypeOK, ReadersAtWork, Boots
  <2>m. ASSUME NEW r \in Boots, NEW at \in {"check", "enter"}, Move(r, at)
        PROVE  reader' \in [Boots -> Readers] /\ ReadersAtWork'
    <3>1. reader[r].fd \in Descriptors \cup {0}
      BY WorkingReaderTypes
    <3>2. QED
      BY <2>m, <3>1, ReaderTypes, ReaderChange DEF Move
  <2>e. ASSUME NEW r \in Boots, NEW at \in {"done", "asserted"}, End(r, at)
        PROVE  reader' \in [Boots -> Readers] /\ ReadersAtWork'
    BY <2>e, ReaderTypes, ReaderChange DEF End
  <2>1. CASE Start
    <3>1. starts' \in Boots
      BY <2>1 DEF Start
    <3>2. reader' \in [Boots -> Readers] /\ ReadersAtWork'
      BY <2>1, <3>1, ReaderTypes, ReaderChange DEF Start
    <3>3. fd' \in [Boots -> Descriptors \cup {0}] /\ open' \subseteq Boots
      BY <2>1, <3>1 DEF Start, StillOpen
    <3>4. qemu' \in [Boots -> {"none", "running", "quitting", "killed", "dead"}]
      BY <2>1, <3>1 DEF Start
    <3>5. serialLog' \in Seq(Chunks)
      BY <2>1 DEF Start, ClearedLog
    <3>6. QED
      BY <2>1, <3>1, <3>2, <3>3, <3>4, <3>5 DEF Start
  <2>2. CASE StartFails
    BY <2>2 DEF StartFails, ClearedLog, qemuVars
  <2>3. CASE Stop
    BY <2>3 DEF Stop
  <2>4. CASE StopDone
    BY <2>4 DEF StopDone
  <2>5. CASE StopKills
    BY <2>5 DEF StopKills
  <2>6. CASE StopGivesUp
    BY <2>6 DEF StopGivesUp, qemuVars
  <2>7. ASSUME NEW t \in Awaited, WaitForSerial(t)
        PROVE  TypeInv'
    BY <2>7 DEF WaitForSerial, qemuVars
  <2>8. CASE Look
    BY <2>8 DEF Look, Finish, qemuVars
  <2>9. CASE Poll
    BY <2>9 DEF Poll, Finish, qemuVars
  <2>10. CASE Deadline
    BY <2>10 DEF Deadline, Finish, qemuVars
  <2>11. ASSUME NEW r \in Boots, ReaderBegins(r)
         PROVE  TypeInv'
    <3>1. reader' \in [Boots -> Readers] /\ ReadersAtWork'
      <4>1. CASE process = 0
        BY <2>11, <4>1, <2>e DEF ReaderBegins
      <4>2. CASE process # 0
        <5>1. fd[process] \in Descriptors \cup {0}
          BY <4>2
        <5>2. QED
          BY <2>11, <4>2, <5>1, ReaderTypes, ReaderChange DEF ReaderBegins
      <4>3. QED
        BY <4>1, <4>2
    <3>2. QED
      BY <2>11, <3>1 DEF ReaderBegins, qemuVars
  <2>12. ASSUME NEW r \in Boots, ReaderChecks(r)
         PROVE  TypeInv'
    <3>1. reader' \in [Boots -> Readers] /\ ReadersAtWork'
      BY <2>12, <2>e, <2>m DEF ReaderChecks
    <3>2. QED
      BY <2>12, <3>1 DEF ReaderChecks, qemuVars
  <2>13. ASSUME NEW r \in Boots, ReaderEnters(r)
         PROVE  TypeInv'
    <3>1. reader' \in [Boots -> Readers] /\ ReadersAtWork'
      <4>1. CASE End(r, "done")
        BY <4>1, <2>e
      <4>2. ASSUME NEW g \in Boots,
                   Becomes(r, [reader[r] EXCEPT !.at = "reading", !.pipe = g])
            PROVE  reader' \in [Boots -> Readers] /\ ReadersAtWork'
        <5> DEFINE x == [reader[r] EXCEPT !.at = "reading", !.pipe = g]
        <5>1. reader[r] \in Readers
          OBVIOUS
        <5>2. x \in Readers /\ x.at = "reading" /\ x.pipe = g
          BY <5>1 DEF Readers
        <5>3. Becomes(r, x)
          BY <4>2
        <5> HIDE DEF x
        <5>4. QED
          BY <5>2, <5>3, ReaderChange
      <4>3. QED
        BY <2>13, <4>1, <4>2 DEF ReaderEnters
    <3>2. QED
      BY <2>13, <3>1 DEF ReaderEnters, qemuVars
  <2>14. ASSUME NEW r \in Boots, ReaderReads(r)
         PROVE  TypeInv'
    <3>1. /\ reader[r].pipe \in Boots
          /\ taken[reader[r].pipe] < printed[reader[r].pipe]
      BY <2>14 DEF ReaderReads
    <3>2. /\ taken' \in [Boots -> 0..MaxChunks]
          /\ taken'[reader[r].pipe] \in 1..MaxChunks
      BY <2>14, <3>1 DEF ReaderReads
    <3>3. <<reader[r].pipe, taken'[reader[r].pipe]>> \in Chunks
      BY <3>1, <3>2 DEF Chunks, Texts
    <3>4. reader' \in [Boots -> Readers] /\ ReadersAtWork'
      <4> DEFINE c == <<reader[r].pipe, taken'[reader[r].pipe]>>
                 x == [reader[r] EXCEPT !.at = "append", !.chunk = c]
      <4>1. reader[r] \in Readers
        OBVIOUS
      <4>2. Becomes(r, x)
        BY <2>14 DEF ReaderReads
      <4>3. c \in Chunks
        BY <3>3
      <4> HIDE DEF c
      <4>4. x \in Readers /\ x.at = "append" /\ x.chunk = c
        BY <4>1, <4>3, WorkingReaderTypes
      <4> HIDE DEF x
      <4>5. QED
        BY <4>2, <4>3, <4>4, ReaderChange
    <3>5. QED
      BY <2>14, <3>2, <3>4 DEF ReaderReads
  <2>15. ASSUME NEW r \in Boots, ReaderAtEnd(r)
         PROVE  TypeInv'
    <3>1. reader' \in [Boots -> Readers] /\ ReadersAtWork'
      BY <2>15, <2>e DEF ReaderAtEnd
    <3>2. QED
      BY <2>15, <3>1 DEF ReaderAtEnd, qemuVars
  <2>16. ASSUME NEW r \in Boots, ReaderAppends(r)
         PROVE  TypeInv'
    <3>1. reader' \in [Boots -> Readers] /\ ReadersAtWork'
      BY <2>16, <2>m DEF ReaderAppends
    <3>2. serialLog' \in Seq(Chunks)
      BY <2>16 DEF ReaderAppends
    <3>3. QED
      BY <2>16, <3>1, <3>2 DEF ReaderAppends, qemuVars
  <2>17. ASSUME NEW g \in Boots, QemuPrints(g)
         PROVE  TypeInv'
    BY <2>17 DEF QemuPrints
  <2>18. ASSUME NEW g \in Boots, QemuExits(g)
         PROVE  TypeInv'
    BY <2>18 DEF QemuExits
  <2>19. CASE UNCHANGED vars
    BY <2>19 DEF vars
  <2>20. QED
    BY <2>1, <2>2, <2>3, <2>4, <2>5, <2>6, <2>7, <2>8, <2>9, <2>10, <2>11,
       <2>12, <2>13, <2>14, <2>15, <2>16, <2>17, <2>18, <2>19
    DEF Next, StopStep, WaitStep, ReaderStep
<1>3. QED
  BY <1>1, <1>2, PTL DEF Spec

\* Types, for every instance.
THEOREM TypeCorrect == Spec => []TypeOK
<1>1. TypeInv => TypeOK
  BY DEF TypeInv
<1>2. QED
  BY <1>1, TypeInvariant, PTL
-----------------------------------------------------------------------------
\* stop works on a process, and one that it gives up on has been killed: from
\* the kill on, `_process' is killed or dead.
StopInv ==
  /\ pc \in {"stopping", "killing"} => process # 0
  /\ pc = "killing" => qemu[process] \in {"killed", "dead"}

StrayInv == StopInv /\ NoStrayQemu

LEMMA StrayStep ==
  ASSUME TypeInv, StrayInv, [Next]_vars
  PROVE  StrayInv'
<1> USE DEF TypeInv, TypeOK, StrayInv, StopInv, NoStrayQemu, Boots
<1>1. CASE Start
  <2>1. starts' \in Boots
    BY <1>1, Bounds DEF Start
  <2>2. \A g \in Boots : qemu[g] \in {"none", "killed", "dead"}
    BY <1>1 DEF Start
  <2>3. QED
    BY <1>1, <2>1, <2>2 DEF Start
<1>2. CASE StartFails
  BY <1>2 DEF StartFails, qemuVars
<1>3. CASE Stop
  BY <1>3 DEF Stop
<1>4. CASE StopDone
  BY <1>4 DEF StopDone, Alive
<1>5. CASE StopKills
  BY <1>5 DEF StopKills
<1>6. CASE StopGivesUp
  BY <1>6 DEF StopGivesUp, qemuVars
<1>7. ASSUME NEW t \in Awaited, WaitForSerial(t)
      PROVE  StrayInv'
  BY <1>7 DEF WaitForSerial, qemuVars
<1>8. CASE WaitStep \/ Deadline
  BY <1>8 DEF WaitStep, Look, Poll, Deadline, Finish, qemuVars
<1>9. ASSUME NEW r \in Boots, ReaderStep(r)
      PROVE  StrayInv'
  <2>1. UNCHANGED <<pc, process, qemu>>
    BY <1>9 DEF ReaderStep, ReaderBegins, ReaderChecks, ReaderEnters,
                ReaderReads, ReaderAtEnd, ReaderAppends, qemuVars
  <2>2. QED
    BY <2>1
<1>10. ASSUME NEW g \in Boots, QemuPrints(g)
       PROVE  StrayInv'
  BY <1>10 DEF QemuPrints
<1>11. ASSUME NEW g \in Boots, QemuExits(g)
       PROVE  StrayInv'
  BY <1>11 DEF QemuExits
<1>12. CASE UNCHANGED vars
  BY <1>12 DEF vars
<1>13. QED
  BY <1>1, <1>2, <1>3, <1>4, <1>5, <1>6, <1>7, <1>8, <1>9, <1>10, <1>11,
     <1>12
  DEF Next, StopStep

\* stop leaves no QEMU running that has not been killed, and start does not
\* lose one, for every number of starts and also if kills fail.
THEOREM NoStray == Spec => []NoStrayQemu
<1>1. Init => StrayInv
  BY DEF Init, StrayInv, StopInv, NoStrayQemu
<1>2. TypeInv /\ StrayInv /\ [Next]_vars => StrayInv'
  BY StrayStep
<1>3. StrayInv => NoStrayQemu
  BY DEF StrayInv
<1>4. QED
  BY <1>1, <1>2, <1>3, TypeInvariant, PTL DEF Spec

-----------------------------------------------------------------------------
\* Nothing of a boot is there before its start, and nobody reads from it.
NotBefore ==
  /\ \A g \in Boots : g > starts =>
       reader[g].at = "none" /\ taken[g] = 0 /\ g \notin open
  /\ \A r \in Boots : reader[r].at = "reading" => reader[r].pipe <= starts

\* Up to the second start there is one reader on one pipe.  The log is what it
\* has taken from the pipe, but for the chunk in its hands.
LogIsTaken ==
  starts <= 1 =>
    /\ \A i \in DOMAIN serialLog : serialLog[i] = <<1, i>>
    /\ reader[1].at = "reading" => reader[1].pipe = 1
    /\ IF reader[1].at = "append"
       THEN /\ reader[1].chunk = <<1, Len(serialLog) + 1>>
            /\ taken[1] = Len(serialLog) + 1
       ELSE taken[1] = Len(serialLog)

CaptureInv == NotBefore /\ LogIsTaken

LEMMA CaptureStep ==
  ASSUME TypeInv, CaptureInv, [Next]_vars
  PROVE  CaptureInv'
<1> USE Bounds DEF TypeInv, TypeOK, CaptureInv, NotBefore, LogIsTaken, Boots
<1>0. 1 \in Boots /\ Len(serialLog) \in Nat
  BY LenProperties
<1>p. \A r \in Boots : reader[r].at = "reading" => reader[r].pipe \in Boots
  BY DEF ReadersAtWork
<1>1. CASE Start
  <2>1. starts' \in Boots /\ starts' = starts + 1
    BY <1>1 DEF Start
  <2>2. NotBefore'
    <3>1. /\ open' \subseteq open \cup {starts'}
          /\ taken' = taken
          /\ \A q \in Boots : q # starts' => reader'[q] = reader[q]
      BY <1>1, <2>1 DEF Start, StillOpen, Becomes
    <3>2. reader'[starts'].at = "begin"
      BY <1>1, <2>1 DEF Start, Becomes, NoReader
    <3>3. ASSUME NEW q \in Boots
          PROVE  /\ q > starts' =>
                      reader'[q].at = "none" /\ taken'[q] = 0 /\ q \notin open'
                 /\ reader'[q].at = "reading" => reader'[q].pipe <= starts'
      <4>1. CASE q = starts'
        BY <2>1, <3>2, <4>1
      <4>2. CASE q # starts'
        BY <1>p, <2>1, <3>1, <4>2
      <4>3. QED
        BY <4>1, <4>2
    <3>4. QED
      BY <3>3
  <2>3. starts' <= 1 => starts' = 1 /\ reader'[1].at = "begin" /\ taken'[1] = 0
    BY <1>1, <1>0, <2>1 DEF Start, Becomes, NoReader
  <2>4. serialLog' = <<>> /\ Len(serialLog') = 0
    BY <1>1 DEF Start, ClearedLog
  <2>5. LogIsTaken'
    BY <2>3, <2>4
  <2>6. QED
    BY <2>2, <2>5
<1>2. CASE StartFails
  <2>1. starts' \in Boots /\ starts' = starts + 1
    BY <1>2 DEF StartFails
  <2>2. serialLog' = <<>> /\ Len(serialLog') = 0
    BY <1>2 DEF StartFails, ClearedLog
  <2>3. UNCHANGED <<reader, taken, open>>
    BY <1>2 DEF StartFails, qemuVars
  <2>4. starts' <= 1 => reader[1].at = "none" /\ taken[1] = 0
    BY <1>0, <2>1
  <2>5. NotBefore'
    BY <1>p, <2>1, <2>3
  <2>6. LogIsTaken'
    BY <2>2, <2>3, <2>4
  <2>7. QED
    BY <2>5, <2>6
<1>3. CASE \/ Stop \/ StopStep \/ WaitStep \/ Deadline
           \/ \E t \in Awaited : WaitForSerial(t)
           \/ \E g \in Boots : QemuPrints(g) \/ QemuExits(g)
           \/ UNCHANGED vars
  <2>1. UNCHANGED <<starts, serialLog, reader, taken>> /\ open' \subseteq open
    BY <1>3 DEF Stop, StopStep, StopDone, StopKills, StopGivesUp, WaitStep,
                Look, Poll, Deadline, WaitForSerial, QemuPrints, QemuExits,
                Finish, qemuVars, vars
  <2>2. QED
    BY <2>1
<1>4. ASSUME NEW r \in Boots,
             ReaderBegins(r) \/ ReaderChecks(r) \/ ReaderAtEnd(r)
      PROVE  CaptureInv'
  <2>1. /\ reader[r].at \in {"begin", "check", "reading"}
        /\ reader'[r].at \in {"check", "enter", "done", "asserted"}
        /\ \A q \in Boots : q # r => reader'[q] = reader[q]
    BY <1>4 DEF ReaderBegins, ReaderChecks, ReaderAtEnd, End, Move, Becomes,
                NoReader
  <2>2. UNCHANGED <<starts, serialLog, taken, open>>
    BY <1>4 DEF ReaderBegins, ReaderChecks, ReaderAtEnd, qemuVars
  <2>3. QED
    BY <1>0, <2>1, <2>2
<1>5. ASSUME NEW r \in Boots, ReaderEnters(r)
      PROVE  CaptureInv'
  <2>r. reader[r] \in Readers
    OBVIOUS
  <2>1. /\ reader[r].at = "enter"
        /\ \/ reader'[r].at = "done"
           \/ reader'[r].at = "reading" /\ reader'[r].pipe \in open
        /\ \A q \in Boots : q # r => reader'[q] = reader[q]
    <3>1. CASE End(r, "done")
      BY <1>5, <3>1 DEF ReaderEnters, End, Becomes, NoReader
    <3>2. ASSUME NEW g \in open,
                 Becomes(r, [reader[r] EXCEPT !.at = "reading", !.pipe = g])
          PROVE  /\ reader'[r].at = "reading" /\ reader'[r].pipe \in open
                 /\ \A q \in Boots : q # r => reader'[q] = reader[q]
      BY <3>2, <2>r DEF Becomes, Readers
    <3>3. reader[r].at = "enter"
      BY <1>5 DEF ReaderEnters
    <3>4. \A q \in Boots : q # r => reader'[q] = reader[q]
      BY <1>5 DEF ReaderEnters, End, Becomes
    <3>5. QED
      BY <1>5, <3>1, <3>2, <3>3, <3>4 DEF ReaderEnters
  <2>2. UNCHANGED <<starts, serialLog, taken, open>>
    BY <1>5 DEF ReaderEnters, qemuVars
  <2>3. starts <= 1 => \A g \in open : g = 1
    OBVIOUS
  <2>4. NotBefore'
    <3>1. ASSUME NEW g \in open
          PROVE  g <= starts
      <4>1. g \in Boots /\ starts \in 0..MaxStarts /\ ~(g > starts)
        OBVIOUS
      <4>2. QED
        BY <4>1
    <3>2. reader[r].at # "none" /\ r <= starts
      <4>1. reader[r].at # "none" /\ starts \in 0..MaxStarts /\ ~(r > starts)
        BY <2>1
      <4>2. QED
        BY <4>1
    <3>3. ASSUME NEW q \in Boots
          PROVE  /\ q > starts => reader'[q].at = "none"
                 /\ reader'[q].at = "reading" => reader'[q].pipe <= starts
      <4>1. CASE q = r
        BY <2>1, <3>1, <3>2, <4>1
      <4>2. CASE q # r
        BY <2>1, <4>2
      <4>3. QED
        BY <4>1, <4>2
    <3>4. QED
      BY <2>2, <3>3
  <2>5. LogIsTaken'
    BY <1>0, <2>1, <2>2, <2>3
  <2>6. QED
    BY <2>4, <2>5
<1>6. ASSUME NEW r \in Boots, ReaderReads(r)
      PROVE  CaptureInv'
  <2> DEFINE g == reader[r].pipe
  <2>1. /\ reader[r].at = "reading"
        /\ g \in Boots
        /\ taken' = [taken EXCEPT ![g] = @ + 1]
        /\ reader'[r].at = "append"
        /\ reader'[r].chunk = <<g, taken'[g]>>
        /\ \A q \in Boots : q # r => reader'[q] = reader[q]
        /\ UNCHANGED <<starts, serialLog, open>>
    BY <1>6 DEF ReaderReads, Becomes, ReadersAtWork, Readers
  <2>2. starts <= 1 => r = 1 /\ g = 1
    BY <2>1
  <2>3. NotBefore'
    <3>1. reader[r].at # "none" /\ r <= starts
      BY <2>1
    <3>2. \A q \in Boots : q # g => taken'[q] = taken[q]
      BY <2>1
    <3>3. g <= starts
      BY <2>1
    <3>4. ASSUME NEW q \in Boots
          PROVE  /\ q > starts => reader'[q].at = "none" /\ taken'[q] = 0
                 /\ reader'[q].at = "reading" => reader'[q].pipe <= starts
      <4>1. q > starts => q # r /\ q # g
        BY <2>1, <3>1, <3>3
      <4>2. q # r => reader'[q] = reader[q]
        BY <2>1
      <4>3. q = r => reader'[q].at # "reading"
        BY <2>1
      <4>4. QED
        BY <3>2, <4>1, <4>2, <4>3
    <3>5. QED
      BY <2>1, <3>4
  <2>4. LogIsTaken'
    <3>1. SUFFICES ASSUME starts <= 1
                   PROVE  LogIsTaken'
      BY <2>1
    <3>2. r = 1 /\ g = 1 /\ taken[1] = Len(serialLog)
      BY <2>1, <2>2, <3>1
    <3>3. taken'[1] = Len(serialLog) + 1
      BY <1>0, <2>1, <3>2
    <3>4. QED
      BY <2>1, <3>1, <3>2, <3>3
  <2>5. QED
    BY <2>3, <2>4
<1>7. ASSUME NEW r \in Boots, ReaderAppends(r)
      PROVE  CaptureInv'
  <2>1. /\ reader[r].at = "append"
        /\ reader'[r].at = "check"
        /\ \A q \in Boots : q # r => reader'[q] = reader[q]
        /\ serialLog' = Append(serialLog, reader[r].chunk)
        /\ UNCHANGED <<starts, taken, open>>
    BY <1>7 DEF ReaderAppends, Move, Becomes, NoReader, qemuVars
  <2>2. starts <= 1 => r = 1
    BY <2>1
  <2>3. reader[r].chunk \in Chunks
    BY <2>1 DEF ReadersAtWork
  <2>4. /\ Len(serialLog') = Len(serialLog) + 1
        /\ \A i \in DOMAIN serialLog : serialLog'[i] = serialLog[i]
        /\ serialLog'[Len(serialLog) + 1] = reader[r].chunk
        /\ DOMAIN serialLog' = 1..(Len(serialLog) + 1)
        /\ DOMAIN serialLog = 1..Len(serialLog)
    BY <2>1, <2>3, AppendProperties, LenProperties
  <2>5. NotBefore'
    BY <2>1
  <2>6. LogIsTaken'
    BY <1>0, <2>1, <2>2, <2>4
  <2>7. QED
    BY <2>5, <2>6
<1>8. QED
  BY <1>1, <1>2, <1>3, <1>4, <1>5, <1>6, <1>7 DEF Next, ReaderStep

\* Until the second start, the log is a gapless prefix of what QEMU printed,
\* whatever is stopped, exits or fails meanwhile.
THEOREM InOrder == Spec => []CapturedInOrder
<1>1. Init => CaptureInv
  BY Bounds
  DEF Init, CaptureInv, NotBefore, LogIsTaken, NoReader, Boots
<1>2. TypeInv /\ CaptureInv /\ [Next]_vars => CaptureInv'
  BY CaptureStep
<1>3. CaptureInv => CapturedInOrder
  BY DEF CaptureInv, LogIsTaken, CapturedInOrder
<1>4. QED
  BY <1>1, <1>2, <1>3, TypeInvariant, PTL DEF Spec
-----------------------------------------------------------------------------
\* The readers that have output of another boot in their hands, or are about to
\* get it: they were inside os.read when the current boot started.
Carriers ==
  {r \in Boots :
     \/ reader[r].at = "reading" /\ reader[r].pipe # starts
     \/ reader[r].at = "append" /\ reader[r].chunk[1] # starts}

Within(stale, carriers, n) ==
  \/ stale = {} /\ carriers = {}
  \/ Cardinality(stale) + Cardinality(carriers) < n

StaleInv ==
  /\ process \in {0, starts}
  /\ open \subseteq {starts} => Within(Stale, Carriers, starts)

LEMMA FiniteParts ==
  ASSUME TypeOK
  PROVE  /\ IsFiniteSet(Stale) /\ Cardinality(Stale) \in Nat
         /\ IsFiniteSet(Carriers) /\ Cardinality(Carriers) \in Nat
<1>1. Stale \subseteq 1..Len(serialLog) /\ IsFiniteSet(1..Len(serialLog))
  <2>1. Len(serialLog) \in Nat /\ DOMAIN serialLog = 1..Len(serialLog)
    BY LenProperties DEF TypeOK
  <2>2. IsFiniteSet(1..Len(serialLog))
    BY <2>1, FS_Interval
  <2>3. QED
    BY <2>1, <2>2 DEF Stale
<1>2. Carriers \subseteq 1..MaxStarts /\ IsFiniteSet(1..MaxStarts)
  BY Bounds, FS_Interval DEF Carriers, Boots
<1>3. QED
  BY <1>1, <1>2, FS_Subset, FS_CardinalityType

\* A step that adds neither stale output nor carriers.
LEMMA StaleKept ==
  ASSUME TypeOK, TypeOK', StaleInv,
         UNCHANGED <<starts, serialLog>>,
         process' \in {0, process},
         open' \subseteq open, open \subseteq open' \cup {process},
         open \subseteq {starts} => Carriers' \subseteq Carriers
  PROVE  StaleInv'
<1>1. process' \in {0, starts'}
  BY DEF StaleInv
<1>2. SUFFICES ASSUME open' \subseteq {starts'}
               PROVE  Within(Stale', Carriers', starts')
  BY <1>1 DEF StaleInv, Within
<1>3. open \subseteq {starts}
  <2>1. 0 \notin open
    BY DEF TypeOK, Boots
  <2>2. QED
    BY <1>2, <2>1 DEF StaleInv
<1>4. Stale' = Stale
  BY DEF Stale
<1>5. Cardinality(Carriers') <= Cardinality(Carriers)
  BY <1>3, FiniteParts, FS_Subset
<1>6. Cardinality(Carriers') \in Nat /\ Cardinality(Carriers) \in Nat
      /\ Cardinality(Stale) \in Nat /\ starts \in Nat
  <2>1. IsFiniteSet(Carriers')
    BY <1>3, FiniteParts, FS_Subset
  <2>2. QED
    BY <2>1, FiniteParts, FS_CardinalityType DEF TypeOK
<1>7. Within(Stale, Carriers, starts)
  BY <1>3 DEF StaleInv
<1>8. QED
  BY <1>3, <1>4, <1>5, <1>6, <1>7 DEF Within

\* After a start, or one that failed, the log is empty, and only readers of
\* earlier boots can be carriers.
LEMMA StaleStarts ==
  ASSUME TypeOK, TypeOK', NotBefore, process' \in {0, starts'},
         starts' = starts + 1, serialLog' = <<>>,
         \A r \in Boots \ {starts'} : reader'[r] = reader[r],
         reader'[starts'].at \in {"none", "begin"}
  PROVE  StaleInv'
<1>1. Stale' = {}
  BY DEF Stale
<1>2. starts \in Nat /\ starts' \in Boots
  BY Bounds DEF TypeOK, Boots
<1>3. Carriers' \subseteq 1..starts
  <2> SUFFICES ASSUME NEW r \in Boots, reader'[r].at \in {"reading", "append"}
               PROVE  r \in 1..starts
    BY DEF Carriers, Boots
  <2>1. r # starts' /\ reader'[r] = reader[r]
    OBVIOUS
  <2>2. ~(r > starts)
    BY <2>1 DEF NotBefore
  <2>3. QED
    BY <1>2, <2>2, Bounds DEF Boots
<1>4. /\ IsFiniteSet(1..starts) /\ Cardinality(1..starts) = starts
  BY <1>2, FS_Interval
<1>5. Cardinality(Carriers') <= starts /\ Cardinality(Carriers') \in Nat
  BY <1>3, <1>4, FS_Subset, FS_CardinalityType
<1>6. Cardinality(Stale') = 0
  BY <1>1, FS_EmptySet
<1>7. QED
  BY <1>2, <1>5, <1>6 DEF StaleInv, Within

\* An append moves at most one carrier's chunk into the log.
LEMMA StaleAppends ==
  ASSUME TypeInv, TypeOK', StaleInv, NEW r \in Boots, ReaderAppends(r)
  PROVE  StaleInv'
<1> USE DEF TypeInv
<1>1. /\ reader[r].at = "append"
      /\ reader'[r].at = "check"
      /\ \A q \in Boots : q # r => reader'[q] = reader[q]
      /\ serialLog' = Append(serialLog, reader[r].chunk)
      /\ UNCHANGED <<starts, process, open>>
  BY DEF ReaderAppends, Move, Becomes, NoReader, qemuVars, TypeOK
<1>2. reader[r].chunk \in Chunks
  BY <1>1 DEF ReadersAtWork
<1>3. /\ \A i \in DOMAIN serialLog : serialLog'[i] = serialLog[i]
      /\ serialLog'[Len(serialLog) + 1] = reader[r].chunk
      /\ DOMAIN serialLog' = DOMAIN serialLog \cup {Len(serialLog) + 1}
      /\ Len(serialLog) + 1 \notin DOMAIN serialLog
  BY <1>1, <1>2, AppendProperties, LenProperties DEF TypeOK
<1>4. Carriers' = Carriers \ {r}
  BY <1>1 DEF Carriers
<1>5. /\ Cardinality(Stale) \in Nat /\ IsFiniteSet(Stale)
      /\ Cardinality(Carriers) \in Nat /\ IsFiniteSet(Carriers)
      /\ starts \in Nat
  BY FiniteParts DEF TypeOK
<1>6. SUFFICES ASSUME Within(Stale, Carriers, starts)
               PROVE  Within(Stale', Carriers', starts)
  BY <1>1 DEF StaleInv, Within
<1>7. CASE reader[r].chunk[1] = starts
  <2>1. Stale' = Stale /\ r \notin Carriers
    BY <1>1, <1>3, <1>7 DEF Stale, Carriers
  <2>2. QED
    BY <1>4, <1>6, <2>1 DEF Within
<1>8. CASE reader[r].chunk[1] # starts
  <2>1. r \in Carriers
    BY <1>1, <1>8 DEF Carriers
  <2>2. /\ Stale' = Stale \cup {Len(serialLog) + 1}
        /\ Len(serialLog) + 1 \notin Stale
    BY <1>1, <1>3, <1>8 DEF Stale
  <2>3. Cardinality(Stale') = Cardinality(Stale) + 1
    BY <1>5, <2>2, FS_AddElement
  <2>4. Cardinality(Carriers') = Cardinality(Carriers) - 1
    BY <1>4, <1>5, <2>1, FS_RemoveElement
  <2>5. QED
    BY <1>5, <1>6, <2>1, <2>3, <2>4 DEF Within
<1>9. QED
  BY <1>7, <1>8

LEMMA StaleStep ==
  ASSUME TypeInv, TypeOK', CaptureInv, StaleInv, [Next]_vars
  PROVE  StaleInv'
<1> USE DEF TypeInv
<1>1. CASE Start
  <2>1. starts' \in Boots
    BY <1>1, Bounds DEF Start, TypeOK, Boots
  <2>2. /\ \A r \in Boots \ {starts'} : reader'[r] = reader[r]
        /\ reader'[starts'].at = "begin"
    BY <1>1, <2>1 DEF Start, Becomes, NoReader, TypeOK
  <2>3. QED
    BY <1>1, <2>2, StaleStarts DEF Start, ClearedLog, CaptureInv
<1>2. CASE StartFails
  <2>1. starts' = starts + 1 /\ starts' \in Boots /\ starts \in Nat
    BY <1>2, Bounds DEF StartFails, TypeOK, Boots
  <2>2. UNCHANGED reader /\ reader[starts'].at = "none"
    BY <1>2, <2>1 DEF StartFails, CaptureInv, NotBefore
  <2>3. QED
    BY <1>2, <2>1, <2>2, StaleStarts DEF StartFails, ClearedLog, CaptureInv
<1>3. CASE \/ Stop \/ StopStep \/ WaitStep \/ Deadline
           \/ \E t \in Awaited : WaitForSerial(t)
           \/ \E g \in Boots : QemuPrints(g) \/ QemuExits(g)
           \/ UNCHANGED vars
  <2>1. /\ UNCHANGED <<starts, serialLog, reader>> /\ open' \subseteq open
        /\ process' \in {0, process} /\ open \subseteq open' \cup {process}
    BY <1>3 DEF Stop, StopStep, StopDone, StopKills, StopGivesUp, WaitStep,
                Look, Poll, Deadline, WaitForSerial, QemuPrints, QemuExits,
                Finish, qemuVars, vars
  <2>2. Carriers' = Carriers
    BY <2>1 DEF Carriers
  <2>3. QED
    BY <2>1, <2>2, StaleKept
<1>4. ASSUME NEW r \in Boots,
             \/ ReaderBegins(r) \/ ReaderChecks(r) \/ ReaderEnters(r)
             \/ ReaderReads(r) \/ ReaderAtEnd(r)
      PROVE  StaleInv'
  <2>1. /\ UNCHANGED <<starts, serialLog, process, open>>
        /\ \A q \in Boots : q # r => reader'[q] = reader[q]
    BY <1>4 DEF ReaderBegins, ReaderChecks, ReaderEnters, ReaderReads,
       ReaderAtEnd, Move, End, Becomes, qemuVars, TypeOK
  <2>2. ASSUME open \subseteq {starts}, r \in Carriers'
        PROVE  r \in Carriers
    <3>1. CASE ReaderBegins(r) \/ ReaderChecks(r) \/ ReaderAtEnd(r)
      <4> DEFINE Harmless == {"check", "enter", "done", "asserted"}
      <4>1. SUFFICES reader'[r].at \in Harmless
        BY <2>2 DEF Carriers
      <4>2. ASSUME NEW to \in Harmless, End(r, to) \/ Move(r, to)
            PROVE  reader'[r].at \in Harmless
        <5>1. CASE End(r, to)
          BY <5>1 DEF End, Becomes, NoReader, TypeOK
        <5>2. CASE Move(r, to)
          BY <5>2 DEF Move, Becomes, NoReader, TypeOK
        <5>3. QED
          BY <4>2, <5>1, <5>2
      <4>3. CASE ReaderBegins(r)
        <5>1. CASE process = 0
          BY <4>2, <4>3, <5>1 DEF ReaderBegins
        <5>2. CASE process # 0
          BY <4>3, <5>2 DEF ReaderBegins, Becomes, NoReader, TypeOK
        <5>3. QED
          BY <5>1, <5>2
      <4>4. CASE ReaderChecks(r)
        BY <4>2, <4>4 DEF ReaderChecks
      <4>5. CASE ReaderAtEnd(r)
        BY <4>2, <4>5 DEF ReaderAtEnd
      <4>6. QED
        BY <3>1, <4>3, <4>4, <4>5
    <3>2. CASE ReaderEnters(r)
      <4>1. CASE End(r, "done")
        <5>1. reader'[r].at = "done"
          BY <4>1 DEF End, Becomes, NoReader, TypeOK
        <5>2. QED
          BY <2>2, <5>1 DEF Carriers
      <4>2. ASSUME NEW g \in open,
                   Becomes(r, [reader[r] EXCEPT !.at = "reading", !.pipe = g])
            PROVE  FALSE
        <5>1. reader'[r].at = "reading" /\ reader'[r].pipe = g
          BY <4>2 DEF Becomes, Readers, TypeOK
        <5>2. QED
          BY <2>1, <2>2, <5>1 DEF Carriers
      <4>3. QED
        BY <3>2, <4>1, <4>2 DEF ReaderEnters
    <3>3. CASE ReaderReads(r)
      <4>1. /\ reader[r].at = "reading"
            /\ reader'[r].at = "append"
            /\ reader'[r].chunk[1] = reader[r].pipe
        BY <3>3 DEF ReaderReads, Becomes, Readers, TypeOK
      <4>2. QED
        BY <2>1, <2>2, <4>1 DEF Carriers
    <3>4. QED
      BY <1>4, <3>1, <3>2, <3>3
  <2>3. open \subseteq {starts} => Carriers' \subseteq Carriers
    BY <2>1, <2>2 DEF Carriers
  <2>4. QED
    BY <2>1, <2>3, StaleKept
<1>5. ASSUME NEW r \in Boots, ReaderAppends(r)
      PROVE  StaleInv'
  BY <1>5, StaleAppends
<1>6. QED
  BY <1>1, <1>2, <1>3, <1>4, <1>5 DEF Next, ReaderStep

\* Each of the readers that nobody joins adds at most one chunk of an earlier
\* boot, for every number of starts and readers.
THEOREM StaleBounded == Spec => []StaleOutputIsBounded
<1>1. Init => StaleInv
  BY DEF Init, StaleInv, Within, Stale, Carriers, NoReader
<1>2. Init => CaptureInv
  BY Bounds
  DEF Init, CaptureInv, NotBefore, LogIsTaken, NoReader, Boots
<1>3. TypeInv /\ CaptureInv /\ [Next]_vars => CaptureInv'
  BY CaptureStep
<1>4. TypeInv /\ TypeInv' /\ CaptureInv /\ StaleInv /\ [Next]_vars => StaleInv'
  BY StaleStep DEF TypeInv
<1>5. TypeInv /\ StaleInv => StaleOutputIsBounded
  BY FiniteParts
  DEF TypeInv, TypeOK, StaleInv, Within, StaleOutputIsBounded
<1>6. QED
  BY <1>1, <1>2, <1>3, <1>4, <1>5, TypeInvariant, PTL DEF Spec

-----------------------------------------------------------------------------
\* The chunks in the log and in the hands of readers are different ones, and
\* all of them were taken from the pipes that they were printed to.
OnceInv ==
  /\ \A g \in Boots : taken[g] <= printed[g]
  /\ \A i \in DOMAIN serialLog :
       /\ serialLog[i][2] <= taken[serialLog[i][1]]
       /\ \A j \in DOMAIN serialLog : serialLog[i] = serialLog[j] => i = j
  /\ \A r \in Boots : reader[r].at = "append" =>
       /\ reader[r].chunk[2] <= taken[reader[r].chunk[1]]
       /\ \A i \in DOMAIN serialLog : serialLog[i] # reader[r].chunk
       /\ \A q \in Boots :
            reader[q].at = "append" /\ reader[q].chunk = reader[r].chunk => q = r

\* A step that takes nothing from a pipe and hands nothing to a reader.
LEMMA OnceKept ==
  ASSUME TypeInv, OnceInv, UNCHANGED taken,
         \A g \in Boots : printed[g] <= printed'[g] /\ printed'[g] \in Nat,
         serialLog' \in {serialLog, <<>>},
         \A r \in Boots : \/ reader'[r] = reader[r]
                          \/ reader'[r].at # "append"
  PROVE  OnceInv'
<1>1. \A g \in Boots : taken'[g] <= printed'[g]
  BY DEF OnceInv, TypeInv, TypeOK
<1>2. CASE serialLog' = serialLog
  BY <1>1, <1>2 DEF OnceInv
<1>3. CASE serialLog' = <<>>
  <2>1. DOMAIN serialLog' = {}
    BY <1>3
  <2>2. QED
    BY <1>1, <2>1 DEF OnceInv
<1>4. QED
  BY <1>2, <1>3

LEMMA OnceReads ==
  ASSUME TypeInv, OnceInv, NEW r \in Boots, ReaderReads(r)
  PROVE  OnceInv'
<1> DEFINE g == reader[r].pipe
           c == <<g, taken[g] + 1>>
<1> USE DEF TypeInv, TypeOK
<1>1. /\ g \in Boots
      /\ taken[g] < printed[g]
      /\ taken' = [taken EXCEPT ![g] = @ + 1]
      /\ UNCHANGED <<printed, serialLog>>
  BY DEF ReaderReads, ReadersAtWork
<1>2. /\ reader'[r].at = "append"
      /\ reader'[r].chunk = c
      /\ \A q \in Boots : q # r => reader'[q] = reader[q]
  BY <1>1 DEF ReaderReads, Becomes, Readers
<1>3. \A h \in Boots : /\ taken[h] \in Nat /\ taken'[h] \in Nat
                       /\ printed[h] \in Nat
                       /\ taken[h] <= taken'[h]
                       /\ h = g => taken'[h] = taken[g] + 1
                       /\ h # g => taken'[h] = taken[h]
  BY <1>1, Bounds
<1> HIDE DEF g
\* What was taken before is not the chunk that is taken now.
<1>4. ASSUME NEW x \in Chunks, x[2] <= taken[x[1]]
      PROVE  x # c /\ x[2] <= taken'[x[1]]
  BY <1>1, <1>3, <1>4 DEF Chunks, Texts
<1>5. \A i \in DOMAIN serialLog : /\ serialLog[i] # c
                                  /\ serialLog[i][2] <= taken'[serialLog[i][1]]
  <2> SUFFICES ASSUME NEW i \in DOMAIN serialLog
               PROVE  /\ serialLog[i] # c
                      /\ serialLog[i][2] <= taken'[serialLog[i][1]]
    OBVIOUS
  <2>1. serialLog[i] \in Chunks
    BY ElementOfSeq, LenProperties
  <2>2. QED
    BY <1>4, <2>1 DEF OnceInv
<1>6. \A q \in Boots : q # r /\ reader[q].at = "append" =>
        /\ reader[q].chunk # c
        /\ reader[q].chunk[2] <= taken'[reader[q].chunk[1]]
  BY <1>4 DEF OnceInv, ReadersAtWork
<1>7. c[1] = g /\ c[2] = taken[g] + 1
  OBVIOUS
<1> HIDE DEF c
<1>8. \A h \in Boots : taken'[h] <= printed'[h]
  BY <1>1, <1>3 DEF OnceInv
<1>9. \A q \in Boots : reader'[q].at = "append" =>
        /\ reader'[q].chunk[2] <= taken'[reader'[q].chunk[1]]
        /\ \A i \in DOMAIN serialLog : serialLog[i] # reader'[q].chunk
  <2> SUFFICES ASSUME NEW q \in Boots, reader'[q].at = "append"
               PROVE  /\ reader'[q].chunk[2] <= taken'[reader'[q].chunk[1]]
                      /\ \A i \in DOMAIN serialLog :
                           serialLog[i] # reader'[q].chunk
    OBVIOUS
  <2>1. CASE q = r
    BY <1>1, <1>2, <1>3, <1>5, <1>7, <2>1
  <2>2. CASE q # r
    BY <1>2, <1>6, <2>2 DEF OnceInv
  <2>3. QED
    BY <2>1, <2>2
<1>10. \A p, q \in Boots :
         /\ reader'[p].at = "append" /\ reader'[q].at = "append"
         /\ reader'[p].chunk = reader'[q].chunk
         => p = q
  BY <1>2, <1>6 DEF OnceInv
<1>11. QED
  BY <1>1, <1>5, <1>8, <1>9, <1>10 DEF OnceInv

LEMMA OnceAppends ==
  ASSUME TypeInv, OnceInv, NEW r \in Boots, ReaderAppends(r)
  PROVE  OnceInv'
<1> USE DEF TypeInv, TypeOK
<1>1. /\ reader[r].at = "append"
      /\ reader'[r].at = "check"
      /\ \A q \in Boots : q # r => reader'[q] = reader[q]
      /\ serialLog' = Append(serialLog, reader[r].chunk)
      /\ UNCHANGED <<taken, printed>>
  BY DEF ReaderAppends, Move, Becomes, NoReader, qemuVars
<1>2. reader[r].chunk \in Chunks
  BY <1>1 DEF ReadersAtWork
<1>3. /\ \A i \in DOMAIN serialLog : serialLog'[i] = serialLog[i]
      /\ serialLog'[Len(serialLog) + 1] = reader[r].chunk
      /\ DOMAIN serialLog' = DOMAIN serialLog \cup {Len(serialLog) + 1}
      /\ Len(serialLog) + 1 \notin DOMAIN serialLog
  BY <1>1, <1>2, AppendProperties, LenProperties
<1>4. \A q \in Boots : reader'[q].at = "append" =>
        q # r /\ reader'[q] = reader[q] /\ reader[q].chunk # reader[r].chunk
  BY <1>1 DEF OnceInv
<1>5. \A i \in DOMAIN serialLog' :
        /\ serialLog'[i][2] <= taken'[serialLog'[i][1]]
        /\ \A j \in DOMAIN serialLog' : serialLog'[i] = serialLog'[j] => i = j
  BY <1>1, <1>3 DEF OnceInv
<1>6. QED
  BY <1>1, <1>3, <1>4, <1>5 DEF OnceInv

LEMMA OnceStep ==
  ASSUME TypeInv, OnceInv, [Next]_vars
  PROVE  OnceInv'
<1>n. \A g \in Boots : printed[g] \in Nat
  BY Bounds DEF TypeInv, TypeOK
<1>1. CASE Start
  <2>1. starts' \in Boots
    BY <1>1, Bounds DEF Start, TypeInv, TypeOK, Boots
  <2>2. /\ \A r \in Boots \ {starts'} : reader'[r] = reader[r]
        /\ reader'[starts'].at = "begin"
    BY <1>1, <2>1 DEF Start, Becomes, NoReader, TypeInv, TypeOK
  <2>3. QED
    BY <1>1, <1>n, <2>2, OnceKept DEF Start, ClearedLog
<1>2. CASE StartFails
  BY <1>2, <1>n, OnceKept DEF StartFails, ClearedLog, qemuVars
<1>3. CASE \/ Stop \/ StopStep \/ WaitStep \/ Deadline
           \/ \E t \in Awaited : WaitForSerial(t)
           \/ \E g \in Boots : QemuExits(g)
           \/ UNCHANGED vars
  <2>1. UNCHANGED <<serialLog, reader, taken, printed>>
    BY <1>3 DEF Stop, StopStep, StopDone, StopKills, StopGivesUp, WaitStep,
                Look, Poll, Deadline, WaitForSerial, QemuExits, Finish,
                qemuVars, vars
  <2>2. QED
    BY <1>n, <2>1, OnceKept
<1>4. ASSUME NEW g \in Boots, QemuPrints(g)
      PROVE  OnceInv'
  <2>1. \A h \in Boots : printed[h] <= printed'[h] /\ printed'[h] \in Nat
    BY <1>4, <1>n DEF QemuPrints, TypeInv, TypeOK
  <2>2. UNCHANGED <<serialLog, reader, taken>>
    BY <1>4 DEF QemuPrints
  <2>3. QED
    BY <2>1, <2>2, OnceKept
<1>5. ASSUME NEW r \in Boots,
             \/ ReaderBegins(r) \/ ReaderChecks(r) \/ ReaderEnters(r)
             \/ ReaderAtEnd(r)
      PROVE  OnceInv'
  <2>1. UNCHANGED <<serialLog, taken, printed>>
    BY <1>5 DEF ReaderBegins, ReaderChecks, ReaderEnters, ReaderAtEnd, qemuVars
  <2>2. \A q \in Boots : q # r => reader'[q] = reader[q]
    BY <1>5 DEF ReaderBegins, ReaderChecks, ReaderEnters, ReaderAtEnd, Move,
       End, Becomes, TypeInv, TypeOK
  <2>3. reader'[r].at # "append"
    <3>1. CASE ReaderBegins(r) \/ ReaderChecks(r) \/ ReaderAtEnd(r)
      BY <3>1 DEF ReaderBegins, ReaderChecks, ReaderAtEnd, Move, End, Becomes,
         NoReader, TypeInv, TypeOK
    <3>2. CASE ReaderEnters(r)
      <4>1. CASE End(r, "done")
        BY <4>1 DEF End, Becomes, NoReader, TypeInv, TypeOK
      <4>2. ASSUME NEW g \in open,
                   Becomes(r, [reader[r] EXCEPT !.at = "reading", !.pipe = g])
            PROVE  reader'[r].at # "append"
        BY <4>2 DEF Becomes, Readers, TypeInv, TypeOK
      <4>3. QED
        BY <3>2, <4>1, <4>2 DEF ReaderEnters
    <3>3. QED
      BY <1>5, <3>1, <3>2
  <2>4. QED
    BY <1>n, <2>1, <2>2, <2>3, OnceKept
<1>6. ASSUME NEW r \in Boots, ReaderReads(r) \/ ReaderAppends(r)
      PROVE  OnceInv'
  BY <1>6, OnceReads, OnceAppends
<1>7. QED
  BY <1>1, <1>2, <1>3, <1>4, <1>5, <1>6 DEF Next, ReaderStep

\* No chunk is captured twice, and none that was not printed, for every number
\* of starts, of readers left behind and of descriptors used again.
THEOREM Once == Spec => []CapturedOnce
<1>1. Init => OnceInv
  BY DEF Init, OnceInv, NoReader
<1>2. TypeInv /\ OnceInv /\ [Next]_vars => OnceInv'
  BY OnceStep
<1>3. TypeInv /\ OnceInv => CapturedOnce
  <2> SUFFICES ASSUME TypeInv, OnceInv, NEW i \in DOMAIN serialLog
               PROVE  serialLog[i][2] <= printed[serialLog[i][1]]
    BY DEF OnceInv, CapturedOnce
  <2>1. serialLog[i] \in Chunks
    BY ElementOfSeq, LenProperties DEF TypeInv, TypeOK
  <2>2. /\ serialLog[i][1] \in Boots /\ serialLog[i][2] \in Nat
        /\ taken[serialLog[i][1]] \in Nat /\ printed[serialLog[i][1]] \in Nat
    BY <2>1, Bounds DEF Chunks, Texts, TypeInv, TypeOK
  <2>3. QED
    BY <2>2 DEF OnceInv
<1>4. QED
  BY <1>1, <1>2, <1>3, TypeInvariant, PTL DEF Spec
=============================================================================
