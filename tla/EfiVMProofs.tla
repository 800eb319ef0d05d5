------------------------------ MODULE EfiVMProofs ------------------------------
(***************************************************************************)
(* Proofs about EfiVM for every host, configuration, image and work        *)
(* directory: what QEMU opens, which originals a guest can change, and     *)
(* what the with statement of a TPM leaves.                                *)
(***************************************************************************)
EXTENDS EfiVM, TLAPS

(***************************************************************************)
(* The TPM.                                                                *)
(***************************************************************************)

TpmInv ==
  /\ TpmTypeOK
  /\ tpmAt = "out" => tpm = "none"
  /\ tpmAt = "in" => tpm \notin {"none", "starting"}
  /\ tpmAt \in {"closing", "closed", "raised"} => ~TpmRuns
  /\ tpmAt \in {"killing", "exitRaised"} => tpmSignal = "KILL"
  /\ tpmAt = "closed" => ~tpmDir

LEMMA TpmPreserved ==
  ASSUME TpmInv, [TpmNext]_tpmVars
  PROVE  TpmInv'
<1> USE DEF TpmInv, TpmTypeOK, TpmRuns, Socket, TpmGoes
<1>1. CASE TpmEnter
  BY <1>1 DEF TpmEnter, TpmStart, TpmStartFails
<1>2. CASE TpmWaits
  <2>1. CASE TpmReady \/ TpmExited \/ TpmTimesOut
    BY <2>1 DEF TpmReady, TpmExited, TpmTimesOut
  <2>2. CASE TpmWaited \/ TpmKill
    BY <2>2 DEF TpmWaited, TpmKill
  <2>3. CASE TpmExitRaises \/ TpmClose
    BY <2>3 DEF TpmExitRaises, TpmClose
  <2> QED  BY <1>2, <2>1, <2>2, <2>3 DEF TpmWaits
<1>3. CASE TpmExit
  BY <1>3 DEF TpmExit
<1>4. CASE TpmCollected
  BY <1>4 DEF TpmCollected
<1>5. CASE TpmProcess
  BY <1>5 DEF TpmProcess, TpmBinds, TpmDies
<1>6. CASE UNCHANGED tpmVars
  BY <1>6 DEF tpmVars
<1> QED  BY <1>1, <1>2, <1>3, <1>4, <1>5, <1>6 DEF TpmNext

\* The with statement of SwtpmProcess alone, whatever swtpm does, in any order of
\* signals, waits and deaths: the TPM is removed.
THEOREM TpmRemoved == TpmSpec => []NoTpmLeft
<1>1. TpmInit => TpmInv
  BY DEF TpmInit, TpmInv, TpmTypeOK, TpmRuns
<1>2. TpmInv => NoTpmLeft
  BY DEF TpmInv, NoTpmLeft
<1> QED  BY <1>1, <1>2, TpmPreserved, PTL DEF TpmSpec

\* Every behaviour of the thread is one of the with statement.
THEOREM TpmInRuns == Spec => TpmSpec
<1>1. Init => TpmInit
  BY DEF Init
<1>2. [Next]_vars => [TpmNext]_tpmVars
  BY DEF Next, vars, StartVM, StartEfiVM, UseVM, UseTpm, TpmMoves, Guest,
     TpmNext, tpmVars
<1> QED  BY <1>1, <1>2, PTL DEF Spec, TpmSpec

LEMMA TpmInvariant == Spec => []TpmInv
<1>1. TpmInit => TpmInv
  BY DEF TpmInit, TpmInv, TpmTypeOK, TpmRuns
<1> QED  BY <1>1, TpmInRuns, TpmPreserved, PTL DEF TpmSpec

\* The TPM is removed whatever the thread does with its VMs meanwhile.
THEOREM TpmRemovedInRuns == Spec => []NoTpmLeft
  BY TpmInRuns, TpmRemoved, PTL

\* amd64_efi_config is only ever given the socket of a TPM that has bound it.
THEOREM Bound == Spec => []AttachedIsBound
<1>1. Init => AttachedIsBound
  BY DEF Init, AttachedIsBound
<1>2. ASSUME TpmInv, AttachedIsBound, [Next]_vars
      PROVE  AttachedIsBound'
  <2> USE <1>2 DEF AttachedIsBound
  <2>1. CASE StartVM
    BY <2>1 DEF StartVM
  <2>2. CASE StartEfiVM
    BY <2>2 DEF StartEfiVM, TpmInv, tpmVars
  <2>3. CASE UseVM \/ Guest \/ UNCHANGED vars
    BY <2>3 DEF UseVM, Guest, vars, tpmVars
  <2>4. CASE UseTpm
    BY <2>4 DEF UseTpm, TpmEnter, TpmExit, TpmWaits, TpmStart, TpmStartFails,
       TpmReady, TpmExited, TpmTimesOut, TpmWaited, TpmKill, TpmExitRaises,
       TpmClose, TpmGoes, TpmInv
  <2>5. CASE TpmMoves
    BY <2>5 DEF TpmMoves, TpmProcess, TpmBinds, TpmDies, TpmCollected, Socket,
       TpmRuns
  <2> QED  BY <2>1, <2>2, <2>3, <2>4, <2>5 DEF Next
<1> QED  BY <1>1, <1>2, TpmInvariant, PTL DEF Spec

(***************************************************************************)
(* The files: types.                                                       *)
(***************************************************************************)

LEMMA ItemType ==
  ASSUME config \in VMConfig, NEW n \in Items
  PROVE  /\ n \in Names
         /\ IsDrive(n) => /\ Item(n) \in Drive
                          /\ Item(n) = config.drives[n[2]]
                          /\ n[2] \in DOMAIN config.drives
         /\ ~IsDrive(n) => Item(n) \in Pflash
<1>1. n \in Names /\ n[2] \in DOMAIN config[n[1]]
  BY DEF Items
<1>2. n[1] \in {"drives", "pflash"}
  BY <1>1 DEF Names
<1>3. config.drives \in Seq(Drive) /\ config.pflash \in Seq(Pflash)
  BY DEF VMConfig
<1>4. CASE n[1] = "drives"
  BY <1>1, <1>3, <1>4 DEF Item, IsDrive
<1>5. CASE n[1] = "pflash"
  BY <1>1, <1>3, <1>5 DEF Item, IsDrive
<1> QED  BY <1>1, <1>2, <1>4, <1>5

LEMMA MadeFromType ==
  ASSUME config \in VMConfig, NEW n \in Items, CanMake(n)
  PROVE  MadeFrom(n) \in Content
<1>1. Item(n).file \in Originals \cup {NoFile} /\ Item(n).size \in Sizes
  BY ItemType DEF Drive, Pflash
<1>2. SizeGiven(Item(n)) => Item(n).size \in Nat
  BY <1>1 DEF CanMake, SizeGiven, Sizes
<1>3. FileLength(Item(n).file) \in Nat
  BY <1>1, FilesAssumption DEF FileLength
<1>4. Larger(Item(n).size, FileLength(Item(n).file)) \in Nat
      \/ ~SizeGiven(Item(n))
  BY <1>2, <1>3 DEF Larger
<1>5. 0 \in 0..MaxVMs
  BY FilesAssumption
<1> QED  BY <1>1, <1>2, <1>3, <1>4, <1>5 DEF MadeFrom, Content

LEMMA PartialType == Nothing \in Content /\ Partial \in Content
  BY FilesAssumption DEF Nothing, Partial, Content

LEMMA WriteType ==
  ASSUME FileTypeOK, NEW n \in Names, NEW content \in Content,
         Write(n, content)
  PROVE  /\ files' \in [{"given", "temp"} -> [Names -> Content]]
         /\ files'[dir][n] = content
         /\ \A m \in Names \ {n} : files'[dir][m] = files[dir][m]
  BY DEF FileTypeOK, Write

\* The configurations of amd64_efi_config.
LEMMA FoundType ==
  ASSUME present \in Hosts, NEW env \in Envs, NEW part \in Parts,
         NEW f \in Found(env, part)
  PROVE  f \in Originals
  BY FilesAssumption, EfiAssumption DEF Found

LEMMA EfiConfigType ==
  ASSUME NEW image \in Images, NEW c \in Originals, NEW v \in Originals
  PROVE  EfiConfig(image, DiskSize, c, v) \in VMConfig
<1>1. [file |-> image, relative |-> FALSE, overlay |-> TRUE, size |-> DiskSize]
        \in Drive
  BY EfiAssumption DEF Drive
<1>2. /\ [file |-> c, readonly |-> TRUE, size |-> NoSize] \in Pflash
      /\ [file |-> v, readonly |-> FALSE, size |-> NoSize] \in Pflash
  BY DEF Pflash, Sizes
<1> QED  BY <1>1, <1>2 DEF EfiConfig, VMConfig

(***************************************************************************)
(* The files: the invariant.                                               *)
(***************************************************************************)

\* What prepare has been through is its own work, but for what this VM's guest
\* wrote to it.
PreparedPart ==
  \A n \in done : Made(n) =>
    /\ files[dir][n] = [MadeFrom(n) EXCEPT !.by = files[dir][n].by]
    /\ files[dir][n].by \in {0, vm}

\* QEMU starts after prepare, which leaves out nothing.
StagePart ==
  /\ stage \notin {"preparing", "raised", "ended"} => done = Items
  /\ stage = "missing" => \E n \in Items : ~Exists(n)

FileInv == FileTypeOK /\ PreparedPart /\ StagePart

LEMMA FileInitially == FileInit => FileInv
<1> SUFFICES ASSUME FileInit PROVE FileInv
  OBVIOUS
<1>1. config \in VMConfig
  BY DEF FileInit, VMConfig
<1>2. FileTypeOK
  BY <1>1, PartialType, FilesAssumption DEF FileInit, FileTypeOK
<1> QED  BY <1>2 DEF FileInit, FileInv, PreparedPart, StagePart

LEMMA NewVMPreserves ==
  ASSUME FileInv, NEW c \in VMConfig, NEW who \in {"run", "handle", "qemu"},
         NEW d \in {"given", "temp"}, NewVM(c, who, d)
  PROVE  FileInv'
<1> USE DEF FileInv, FileTypeOK, NewVM
<1>1. files' \in [{"given", "temp"} -> [Names -> Content]]
  BY PartialType
<1>2. vm' \in 0..MaxVMs /\ left' \subseteq 1..vm'
  BY FilesAssumption
<1>3. FileTypeOK'
  BY <1>1, <1>2
<1> QED  BY <1>3 DEF PreparedPart, StagePart

LEMMA PrepareFilePreserves ==
  ASSUME FileInv, NEW n \in Names, PrepareFile(n)
  PROVE  FileInv'
<1> USE DEF FileInv, PrepareFile
<1>1. n \in Items \ done
  OBVIOUS
<1>2. Items' = Items /\ \A m \in Names : Made(m)' = Made(m)
                                        /\ MadeFrom(m)' = MadeFrom(m)
  BY DEF Items, Made, MadeFrom, Item, IsDrive
<1>3. ASSUME Made(n)
      PROVE  /\ CanMake(n) /\ Write(n, MadeFrom(n))
             /\ MadeFrom(n) \in Content
  BY <1>3, MadeFromType DEF FileTypeOK
<1>4. files' \in [{"given", "temp"} -> [Names -> Content]]
  BY <1>3, WriteType DEF FileTypeOK
<1>5. FileTypeOK'
  BY <1>1, <1>2, <1>4 DEF FileTypeOK
<1>6. ASSUME NEW m \in done', Made(m)'
      PROVE  /\ files'[dir][m] = [MadeFrom(m) EXCEPT !.by = files'[dir][m].by]
             /\ files'[dir][m].by \in {0, vm}
  <2>1. CASE m = n
    <3>1. files'[dir][n] = MadeFrom(n)
      BY <1>2, <1>3, <1>6, <2>1, WriteType
    <3> QED  BY <2>1, <3>1 DEF MadeFrom
  <2>2. CASE m # n
    <3>1. m \in done /\ m \in Names
      BY <1>6, <2>2 DEF FileTypeOK, Items
    <3>2. files'[dir][m] = files[dir][m]
      BY <1>3, <2>2, <3>1, WriteType
    <3> QED  BY <1>2, <1>6, <3>1, <3>2 DEF PreparedPart
  <2> QED  BY <2>1, <2>2
<1>7. done' \subseteq Names /\ dir' = dir /\ vm' = vm
  BY DEF FileTypeOK, Items
<1>8. PreparedPart'
  BY <1>2, <1>6, <1>7 DEF PreparedPart
<1> QED  BY <1>5, <1>8 DEF StagePart

LEMMA PrepareFailsPreserves ==
  ASSUME FileInv, NEW n \in Names, PrepareFails(n)
  PROVE  FileInv'
<1> USE DEF FileInv, PrepareFails
<1>2. Items' = Items /\ \A m \in Names : Made(m)' = Made(m)
                                        /\ MadeFrom(m)' = MadeFrom(m)
  BY DEF Items, Made, MadeFrom, Item, IsDrive
<1>3. files' \in [{"given", "temp"} -> [Names -> Content]]
  BY WriteType, PartialType DEF FileTypeOK
<1>4. FileTypeOK'
  BY <1>2, <1>3 DEF FileTypeOK
<1>5. done \subseteq Names \ {n}
  BY DEF FileTypeOK, Items
<1>6. \A m \in done : files'[dir][m] = files[dir][m]
  BY <1>5, WriteType, PartialType
<1>7. PreparedPart'
  BY <1>2, <1>5, <1>6 DEF PreparedPart
<1> QED  BY <1>4, <1>7 DEF StagePart

LEMMA GuestWritesPreserves ==
  ASSUME FileInv, NEW n \in Names, GuestWrites(n)
  PROVE  /\ FileInv'
         /\ \A f \in changed' \ changed :
              \E i \in DOMAIN config.drives :
                config.drives[i].file = f /\ ~config.drives[i].overlay
<1> USE DEF FileInv, GuestWrites
<1> DEFINE Touched == [files[dir][n] EXCEPT !.by = vm]
<1>1. n \in Items /\ done = Items
  BY DEF StagePart
<1>2. Items' = Items /\ \A m \in Names : Made(m)' = Made(m)
                                        /\ MadeFrom(m)' = MadeFrom(m)
  BY DEF Items, Made, MadeFrom, Item, IsDrive
<1>3. files[dir][n] \in Content /\ Touched \in Content
  BY DEF FileTypeOK, Content
<1>4. files' \in [{"given", "temp"} -> [Names -> Content]]
  BY <1>3, WriteType DEF FileTypeOK
<1>5. CASE InWorkDir(n)
  <2>1. Write(n, Touched) /\ changed' = changed
    BY <1>5
  <2>2. FileTypeOK'
    BY <1>2, <1>4, <2>1 DEF FileTypeOK
  <2>3. ASSUME NEW m \in done, Made(m)
        PROVE  /\ files'[dir][m] =
                    [MadeFrom(m) EXCEPT !.by = files'[dir][m].by]
               /\ files'[dir][m].by \in {0, vm}
    <3>0. m \in Names
      BY DEF FileTypeOK, Items
    <3>1. /\ files[dir][m] = [MadeFrom(m) EXCEPT !.by = files[dir][m].by]
          /\ files[dir][m].by \in {0, vm}
      BY <2>3 DEF PreparedPart
    <3>2. CASE m = n
      <4>1. files'[dir][m] = Touched
        BY <1>3, <2>1, <3>2, WriteType
      <4>2. Touched = [MadeFrom(m) EXCEPT !.by = vm] /\ Touched.by = vm
        BY <3>1, <3>2 DEF MadeFrom
      <4> QED  BY <4>1, <4>2
    <3>3. CASE m # n
      <4>1. files'[dir][m] = files[dir][m]
        BY <1>3, <2>1, <3>0, <3>3, WriteType
      <4> QED  BY <3>1, <4>1
    <3> QED  BY <3>2, <3>3
  <2>4. PreparedPart'
    BY <1>1, <1>2, <2>3 DEF PreparedPart, FileTypeOK, Items
  <2> QED  BY <1>1, <1>2, <2>1, <2>2, <2>4 DEF StagePart
<1>6. CASE ~InWorkDir(n)
  <2>1. changed' = changed \cup {Item(n).file} /\ UNCHANGED files
    BY <1>6
  <2>2. IsDrive(n) /\ ~Item(n).overlay
    BY <1>6, ItemType, <1>1 DEF InWorkDir, Writable, SizeGiven, FileTypeOK
  <2>3. /\ n[2] \in DOMAIN config.drives
        /\ config.drives[n[2]] = Item(n)
        /\ Item(n) \in Drive
    BY <1>1, <2>2, ItemType DEF FileTypeOK
  <2>4. FileTypeOK'
    BY <1>2, <2>1, <2>3 DEF FileTypeOK, Drive
  <2>5. PreparedPart'
    BY <1>1, <1>2, <2>1 DEF PreparedPart, FileTypeOK, Items
  <2> QED  BY <1>1, <1>2, <2>1, <2>2, <2>3, <2>4, <2>5 DEF StagePart
<1> QED  BY <1>5, <1>6

\* The steps that only move the VM on.
LEMMA SamePreserves ==
  ASSUME FileInv,
         UNCHANGED <<present, changed, vm, caller, config, dir, done, files>>,
         stage' \in {"raised", "opened", "missing", "refused", "stopped",
                     "ended"} \/ UNCHANGED stage,
         left' \subseteq left,
         stage' \notin {"raised", "ended", stage} => done = Items,
         stage' \in {"missing"} \ {stage} => \E n \in Items : ~Exists(n)
  PROVE  FileInv'
<1> USE DEF FileInv
<1>1. Items' = Items /\ \A m \in Names : /\ Made(m)' = Made(m)
                                        /\ MadeFrom(m)' = MadeFrom(m)
                                        /\ Exists(m)' = Exists(m)
  BY DEF Items, Made, MadeFrom, Exists, InWorkDir, Item, IsDrive
<1>2. FileTypeOK'
  BY <1>1 DEF FileTypeOK
<1>3. PreparedPart'
  BY <1>1 DEF PreparedPart, FileTypeOK, Items
<1>4. StagePart'
  BY <1>1 DEF StagePart, Items
<1> QED  BY <1>2, <1>3, <1>4

LEMMA FileStepPreserves ==
  ASSUME FileInv, FileStep
  PROVE  FileInv' /\ UNCHANGED changed
<1>1. CASE \E n \in Names : PrepareFile(n) \/ PrepareFails(n)
  BY <1>1, PrepareFilePreserves, PrepareFailsPreserves
     DEF PrepareFile, PrepareFails
<1>2. CASE SpawnFails
  BY <1>2, SamePreserves DEF SpawnFails
<1>3. CASE Stop
  BY <1>3, SamePreserves DEF Stop, FileInv, StagePart
<1>4. CASE EndRun \/ EndHandle \/ EndQemu
  BY <1>4, SamePreserves DEF EndRun, EndHandle, EndQemu, Ends, Cleanup
<1> QED  BY <1>1, <1>2, <1>3, <1>4 DEF FileStep

LEMMA QemuStartsPreserves ==
  ASSUME FileInv, NEW answers \in BOOLEAN, QemuStarts(answers)
  PROVE  FileInv' /\ UNCHANGED changed
<1>1. done = Items
  BY DEF QemuStarts, Startable, FileInv, StagePart
<1>2. /\ stage' \in {"missing", "opened", "refused"}
      /\ stage' = "missing" => \E n \in Items : ~Exists(n)
  BY DEF QemuStarts
<1> QED  BY <1>1, <1>2, SamePreserves DEF QemuStarts

LEMMA FilePreserved ==
  ASSUME FileInv, [Next]_vars
  PROVE  /\ FileInv'
         /\ \A f \in changed' \ changed :
              \E i \in DOMAIN config.drives :
                config.drives[i].file = f /\ ~config.drives[i].overlay
<1>1. CASE StartVM
  <2>1. PICK c \in Configs, who \in {"run", "handle", "qemu"},
             d \in {"given", "temp"} : NewVM(c, who, d)
    BY <1>1 DEF StartVM
  <2>2. c \in VMConfig
    BY FilesAssumption
  <2> QED  BY <2>1, <2>2, NewVMPreserves DEF NewVM
<1>2. CASE StartEfiVM
  <2>1. PICK image \in Images, env \in Envs, d \in {"given", "temp"} :
          \E c \in Found(env, "code"), v \in Found(env, "vars") :
            NewVM(EfiConfig(image, DiskSize, c, v), "handle", d)
    BY <1>2 DEF StartEfiVM
  <2>2. PICK c \in Found(env, "code"), v \in Found(env, "vars") :
          NewVM(EfiConfig(image, DiskSize, c, v), "handle", d)
    BY <2>1
  <2>3. c \in Originals /\ v \in Originals
    BY FoundType DEF FileInv, FileTypeOK, Parts
  <2>4. EfiConfig(image, DiskSize, c, v) \in VMConfig
    BY <2>3, EfiConfigType
  <2> QED  BY <2>2, <2>4, NewVMPreserves DEF NewVM
<1>3. CASE UseVM
  <2>1. CASE FileStep
    BY <2>1, FileStepPreserves
  <2>2. CASE QemuStarts(attached => tpm = "listening")
    BY <2>2, QemuStartsPreserves
  <2> QED  BY <1>3, <2>1, <2>2 DEF UseVM
<1>4. CASE Guest
  BY <1>4, GuestWritesPreserves DEF Guest
<1>5. CASE UseTpm \/ TpmMoves \/ UNCHANGED vars
  <2>1. UNCHANGED fileVars
    BY <1>5, Zenon DEF UseTpm, TpmMoves, vars
  <2> QED  BY <2>1, SamePreserves DEF fileVars
<1> QED  BY <1>1, <1>2, <1>3, <1>4, <1>5 DEF Next

LEMMA FileInvariant == Spec => []FileInv
  BY FileInitially, FilePreserved, PTL DEF Spec, Init

(***************************************************************************)
(* The theorems.                                                           *)
(***************************************************************************)

\* Every state has the types of its variables: every file that prepare makes has
\* a number as its size, whatever is given as "size=".
THEOREM TypeCorrect == Spec => []TypeOK
<1>1. Init => attached \in BOOLEAN
  BY DEF Init
<1>2. attached \in BOOLEAN /\ [Next]_vars => (attached \in BOOLEAN)'
  BY DEF Next, vars, StartVM, StartEfiVM, UseVM, UseTpm, TpmMoves, Guest
<1>3. FileInv /\ TpmInv /\ attached \in BOOLEAN => TypeOK
  BY DEF FileInv, TpmInv, TypeOK
<1> QED  BY <1>1, <1>2, <1>3, FileInvariant, TpmInvariant, PTL DEF Spec

\* Whatever an earlier VM, a failed preparation or a guest left in the work
\* directory, each file that QEMU opens there was made by the prepare of its own
\* VM (QemuVM.prepare, _build_cmd).  Exempt is a readonly pflash image with the
\* empty size: prepare makes none, and QEMU opens what is there.
THEOREM Prepared == Spec => []OpensPrepared
<1>1. ASSUME FileInv
      PROVE  OpensPrepared
  <2> SUFFICES ASSUME stage \in {"opened", "running"}, NEW n \in Items,
                      InWorkDir(n), ~EmptySized(n)
               PROVE  n \in done /\ Made(n)
    BY <1>1 DEF OpensPrepared, FileInv, PreparedPart
  <2>1. n \in done
    BY <1>1 DEF FileInv, StagePart
  <2>2. Made(n)
    BY DEF InWorkDir, EmptySized, Made, SizeGiven
  <2> QED  BY <2>1, <2>2
<1> QED  BY <1>1, FileInvariant, PTL

\* What prepare makes is never what QEMU misses.
THEOREM OnlyUnchecked == Spec => []MissingIsUnchecked
<1>1. ASSUME FileInv, stage = "missing"
      PROVE  MissingIsUnchecked
  <2>1. PICK n \in Items : ~Exists(n)
    BY <1>1 DEF FileInv, StagePart
  <2>2. ~(Made(n) /\ InWorkDir(n))
    <3> SUFFICES ASSUME Made(n), InWorkDir(n) PROVE FALSE
      OBVIOUS
    <3>1. files[dir][n] = [MadeFrom(n) EXCEPT !.by = files[dir][n].by]
      BY <1>1 DEF FileInv, StagePart, PreparedPart
    <3>2. files[dir][n].state = "whole"
      BY <3>1 DEF MadeFrom
    <3> QED  BY <2>1, <3>2 DEF Exists
  <2>3. Made(n) => InWorkDir(n)
    BY DEF Made, InWorkDir, SizeGiven
  <2>4. IF IsDrive(n) THEN ~Item(n).overlay
        ELSE Item(n).readonly /\ ~SizeGiven(Item(n))
    BY <2>2, <2>3 DEF Made
  <2> QED  BY <2>1, <2>4 DEF MissingIsUnchecked
<1>2. FileInv => MissingIsUnchecked
  BY <1>1 DEF MissingIsUnchecked
<1> QED  BY <1>2, FileInvariant, PTL

\* "the original is never modified": for every image, size and firmware.
THEOREM Unmodified == Spec => OriginalsUnmodified
<1>1. FileInv /\ [Next]_vars =>
        [\A f \in changed' \ changed :
           \E i \in DOMAIN config.drives :
             config.drives[i].file = f /\ ~config.drives[i].overlay]_changed
  BY FilePreserved
<1> QED  BY <1>1, FileInvariant, PTL DEF Spec, OriginalsUnmodified
=============================================================================
