-------------------------------- MODULE VMFiles --------------------------------
(***************************************************************************)
(* The files of virtual machines: what prepare of qemu/vm.py makes of the  *)
(* drives and pflash images of a configuration, what _build_cmd tells QEMU *)
(* to open, and what the callers of QemuVM leave behind.  VMs run one      *)
(* after another; those that are given a work directory are given the same *)
(* one.                                                                    *)
(***************************************************************************)
EXTENDS Naturals, Sequences

CONSTANTS
  Originals,   \* files that VMs are made from ...
  Length,      \* ... their sizes ...
  Hosts,       \* ... and the sets of them that a host may have
  Ovmf,        \* where _ovmf_paths looks for firmware code and variables
  Configs,     \* configurations from the command line or a test
  MaxFiles,    \* bound on the drives and on the pflash images of a VM
  MaxVMs,      \* bound on the VMs
  NoFile, NoSize, EmptySize, BadSize   \* not given; "size=" ; not a number

Sizes == Nat \cup {NoSize, EmptySize, BadSize}
Parts == {"code", "vars"}

\* A drive's path is relative or absolute.
Drive == [file: Originals, relative: BOOLEAN, overlay: BOOLEAN, size: Sizes]
Pflash == [file: Originals \cup {NoFile}, readonly: BOOLEAN, size: Sizes]
VMConfig == [drives: Seq(Drive), pflash: Seq(Pflash)]

\* The files drive0.qcow2, ... and pflash0.raw, ... of a work directory.
Names == {"drives", "pflash"} \X (1..MaxFiles)

ASSUME FilesAssumption ==
  /\ Length \in [Originals -> Nat]
  /\ Hosts \subseteq SUBSET Originals
  /\ Ovmf \in [Parts -> Seq(Originals)]
  /\ Configs \subseteq VMConfig
  /\ \A c \in Configs : Len(c.drives) <= MaxFiles /\ Len(c.pflash) <= MaxFiles
  /\ MaxFiles \in Nat \ {0, 1}
  /\ MaxVMs \in Nat
  /\ NoFile \notin Originals
  /\ {NoSize, EmptySize, BadSize} \cap Nat = {}
  /\ NoSize # EmptySize /\ NoSize # BadSize /\ EmptySize # BadSize

VARIABLES
  present,  \* the originals that the host has
  changed,  \* originals that a guest has written to
  vm,       \* number of the current VM
  caller,   \* who uses it: the run command, a VMHandle or start_qemu
  config,   \* its configuration
  dir,      \* its work directory: a given one or a temporary one
  done,     \* the drives and pflash images that prepare has been through
  stage,    \* how far the VM is
  files,    \* the files in the given and in the current temporary directory
  left      \* VMs whose temporary directory exists

fileVars ==
  <<present, changed, vm, caller, config, dir, done, stage, files, left>>

\* A file: its original, its size, and the last VM that wrote to it.
Content == [state: {"absent", "partial", "whole"}, bytes: Nat,
            from: Originals \cup {NoFile}, by: 0..MaxVMs]
Nothing == [state |-> "absent", bytes |-> 0, from |-> NoFile, by |-> 0]
Partial == [Nothing EXCEPT !.state = "partial"]

SizeGiven(x) == x.size \notin {NoSize, EmptySize}
Larger(m, n) == IF m < n THEN n ELSE m

-----------------------------------------------------------------------------
(***************************************************************************)
(* Where configurations come from.                                         *)
(***************************************************************************)

\* _parse_drive and _parse_pflash; options is a function from the given keys.
Truthy(options, key) ==
  key \in DOMAIN options /\ options[key] \in {"true", "1", "yes", ""}
SizeOption(options) ==
  IF "size" \in DOMAIN options THEN options["size"] ELSE NoSize

ParseDrive(f, relative, options) ==
  [file |-> f, relative |-> relative,
   overlay |-> Truthy(options, "overlay"), size |-> SizeOption(options)]

ParsePflash(f, options) ==
  [file |-> f,
   readonly |-> Truthy(options, "readonly"), size |-> SizeOption(options)]

\* _build_config
BuildConfig(drives, pflash) == [drives |-> drives, pflash |-> pflash]

\* _resolve_ovmf: the path in the environment, or the first that exists, if any.
Found(env, part) ==
  LET paths == Ovmf[part]
  IN  IF env[part] # NoFile THEN {env[part]}
      ELSE {f \in present : \E i \in DOMAIN paths :
              paths[i] = f /\ \A j \in 1..(i - 1) : paths[j] \notin present}

\* amd64_efi_config
EfiConfig(image, size, ovmfCode, ovmfVars) ==
  [drives |-> << [file |-> image, relative |-> FALSE,
                  overlay |-> TRUE, size |-> size] >>,
   pflash |-> << [file |-> ovmfCode, readonly |-> TRUE, size |-> NoSize],
                 [file |-> ovmfVars, readonly |-> FALSE, size |-> NoSize] >>]

-----------------------------------------------------------------------------
(***************************************************************************)
(* prepare.                                                                *)
(***************************************************************************)

Items == {n \in Names : n[2] \in DOMAIN config[n[1]]}
Item(n) == config[n[1]][n[2]]
IsDrive(n) == n[1] = "drives"
Before(m, n) == (IsDrive(m) /\ ~IsDrive(n)) \/ (m[1] = n[1] /\ m[2] < n[2])

MadeIfSized(n) == IF IsDrive(n) THEN Item(n).overlay           \* mutant
                  ELSE SizeGiven(Item(n))
InWorkDirIfSized(n) == IF IsDrive(n) THEN Item(n).overlay      \* mutant
                       ELSE Item(n).size # NoSize

\* The files that prepare makes, and those that _build_cmd looks for in the
\* work directory: an empty size is a size for the one and none for the other.
Made(n) == IF IsDrive(n) THEN Item(n).overlay
           ELSE SizeGiven(Item(n)) \/ ~Item(n).readonly
InWorkDir(n) == IF IsDrive(n) THEN Item(n).overlay
                ELSE Item(n).size # NoSize \/ ~Item(n).readonly
Writable(n) ==
  IF IsDrive(n) THEN TRUE ELSE ~Item(n).readonly \/ SizeGiven(Item(n))

\* qemu-img looks for a relative image in the work directory, prepare in the
\* current one.
CanMake(n) ==
  /\ Item(n).size # BadSize
  /\ IF Item(n).file = NoFile THEN SizeGiven(Item(n))
     ELSE Item(n).file \in present
  /\ ~(IsDrive(n) /\ Item(n).relative)

\* A sized image is opened before its source is read; the rest fails early.
OpensFirst(n) == ~IsDrive(n) /\ Item(n).size \in Nat

FileLength(f) == IF f = NoFile THEN 0 ELSE Length[f]

MadeFromAnySize(n) ==                                          \* mutant
  [state |-> "whole", from |-> Item(n).file, by |-> 0,
   bytes |-> IF Item(n).size = NoSize THEN FileLength(Item(n).file)
             ELSE Item(n).size]

\* An overlay has the size that is given; a pflash image that is smaller than
\* the file written into it grows.
MadeFrom(n) ==
  [state |-> "whole", from |-> Item(n).file, by |-> 0,
   bytes |-> IF ~SizeGiven(Item(n)) THEN FileLength(Item(n).file)
             ELSE IF IsDrive(n) THEN Item(n).size
             ELSE Larger(Item(n).size, FileLength(Item(n).file))]

FileInit ==
  /\ present \in Hosts
  /\ changed = {}
  /\ vm = 0
  /\ caller = "none"
  /\ config = [drives |-> <<>>, pflash |-> <<>>]
  /\ dir = "given"
  /\ done = {}
  /\ stage = "ended"
  /\ files = [d \in {"given", "temp"} |-> [n \in Names |-> Nothing]]
  /\ left = {}

\* QemuVM(config, work_dir), and the work directory that prepare makes.
NewVM(c, who, d) ==
  /\ stage = "ended"
  /\ vm < MaxVMs
  /\ who = "qemu" => d = "temp"
  /\ vm' = vm + 1
  /\ caller' = who
  /\ config' = c
  /\ dir' = d
  /\ done' = {}
  /\ stage' = "preparing"
  /\ files' = [files EXCEPT !["temp"] = [n \in Names |-> Nothing]]
  /\ left' = IF d = "temp" THEN left \cup {vm'} ELSE left
  /\ UNCHANGED <<present, changed>>

Write(n, content) == files' = [files EXCEPT ![dir][n] = content]

PrepareKeeps(n) ==                                             \* mutant
  /\ stage = "preparing"
  /\ n \in Items \ done
  /\ \A m \in Items : Before(m, n) => m \in done
  /\ done' = done \cup {n}
  /\ IF Made(n) /\ files[dir][n].state = "absent"
     THEN CanMake(n) /\ Write(n, MadeFrom(n)) ELSE UNCHANGED files
  /\ UNCHANGED <<present, changed, vm, caller, config, dir, stage, left>>

PrepareFile(n) ==
  /\ stage = "preparing"
  /\ n \in Items \ done
  /\ \A m \in Items : Before(m, n) => m \in done
  /\ done' = done \cup {n}
  /\ IF Made(n) THEN CanMake(n) /\ Write(n, MadeFrom(n)) ELSE UNCHANGED files
  /\ UNCHANGED <<present, changed, vm, caller, config, dir, stage, left>>

\* prepare raises, before or after it opened the file: because it cannot make it,
\* or for any other reason (a full disk).
PrepareFails(n) ==
  /\ stage = "preparing"
  /\ n \in Items \ done
  /\ \A m \in Items : Before(m, n) => m \in done
  /\ Made(n)
  /\ \/ UNCHANGED files
     \/ (CanMake(n) \/ OpensFirst(n)) /\ Write(n, Partial)
  /\ stage' = "raised"
  /\ UNCHANGED <<present, changed, vm, caller, config, dir, done, left>>

-----------------------------------------------------------------------------
(***************************************************************************)
(* QEMU and the end of the VM.                                             *)
(***************************************************************************)

Exists(n) == IF InWorkDir(n) THEN files[dir][n].state # "absent"
             ELSE Item(n).file \in present

\* A test can start the VM of start_qemu again after it has stopped it.
Startable == \/ stage = "preparing" /\ done = Items
             \/ stage = "stopped" /\ caller = "qemu"

\* start or run: QEMU opens the files of its command line and connects to the
\* TPM, or exits at once.
QemuStarts(tpmAnswers) ==
  /\ Startable
  /\ stage' = CASE \E n \in Items : ~Exists(n) -> "missing"
               [] ~\E n \in Items : ~Exists(n) ->
                    IF tpmAnswers THEN "opened" ELSE "refused"
  /\ UNCHANGED <<present, changed, vm, caller, config, dir, done, files, left>>

\* Popen raises, for example without QEMU.
SpawnFails ==
  /\ Startable
  /\ stage' = "raised"
  /\ UNCHANGED <<present, changed, vm, caller, config, dir, done, files, left>>

GuestWrites(n) ==
  /\ stage \in {"opened", "running"}
  /\ n \in Items
  /\ Writable(n)
  /\ stage' = "running"
  /\ IF InWorkDir(n)
     THEN /\ Write(n, [files[dir][n] EXCEPT !.by = vm])
          /\ UNCHANGED changed
     ELSE /\ changed' = changed \cup {Item(n).file}
          /\ UNCHANGED files
  /\ UNCHANGED <<present, vm, caller, config, dir, done, left>>

Stop ==
  /\ stage \in {"opened", "running", "missing", "refused"}
  /\ stage' = "stopped"
  /\ UNCHANGED <<present, changed, vm, caller, config, dir, done, files, left>>

Cleanup ==
  IF dir = "temp" THEN left' = left \ {vm} ELSE UNCHANGED left

Ends ==
  /\ stage \in {"stopped", "raised"}
  /\ stage' = "ended"
  /\ UNCHANGED <<present, changed, vm, caller, config, dir, done, files>>

\* The run command never cleans up.
EndRun == caller = "run" /\ Ends /\ UNCHANGED left

\* The ssh command and start_vm close their handle, and a failed boot is cleaned
\* up by VMHandle.start; but there is no handle if prepare or Popen raised.
EndHandle ==
  /\ caller = "handle"
  /\ Ends
  /\ IF stage = "stopped" THEN Cleanup ELSE UNCHANGED left

\* start_qemu knows a VM once it is prepared.
EndQemu ==
  /\ caller = "qemu"
  /\ Ends
  /\ IF done = Items THEN Cleanup ELSE UNCHANGED left

FileStep ==
  \/ \E n \in Names : PrepareFile(n) \/ PrepareFails(n)
  \/ SpawnFails \/ Stop \/ EndRun \/ EndHandle \/ EndQemu

FileNext ==
  \/ \E c \in Configs, who \in {"run", "handle", "qemu"},
        d \in {"given", "temp"} : NewVM(c, who, d)
  \/ FileStep
  \/ \E answers \in BOOLEAN : QemuStarts(answers)
  \/ \E n \in Names : GuestWrites(n)

FileSpec == FileInit /\ [][FileNext]_fileVars

-----------------------------------------------------------------------------
FileTypeOK ==
  /\ present \in Hosts
  /\ changed \subseteq Originals
  /\ vm \in 0..MaxVMs
  /\ caller \in {"none", "run", "handle", "qemu"}
  /\ config \in VMConfig
  /\ dir \in {"given", "temp"}
  /\ done \subseteq Items
  /\ stage \in {"preparing", "raised", "opened", "running", "missing",
                "refused", "stopped", "ended"}
  /\ files \in [{"given", "temp"} -> [Names -> Content]]
  /\ left \subseteq 1..vm

\* A readonly pflash image with the option "size=".
EmptySized(n) == ~IsDrive(n) /\ Item(n).readonly /\ Item(n).size = EmptySize

\* "Create overlays and firmware copies in the work directory": whatever QEMU
\* opens in the work directory was completed by the prepare of this VM, from the
\* configured file and with the configured size, and no guest but this VM's has
\* written to it, although a given directory holds the files of earlier VMs and
\* of failed preparations.  Not so for an empty size.
OpensPrepared ==
  stage \in {"opened", "running"} =>
    \A n \in Items : InWorkDir(n) /\ ~EmptySized(n) =>
      /\ files[dir][n] = [MadeFrom(n) EXCEPT !.by = files[dir][n].by]
      /\ files[dir][n].by \in {0, vm}

\* After a prepare that returned, QEMU misses only files that prepare does not
\* look at: drives without overlay, readonly firmware, and the empty size.
MissingIsUnchecked ==
  stage = "missing" =>
    \E n \in Items : /\ ~Exists(n)
                     /\ IF IsDrive(n) THEN ~Item(n).overlay
                        ELSE Item(n).readonly /\ ~SizeGiven(Item(n))

\* "which is left unmodified", "so the original is never modified": a guest
\* changes an original only through a drive of its VM without overlay.
OriginalsUnmodified ==
  [][\A f \in changed' \ changed :
       \E i \in DOMAIN config.drives :
         config.drives[i].file = f /\ ~config.drives[i].overlay]_changed
=============================================================================
