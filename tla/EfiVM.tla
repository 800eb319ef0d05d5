--------------------------------- MODULE EfiVM ---------------------------------
(***************************************************************************)
(* A test thread that starts VMs, among them those of amd64_efi_config     *)
(* with the socket of a SwtpmProcess: VMFiles and Swtpm composed.  The VM  *)
(* and the with statement of the TPM may end in either order.              *)
(***************************************************************************)
EXTENDS VMFiles, Swtpm

CONSTANTS
  DiskSize, \* what the overlays of the images are grown to
  Images,   \* images that are booted with amd64_efi_config
  Envs      \* values of RUGIX_OVMF_CODE_AMD64 and RUGIX_OVMF_VARS_AMD64

ASSUME EfiAssumption ==
  /\ DiskSize \in Sizes
  /\ Images \subseteq Originals
  /\ Envs \subseteq [Parts -> Originals \cup {NoFile}]

VARIABLE attached   \* does QEMU's command line name the socket of the TPM?

vars == <<fileVars, tpmVars, attached>>

Init == FileInit /\ TpmInit /\ attached = FALSE

\* The thread is not in __enter__ or __exit__, or not in prepare.
OutsideTpm == tpmAt \notin {"waiting", "terminating", "killing", "closing"}
OutsidePrepare == stage \notin {"preparing", "raised"}

StartVM ==
  /\ OutsideTpm
  /\ \E c \in Configs, who \in {"run", "handle", "qemu"},
        d \in {"given", "temp"} : NewVM(c, who, d)
  /\ attached' = FALSE
  /\ UNCHANGED tpmVars

\* amd64_efi_config raises if there is no firmware; socket_path is that of a
\* TPM whose with statement has been entered.
StartEfiVM ==
  /\ OutsideTpm
  /\ \E image \in Images, env \in Envs, d \in {"given", "temp"} :
       \E c \in Found(env, "code"), v \in Found(env, "vars") :
         NewVM(EfiConfig(image, DiskSize, c, v), "handle", d)
  /\ attached' \in {FALSE, tpmAt = "in"}
  /\ UNCHANGED tpmVars

UseVM ==
  /\ OutsideTpm
  /\ FileStep \/ QemuStarts(attached => tpm = "listening")
  /\ UNCHANGED <<tpmVars, attached>>

UseTpm ==
  /\ OutsidePrepare
  /\ TpmEnter \/ TpmExit \/ TpmWaits
  /\ UNCHANGED <<fileVars, attached>>

TpmMoves ==
  /\ TpmProcess \/ TpmCollected
  /\ UNCHANGED <<fileVars, attached>>

Guest ==
  /\ \E n \in Names : GuestWrites(n)
  /\ UNCHANGED <<tpmVars, attached>>

Next == StartVM \/ StartEfiVM \/ UseVM \/ UseTpm \/ TpmMoves \/ Guest

Spec == Init /\ [][Next]_vars

-----------------------------------------------------------------------------
TypeOK == FileTypeOK /\ TpmTypeOK /\ attached \in BOOLEAN

\* "The control socket to pass to amd64_efi_config": a VM is only ever told to
\* use the socket of a TPM that has bound it, so that what QEMU is refused is
\* a TPM that died, or one caught between binding and listening.
AttachedIsBound == attached => tpm \notin {"none", "starting"}
=============================================================================
