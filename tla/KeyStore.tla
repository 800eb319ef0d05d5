------------------------------- MODULE KeyStore -------------------------------
(***************************************************************************)
(* What ensure_ssh_key promises to the workers of all runs of a project,   *)
(* without locks, files or generators: there is one pair of keys, which is *)
(* made once.  If its making is cut short it can be torn, and then it is   *)
(* so for all of them and for ever.                                        *)
(***************************************************************************)
CONSTANTS Workers, Keys

VARIABLES
  pair,        \* none, torn or the pair of the project
  authorized   \* what each worker of the current run authorizes

keyStoreVars == <<pair, authorized>>

Init ==
  /\ pair = "none"
  /\ authorized = [w \in Workers |-> "none"]

Publish ==
  /\ pair = "none"
  /\ pair' \in Keys
  /\ UNCHANGED authorized

Tear ==
  /\ pair = "none"
  /\ pair' = "torn"

TornByError == Tear /\ UNCHANGED authorized

Authorize(w) ==
  /\ pair # "none"
  /\ authorized' = [authorized EXCEPT ![w] = pair]
  /\ UNCHANGED pair

\* Processes end, and the one that makes the pair may be among them.
Leave(W) ==
  /\ authorized' = [w \in Workers |-> IF w \in W THEN "none" ELSE authorized[w]]
  /\ Tear \/ UNCHANGED pair

Next ==
  \/ Publish \/ TornByError
  \/ \E w \in Workers : Authorize(w)
  \/ \E W \in SUBSET Workers : Leave(W)

Spec == Init /\ [][Next]_keyStoreVars
=============================================================================
