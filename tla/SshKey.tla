-------------------------------- MODULE SshKey --------------------------------
(***************************************************************************)
(* ensure_ssh_key of keys.py: the workers of all runs of a project share   *)
(* one key pair.  Only its public half says whether the pair exists, and   *)
(* both halves are written in place.                                       *)
(***************************************************************************)
CONSTANTS
  Workers,
  Keys,      \* bound on the pairs that RSAKey.generate makes, all different
  NoWorker, NoKey

ASSUME ConstantsAssumption ==
  /\ NoWorker \notin Workers
  /\ NoKey \notin Keys
  /\ Keys \cap {"absent", "empty", "none"} = {}

VARIABLES
  private, public,  \* the files: absent, opened but not yet written, or a key
  generated,        \* pairs that were ever generated
  keyLock,          \* the worker that holds the flock on id_rsa.lock
  at,               \* where each worker is in ensure_ssh_key
  key,              \* the pair that it has generated
  got,              \* what it returned to the worker
  torn   \* did a call end between opening and writing the public key?

keyVars == <<private, public, generated, keyLock, at, key, got, torn>>

files == <<private, public>>

File == Keys \cup {"absent", "empty"}
Writing == {"generated", "privateOpen", "privateWritten", "publicOpen"}

KeyInit ==
  /\ private = "absent" /\ public = "absent"
  /\ generated = {}
  /\ keyLock = NoWorker
  /\ at = [w \in Workers |-> "out"]
  /\ key = [w \in Workers |-> NoKey]
  /\ got = [w \in Workers |-> "none"]
  /\ torn = FALSE

Goes(w, from, to) == at[w] = from /\ at' = [at EXCEPT ![w] = to]

Ensure(w) ==
  /\ Goes(w, "out", "queued")
  /\ UNCHANGED <<private, public, generated, keyLock, key, got, torn>>

AcquireUnlocked(w) ==                                          \* mutant
  /\ Goes(w, "queued", "inside")
  /\ keyLock' = w
  /\ UNCHANGED <<private, public, generated, key, got, torn>>

Acquire(w) ==
  /\ Goes(w, "queued", "inside")
  /\ keyLock = NoWorker
  /\ keyLock' = w
  /\ UNCHANGED <<private, public, generated, key, got, torn>>

FoundKey(w) ==
  /\ Goes(w, "inside", "released")
  /\ public # "absent"
  /\ keyLock' = NoWorker
  /\ UNCHANGED <<private, public, generated, key, got, torn>>

GenerateUnchecked(w) ==                                        \* mutant
  /\ Goes(w, "inside", "generated")
  /\ \E k \in Keys \ generated :
       /\ key' = [key EXCEPT ![w] = k]
       /\ generated' = generated \cup {k}
  /\ UNCHANGED <<private, public, keyLock, got, torn>>

Generate(w) ==
  /\ Goes(w, "inside", "generated")
  /\ public = "absent"
  /\ \E k \in Keys \ generated :
       /\ key' = [key EXCEPT ![w] = k]
       /\ generated' = generated \cup {k}
  /\ UNCHANGED <<private, public, keyLock, got, torn>>

\* write_private_key_file: a private key that was never published is replaced.
OpenPrivate(w) ==
  /\ Goes(w, "generated", "privateOpen")
  /\ private' = "empty"
  /\ UNCHANGED <<public, generated, keyLock, key, got, torn>>

WritePrivate(w) ==
  /\ Goes(w, "privateOpen", "privateWritten")
  /\ private' = key[w]
  /\ UNCHANGED <<public, generated, keyLock, key, got, torn>>

\* write_text: from its opening on, the file exists.
OpenPublic(w) ==
  /\ Goes(w, "privateWritten", "publicOpen")
  /\ public' = "empty"
  /\ UNCHANGED <<private, generated, keyLock, key, got, torn>>

WritePublic(w) ==
  /\ Goes(w, "publicOpen", "released")
  /\ public' = key[w]
  /\ keyLock' = NoWorker
  /\ UNCHANGED <<private, generated, key, got, torn>>

\* The public key is read without the lock.
ReadPublic(w) ==
  /\ Goes(w, "released", "out")
  /\ got' = [got EXCEPT ![w] = public]
  /\ UNCHANGED <<private, public, generated, keyLock, key, torn>>

\* An exception (a full disk, a missing permission) leaves the section ...
Fail(w) ==
  /\ at[w] \in Writing \cup {"inside"}
  /\ at' = [at EXCEPT ![w] = "out"]
  /\ keyLock' = NoWorker
  /\ torn' = (torn \/ at[w] = "publicOpen")
  /\ UNCHANGED <<private, public, generated, key, got>>

ExitKeepsLock(W) ==                                            \* mutant
  /\ at' = [w \in Workers |-> IF w \in W THEN "out" ELSE at[w]]
  /\ got' = [w \in Workers |-> IF w \in W THEN "none" ELSE got[w]]
  /\ torn' = (torn \/ \E w \in W : at[w] = "publicOpen")
  /\ UNCHANGED <<private, public, generated, keyLock, key>>

\* ... and a process that ends, wherever it is, loses its lock with its files.
Exit(W) ==
  /\ at' = [w \in Workers |-> IF w \in W THEN "out" ELSE at[w]]
  /\ got' = [w \in Workers |-> IF w \in W THEN "none" ELSE got[w]]
  /\ keyLock' = IF keyLock \in W THEN NoWorker ELSE keyLock
  /\ torn' = (torn \/ \E w \in W : at[w] = "publicOpen")
  /\ UNCHANGED <<private, public, generated, key>>

KeyStep(w) ==
  \/ Acquire(w) \/ FoundKey(w) \/ Generate(w)
  \/ OpenPrivate(w) \/ WritePrivate(w) \/ OpenPublic(w) \/ WritePublic(w)

KeyNext ==
  \/ \E w \in Workers : Ensure(w) \/ KeyStep(w) \/ ReadPublic(w) \/ Fail(w)
  \/ \E W \in SUBSET Workers : Exit(W)

KeySpec == KeyInit /\ [][KeyNext]_keyVars

-----------------------------------------------------------------------------
KeyTypeOK ==
  /\ private \in File /\ public \in File
  /\ generated \subseteq Keys
  /\ keyLock \in Workers \cup {NoWorker}
  /\ at \in [Workers -> Writing \cup {"out", "queued", "inside", "released"}]
  /\ key \in [Workers -> Keys \cup {NoKey}]
  /\ got \in [Workers -> Keys \cup {"empty", "none"}]
  /\ torn \in BOOLEAN

\* README "authorizes it with a parameter override of core/ssh": the public key
\* that a worker authorizes fits the private key with which every worker logs
\* in, then and later.  The one exception: after a call that ended between
\* opening and writing the public key, every worker of every run authorizes an
\* empty one.
AuthorizedFits ==
  \A w \in Workers :
    \/ got[w] = "none"
    \/ got[w] \in Keys /\ got[w] = public /\ got[w] = private
    \/ got[w] = "empty" /\ public = "empty" /\ torn

\* "Keeping the key across runs lets Bakery reuse cached layers that contain
\* it": a published pair is never replaced, whoever fails or crashes.
KeyIsKept == [][(public \in Keys) => UNCHANGED files]_files

-----------------------------------------------------------------------------
\* The pair of the project: two halves that fit, whoever looks at them.
Pair ==
  CASE public \in Keys /\ private = public -> public
    [] torn                                -> "torn"
    [] OTHER                               -> "none"

Authorized == [w \in Workers |-> IF got[w] = "empty" THEN "torn" ELSE got[w]]

Store == INSTANCE KeyStore WITH pair <- Pair, authorized <- Authorized

\* Whatever the workers of all runs do at a time, and wherever they fail or end,
\* the two files are one pair that is made once and served to everyone.
ImplementsKeyStore == Store!Spec
=============================================================================
