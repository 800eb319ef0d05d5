----------------------------- MODULE SshKeyProofs -----------------------------
(***************************************************************************)
(* Proofs about SshKey for every set of workers and keys: whoever fails or *)
(* ends at any point of ensure_ssh_key, one pair of keys serves everyone.  *)
(***************************************************************************)
EXTENDS SshKey, TLAPS

Inside(w) == at[w] \in Writing \cup {"inside"}

\* The lock belongs to the one worker inside the section.
LockPart == \A w \in Workers : Inside(w) <=> keyLock = w

\* What a worker inside knows about the files.
WriterPart ==
  \A w \in Workers :
    /\ at[w] \in Writing => key[w] \in Keys
    /\ at[w] \in {"generated", "privateOpen", "privateWritten"} =>
         public = "absent"
    /\ at[w] = "publicOpen" => public = "empty"
    /\ at[w] \in {"privateWritten", "publicOpen"} => private = key[w]

\* An empty public key is either on its way or torn for ever.
TornPart ==
  /\ torn => public = "empty" /\ \A w \in Workers : at[w] \notin Writing
  /\ public = "empty" => torn \/ \E w \in Workers : at[w] = "publicOpen"

PublishedPart ==
  /\ public \in Keys => private = public
  /\ \A w \in Workers :
       at[w] = "released" => public \in Keys \/ (public = "empty" /\ torn)

KeyInv ==
  /\ KeyTypeOK
  /\ LockPart
  /\ WriterPart
  /\ TornPart
  /\ PublishedPart
  /\ AuthorizedFits

LEMMA KeyNames ==
  /\ NoWorker \notin Workers
  /\ "absent" \notin Keys /\ "empty" \notin Keys /\ "none" \notin Keys
  BY ConstantsAssumption

LEMMA KeyInitially == KeyInit => KeyInv
  BY KeyNames DEF KeyInit, KeyInv, KeyTypeOK, File, Inside, Writing, LockPart,
     WriterPart, TornPart, PublishedPart, AuthorizedFits

LEMMA KeyPreserved ==
  ASSUME KeyInv, [KeyNext]_keyVars
  PROVE  KeyInv'
<1> USE KeyNames DEF KeyInv, KeyTypeOK, File, Inside, Writing, LockPart,
        WriterPart, TornPart, PublishedPart, AuthorizedFits, Goes
<1>1. ASSUME NEW w \in Workers, Ensure(w)
      PROVE  KeyInv'
  BY <1>1 DEF Ensure
<1>2. ASSUME NEW w \in Workers, Acquire(w)
      PROVE  KeyInv'
  BY <1>2 DEF Acquire
<1>3. ASSUME NEW w \in Workers, FoundKey(w)
      PROVE  KeyInv'
  BY <1>3 DEF FoundKey
<1>4. ASSUME NEW w \in Workers, Generate(w)
      PROVE  KeyInv'
  BY <1>4 DEF Generate
<1>5. ASSUME NEW w \in Workers, OpenPrivate(w)
      PROVE  KeyInv'
  BY <1>5 DEF OpenPrivate
<1>6. ASSUME NEW w \in Workers, WritePrivate(w)
      PROVE  KeyInv'
  BY <1>6 DEF WritePrivate
<1>7. ASSUME NEW w \in Workers, OpenPublic(w)
      PROVE  KeyInv'
  BY <1>7 DEF OpenPublic
<1>8. ASSUME NEW w \in Workers, WritePublic(w)
      PROVE  KeyInv'
  BY <1>8 DEF WritePublic
<1>9. ASSUME NEW w \in Workers, ReadPublic(w)
      PROVE  KeyInv'
  BY <1>9 DEF ReadPublic
<1>10. ASSUME NEW w \in Workers, Fail(w)
       PROVE  KeyInv'
  BY <1>10 DEF Fail
<1>11. ASSUME NEW W \in SUBSET Workers, Exit(W)
       PROVE  KeyInv'
  BY <1>11 DEF Exit
<1>12. CASE UNCHANGED keyVars
  BY <1>12 DEF keyVars
<1>13. QED
  BY <1>1, <1>2, <1>3, <1>4, <1>5, <1>6, <1>7, <1>8, <1>9, <1>10, <1>11,
     <1>12 DEF KeyNext, KeyStep

\* The variables of the key and its workers keep their types.
THEOREM KeyTypeCorrect == KeySpec => []KeyTypeOK
<1>1. KeyInit => KeyInv
  BY KeyInitially
<1>2. KeyInv /\ [KeyNext]_keyVars => KeyInv'
  BY KeyPreserved
<1>3. KeyInv => KeyTypeOK
  BY DEF KeyInv
<1>4. QED
  BY <1>1, <1>2, <1>3, PTL DEF KeySpec

\* Whatever a worker authorizes fits the private key, then and later.
THEOREM Fits == KeySpec => []AuthorizedFits
<1>1. KeyInit => KeyInv
  BY KeyInitially
<1>2. KeyInv /\ [KeyNext]_keyVars => KeyInv'
  BY KeyPreserved
<1>3. KeyInv => AuthorizedFits
  BY DEF KeyInv
<1>4. QED
  BY <1>1, <1>2, <1>3, PTL DEF KeySpec

\* A published pair is never replaced: a writer is only inside while there is no
\* public key or its own empty one.
THEOREM Kept == KeySpec => KeyIsKept
<1>1. KeyInit => KeyInv
  BY KeyInitially
<1>2. KeyInv /\ [KeyNext]_keyVars => KeyInv'
  BY KeyPreserved
<1>3. ASSUME KeyInv, [KeyNext]_keyVars, public \in Keys
      PROVE  UNCHANGED files
  <2> USE <1>3, KeyNames DEF KeyInv, WriterPart, Goes, files
  <2>1. ASSUME NEW w \in Workers, KeyStep(w)
        PROVE  UNCHANGED files
    BY <2>1 DEF KeyStep, Acquire, FoundKey, Generate, OpenPrivate,
       WritePrivate, OpenPublic, WritePublic
  <2>2. ASSUME NEW w \in Workers, Ensure(w) \/ ReadPublic(w) \/ Fail(w)
        PROVE  UNCHANGED files
    BY <2>2 DEF Ensure, ReadPublic, Fail
  <2>3. ASSUME NEW W \in SUBSET Workers, Exit(W)
        PROVE  UNCHANGED files
    BY <2>3 DEF Exit
  <2>4. QED
    BY <2>1, <2>2, <2>3 DEF KeyNext, keyVars
<1>4. KeyInv /\ [KeyNext]_keyVars => [(public \in Keys) => UNCHANGED files]_files
  BY <1>3
<1>5. QED
  BY <1>1, <1>2, <1>4, PTL DEF KeySpec, KeyIsKept

-----------------------------------------------------------------------------
(***************************************************************************)
(* The two files implement one pair that is made once.                     *)
(***************************************************************************)

LEMMA PairCases ==
  ASSUME KeyInv
  PROVE  /\ public \in Keys => Pair = public /\ ~torn
         /\ public = "empty" => Pair = IF torn THEN "torn" ELSE "none"
         /\ public = "absent" => Pair = "none" /\ ~torn
  BY KeyNames DEF KeyInv, KeyTypeOK, TornPart, PublishedPart, Pair

\* A step that leaves the public key alone, and tears nothing, changes no pair.
LEMMA PairKept ==
  ASSUME KeyInv, KeyInv', public' = public, torn' = torn
  PROVE  Pair' = Pair
<1>1. public \in Keys \/ public = "empty" \/ public = "absent"
  BY DEF KeyInv, KeyTypeOK, File
<1>2. /\ public' \in Keys => Pair' = public'
      /\ public' = "empty" => Pair' = IF torn' THEN "torn" ELSE "none"
      /\ public' = "absent" => Pair' = "none"
  BY KeyNames DEF KeyInv, KeyTypeOK, TornPart, PublishedPart, Pair
<1>3. QED
  BY <1>1, <1>2, PairCases, KeyNames

\* A call that ends while it writes the public half tears the pair.
LEMMA PairTorn ==
  ASSUME KeyInv, KeyInv', public' = public, NEW w \in Workers,
         at[w] = "publicOpen", torn'
  PROVE  Store!Tear
<1>1. public = "empty" /\ ~torn
  BY DEF KeyInv, WriterPart, TornPart, Writing
<1>2. Pair = "none"
  BY <1>1, PairCases
<1>3. Pair' = "torn"
  BY <1>1, KeyNames DEF Pair
<1>4. QED
  BY <1>2, <1>3 DEF Store!Tear

LEMMA StoreOfStep ==
  ASSUME KeyInv, KeyInv', [KeyNext]_keyVars
  PROVE  [Store!Next]_(Store!keyStoreVars)
<1> USE DEF Store!keyStoreVars
<1>1. ASSUME NEW w \in Workers,
             Ensure(w) \/ Acquire(w) \/ FoundKey(w) \/ Generate(w)
               \/ OpenPrivate(w) \/ WritePrivate(w)
      PROVE  UNCHANGED <<Pair, Authorized>>
  <2>1. UNCHANGED <<public, torn, got>>
    BY <1>1 DEF Ensure, Acquire, FoundKey, Generate, OpenPrivate, WritePrivate
  <2>2. QED
    BY <2>1, PairKept DEF Authorized
<1>2. ASSUME NEW w \in Workers, OpenPublic(w)
      PROVE  UNCHANGED <<Pair, Authorized>>
  <2>1. public = "absent" /\ public' = "empty" /\ UNCHANGED <<torn, got>>
    BY <1>2 DEF OpenPublic, Goes, KeyInv, WriterPart
  <2>2. Pair = "none" /\ ~torn
    BY <2>1, PairCases
  <2>3. Pair' = "none"
    BY <2>1, <2>2, KeyNames DEF Pair
  <2>4. QED
    BY <2>1, <2>2, <2>3 DEF Authorized
<1>3. ASSUME NEW w \in Workers, WritePublic(w)
      PROVE  Store!Publish
  <2>1. /\ at[w] = "publicOpen"
        /\ public = "empty"
        /\ private = key[w] /\ key[w] \in Keys
        /\ ~torn
    BY <1>3 DEF WritePublic, Goes, KeyInv, WriterPart, TornPart, Writing
  <2>2. public' = key[w] /\ UNCHANGED <<private, got, torn>>
    BY <1>3 DEF WritePublic
  <2>3. Pair = "none"
    BY <2>1, PairCases
  <2>4. Pair' \in Keys
    BY <2>1, <2>2 DEF Pair
  <2>5. QED
    BY <2>2, <2>3, <2>4 DEF Store!Publish, Authorized
<1>4. ASSUME NEW w \in Workers, ReadPublic(w)
      PROVE  Store!Authorize(w)
  <2>1. /\ at[w] = "released"
        /\ got' = [got EXCEPT ![w] = public]
        /\ UNCHANGED <<public, torn>>
    BY <1>4 DEF ReadPublic, Goes
  <2>2. public \in Keys \/ (public = "empty" /\ torn)
    BY <2>1 DEF KeyInv, PublishedPart
  <2>3. Pair = IF public = "empty" THEN "torn" ELSE public
    BY <2>2, PairCases, KeyNames
  <2>4. Pair # "none"
    BY <2>2, <2>3, KeyNames
  <2>5. got \in [Workers -> Keys \cup {"empty", "none"}]
    BY DEF KeyInv, KeyTypeOK
  <2>6. Authorized' = [Authorized EXCEPT ![w] = Pair]
    BY <2>1, <2>3, <2>5 DEF Authorized
  <2>7. QED
    BY <2>1, <2>4, <2>6, PairKept DEF Store!Authorize
<1>5. ASSUME NEW w \in Workers, Fail(w)
      PROVE  Store!TornByError \/ UNCHANGED <<Pair, Authorized>>
  <2>1. UNCHANGED <<public, got>> /\ torn' = (torn \/ at[w] = "publicOpen")
    BY <1>5 DEF Fail
  <2>2. UNCHANGED Authorized
    BY <2>1 DEF Authorized
  <2>3. CASE at[w] = "publicOpen"
    BY <2>1, <2>2, <2>3, PairTorn DEF Store!TornByError
  <2>4. CASE at[w] # "publicOpen"
    <3>1. torn' = torn
      BY <2>1, <2>4 DEF KeyInv, KeyTypeOK
    <3>2. QED
      BY <2>1, <2>2, <3>1, PairKept
  <2>5. QED
    BY <2>3, <2>4
<1>6. ASSUME NEW W \in SUBSET Workers, Exit(W)
      PROVE  Store!Leave(W)
  <2>1. /\ UNCHANGED public
        /\ got' = [w \in Workers |-> IF w \in W THEN "none" ELSE got[w]]
        /\ torn' = (torn \/ \E w \in W : at[w] = "publicOpen")
    BY <1>6 DEF Exit
  <2>2. Authorized' =
          [w \in Workers |-> IF w \in W THEN "none" ELSE Authorized[w]]
    BY <2>1 DEF Authorized
  <2>3. Store!Tear \/ UNCHANGED Pair
    <3>1. CASE \E w \in W : at[w] = "publicOpen"
      BY <2>1, <3>1, PairTorn
    <3>2. CASE ~ \E w \in W : at[w] = "publicOpen"
      <4>1. torn' = torn
        BY <2>1, <3>2 DEF KeyInv, KeyTypeOK
      <4>2. QED
        BY <2>1, <4>1, PairKept
    <3>3. QED
      BY <3>1, <3>2
  <2>4. QED
    BY <2>2, <2>3 DEF Store!Leave
<1>7. CASE UNCHANGED keyVars
  <2>1. UNCHANGED <<public, torn, got>>
    BY <1>7 DEF keyVars
  <2>2. QED
    BY <2>1, PairKept DEF Authorized
<1>8. QED
  BY <1>1, <1>2, <1>3, <1>4, <1>5, <1>6, <1>7
     DEF KeyNext, KeyStep, Store!Next

\* The key files of a project are one pair, made at most once: whoever fails or
\* ends, and wherever, no worker of any run is served anything else.
THEOREM Implements == KeySpec => ImplementsKeyStore
<1>1. KeyInit => Store!Init
  BY KeyNames DEF KeyInit, Store!Init, Pair, Authorized
<1>2. KeyInit => KeyInv
  BY KeyInitially
<1>3. KeyInv /\ [KeyNext]_keyVars => KeyInv'
  BY KeyPreserved
<1>4. KeyInv /\ KeyInv' /\ [KeyNext]_keyVars =>
        [Store!Next]_(Store!keyStoreVars)
  BY StoreOfStep
<1>5. QED
  BY <1>1, <1>2, <1>3, <1>4, PTL DEF KeySpec, ImplementsKeyStore, Store!Spec
=============================================================================
