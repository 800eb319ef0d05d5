-------------------------- MODULE TestSessionProofs --------------------------
(***************************************************************************)
(* Proofs about TestSession for every number of workers, tests, VMs and    *)
(* ports.                                                                  *)
(***************************************************************************)
EXTENDS TestSession, SequenceTheorems, TLAPS

LEMMA Bounds ==
  /\ MaxTests \in Nat
  /\ MaxVMs \in Nat
  /\ NoPort \notin Ports
  BY ConstantsAssumption, Zenon

\* A port is chosen before anything is started on it: only a VM whose start
\* ended before that has none and never gets one.
PortsChosen ==
  \A v \in VMIds : Exists(v) =>
    /\ \/ VM(v).at = "prepared"
       \/ VM(v).at = "broken" /\ VM(v).qemu = "none"
       \/ VM(v).port # NoPort
    /\ VM(v).at \in {"prepared", "chosen"} => VM(v).qemu = "none" /\ VM(v).conn = NoVM
    /\ VM(v).qemu = "killed" => KillFails

TypeInv == TypeOK /\ PortsChosen

-----------------------------------------------------------------------------
\* Nobody stops the VM any more: what is left of it.
Gone(r) ==
  /\ r.dir => r.at = "broken" /\ (r.kind = "handle" \/ r.qemu = "none")
  /\ r.qemu \in {"starting", "listening"} =>
       Interrupts /\ r.at = "broken" /\ r.kind = "handle"

\* A fixture stops every VM that is not gone, or the worker is starting it.
Tracked ==
  \A v \in VMIds : Exists(v) =>
    \/ VM(v).listed
    \/ Gone(VM(v))
    \/ Starting(v[1]) /\ v = Newest(v[1])

\* No start goes on after its phase, and no fixture keeps a VM after teardown.
Ended ==
  \A w \in Workers :
    /\ stage[w] \in {"teardown", "idle"} => ~Starting(w)
    /\ stage[w] = "idle" => \A i \in DOMAIN vms[w] : ~vms[w][i].listed

LeftInv == Tracked /\ Ended

\* Only the last VM of a test is being started, and a start_qemu that goes on
\* has already listed its VM.
Current ==
  \A v \in VMIds : Exists(v) /\ VM(v).at \in UnderWay =>
    /\ v = Newest(v[1])
    /\ VM(v).kind = "qemu" => VM(v).listed

-----------------------------------------------------------------------------
\* The VM v was given its port and may use it.
Present == {"starting", "listening", "killed"}
Claims(v) == Exists(v) /\ (VM(v).at = "chosen" \/ VM(v).qemu \in Present)

\* No two VMs have a claim to one port, and a connection is to a live VM.
PortInv ==
  /\ \A u, v \in VMIds :
       Claims(u) /\ Claims(v) /\ VM(u).port = VM(v).port => u = v
  /\ \A v \in VMIds : Exists(v) =>
       /\ VM(v).conn # NoVM => VM(v).conn = v /\ VM(v).qemu = "listening"
       /\ VM(v).at = "connecting" => VM(v).qemu \in {"starting", "listening"}

-----------------------------------------------------------------------------
(***************************************************************************)
(* What it means for the VMs that one of them changes or a new one is      *)
(* added.                                                                  *)
(***************************************************************************)

LEMMA VMTypes ==
  ASSUME TypeOK
  PROVE  /\ \A w \in Workers :
              /\ vms[w] \in Seq(Record)
              /\ Len(vms[w]) \in 0..MaxVMs
              /\ DOMAIN vms[w] = 1..Len(vms[w])
         /\ \A v \in VMIds :
              /\ v[1] \in Workers /\ v[2] \in 1..MaxVMs /\ v = <<v[1], v[2]>>
              /\ Exists(v) => VM(v) \in Record
         /\ \A w \in Workers, i \in 1..MaxVMs :
              <<w, i>> \in VMIds /\ <<w, i>>[1] = w /\ <<w, i>>[2] = i
         /\ \A w \in Workers : vms[w] # <<>> =>
              /\ Newest(w) \in VMIds /\ Exists(Newest(w))
              /\ Newest(w)[1] = w /\ Newest(w)[2] = Len(vms[w])
<1> USE Bounds
<1>1. ASSUME NEW w \in Workers
      PROVE  /\ vms[w] \in Seq(Record)
             /\ Len(vms[w]) \in 0..MaxVMs
             /\ DOMAIN vms[w] = 1..Len(vms[w])
  <2>1. vms \in [Workers -> Seq(Record)] /\ Len(vms[w]) <= MaxVMs
    BY Zenon DEF TypeOK
  <2>2. vms[w] \in Seq(Record)
    BY <2>1
  <2>3. QED
    BY <2>1, <2>2, LenProperties
<1>2. \A v \in VMIds :
        v[1] \in Workers /\ v[2] \in 1..MaxVMs /\ v = <<v[1], v[2]>>
  BY DEF VMIds
<1>3. \A v \in VMIds : Exists(v) => VM(v) \in Record
  BY <1>1, <1>2, ElementOfSeq DEF Exists, VM
<1>4. \A w \in Workers, i \in 1..MaxVMs :
        <<w, i>> \in VMIds /\ <<w, i>>[1] = w /\ <<w, i>>[2] = i
  BY DEF VMIds
<1>5. ASSUME NEW w \in Workers, vms[w] # <<>>
      PROVE  /\ Newest(w) \in VMIds /\ Exists(Newest(w))
             /\ Newest(w)[1] = w /\ Newest(w)[2] = Len(vms[w])
  <2>1. Len(vms[w]) # 0
    BY <1>1, <1>5, EmptySeq
  <2>2. Len(vms[w]) \in 1..MaxVMs /\ Len(vms[w]) \in DOMAIN vms[w]
    BY <1>1, <2>1
  <2>3. QED
    BY <1>4, <2>2 DEF Newest, Exists
<1>6. QED
  BY <1>1, <1>2, <1>3, <1>4, <1>5

LEMMA SetVM ==
  ASSUME TypeOK, NEW v \in VMIds, Exists(v), NEW r \in Record, Set(v, r)
  PROVE  /\ vms' \in [Workers -> Seq(Record)]
         /\ \A w \in Workers :
              /\ Len(vms'[w]) = Len(vms[w])
              /\ DOMAIN vms'[w] = DOMAIN vms[w]
              /\ vms'[w] = <<>> <=> vms[w] = <<>>
              /\ Newest(w)' = Newest(w)
         /\ \A u \in VMIds :
              /\ Exists(u)' <=> Exists(u)
              /\ Exists(u) => VM(u)' = IF u = v THEN r ELSE VM(u)
<1> DEFINE w0 == v[1]
           i0 == v[2]
           s0 == [vms[w0] EXCEPT ![i0] = r]
<1>1. /\ w0 \in Workers /\ i0 \in 1..MaxVMs /\ v = <<w0, i0>>
      /\ i0 \in 1..Len(vms[w0]) /\ vms[w0] \in Seq(Record)
      /\ DOMAIN vms[w0] = 1..Len(vms[w0])
  BY VMTypes DEF Exists
<1>2. /\ s0 \in Seq(Record) /\ Len(s0) = Len(vms[w0])
      /\ DOMAIN s0 = DOMAIN vms[w0]
      /\ \A i \in DOMAIN vms[w0] : s0[i] = IF i = i0 THEN r ELSE vms[w0][i]
  BY <1>1, ExceptSeq, LenProperties
<1>3. vms' = [vms EXCEPT ![w0] = s0]
  BY DEF Set
<1> HIDE DEF s0
<1>4. vms' \in [Workers -> Seq(Record)]
  BY <1>1, <1>2, <1>3 DEF TypeOK
<1>5. \A w \in Workers : vms'[w] = IF w = w0 THEN s0 ELSE vms[w]
  BY <1>3 DEF TypeOK
<1>6. ASSUME NEW w \in Workers
      PROVE  /\ Len(vms'[w]) = Len(vms[w])
             /\ DOMAIN vms'[w] = DOMAIN vms[w]
             /\ vms'[w] = <<>> <=> vms[w] = <<>>
             /\ Newest(w)' = Newest(w)
  <2>1. Len(vms'[w]) = Len(vms[w]) /\ DOMAIN vms'[w] = DOMAIN vms[w]
    BY <1>2, <1>5
  <2>2. vms[w] \in Seq(Record) /\ vms'[w] \in Seq(Record)
    BY <1>4 DEF TypeOK
  <2>3. QED
    BY <2>1, <2>2, EmptySeq DEF Newest
<1>7. ASSUME NEW u \in VMIds
      PROVE  /\ Exists(u)' <=> Exists(u)
             /\ Exists(u) => VM(u)' = IF u = v THEN r ELSE VM(u)
  <2>1. u[1] \in Workers /\ u = <<u[1], u[2]>>
    BY VMTypes
  <2>2. Exists(u)' <=> Exists(u)
    BY <1>6, <2>1 DEF Exists
  <2>3. ASSUME Exists(u)
        PROVE  VM(u)' = IF u = v THEN r ELSE VM(u)
    <3>1. CASE u[1] = w0
      BY <1>1, <1>2, <1>5, <2>1, <2>3, <3>1 DEF VM, Exists
    <3>2. CASE u[1] # w0
      BY <1>5, <2>1, <3>2 DEF VM
    <3>3. QED
      BY <3>1, <3>2
  <2>4. QED
    BY <2>2, <2>3
<1>8. QED
  BY <1>4, <1>6, <1>7

LEMMA AddVM ==
  ASSUME TypeOK, NEW w \in Workers, Len(vms[w]) < MaxVMs, NEW r \in Record,
         vms' = [vms EXCEPT ![w] = Append(@, r)]
  PROVE  LET v == <<w, Len(vms[w]) + 1>>
         IN  /\ v \in VMIds /\ ~Exists(v) /\ v[1] = w
             /\ vms' \in [Workers -> Seq(Record)]
             /\ \A x \in Workers : Len(vms'[x]) <= MaxVMs
             /\ \A x \in Workers : x # w => vms'[x] = vms[x]
             /\ vms'[w] # <<>> /\ Newest(w)' = v
             /\ \A u \in VMIds :
                  /\ Exists(u)' <=> Exists(u) \/ u = v
                  /\ Exists(u)' => VM(u)' = IF u = v THEN r ELSE VM(u)
<1> DEFINE n == Len(vms[w]) + 1
           v == <<w, n>>
           s == Append(vms[w], r)
<1> USE Bounds
<1>1. /\ vms[w] \in Seq(Record) /\ Len(vms[w]) \in Nat
      /\ DOMAIN vms[w] = 1..Len(vms[w]) /\ n \in 1..MaxVMs
  BY VMTypes
<1>2. v \in VMIds /\ ~Exists(v) /\ v[1] = w /\ v[2] = n
  BY <1>1, VMTypes DEF Exists
<1>3. /\ s \in Seq(Record) /\ Len(s) = n /\ DOMAIN s = 1..n /\ s[n] = r
      /\ \A i \in DOMAIN vms[w] : s[i] = vms[w][i]
  BY <1>1, AppendProperties, LenProperties
<1> HIDE DEF s
<1>4. vms' \in [Workers -> Seq(Record)]
  BY <1>3 DEF TypeOK, s
<1>5. \A x \in Workers : vms'[x] = IF x = w THEN s ELSE vms[x]
  BY DEF TypeOK, s
<1>6. \A x \in Workers : Len(vms'[x]) <= MaxVMs
  BY <1>1, <1>3, <1>5 DEF TypeOK
<1>7. vms'[w] # <<>> /\ Newest(w)' = v
  BY <1>1, <1>3, <1>5, EmptySeq DEF Newest
<1>8. ASSUME NEW u \in VMIds
      PROVE  /\ Exists(u)' <=> Exists(u) \/ u = v
             /\ Exists(u)' => VM(u)' = IF u = v THEN r ELSE VM(u)
  <2>1. u[1] \in Workers /\ u[2] \in 1..MaxVMs /\ u = <<u[1], u[2]>>
    BY VMTypes
  <2>2. CASE u[1] # w
    BY <1>5, <2>1, <2>2 DEF Exists, VM
  <2>3. CASE u[1] = w
    <3>1. Exists(u)' <=> u[2] \in 1..n
      BY <1>3, <1>5, <2>3 DEF Exists
    <3>2. Exists(u) <=> u[2] \in 1..Len(vms[w])
      BY <1>1, <2>3 DEF Exists
    <3>3. u = v <=> u[2] = n
      BY <2>1, <2>3
    <3>4. VM(u)' = s[u[2]] /\ VM(u) = vms[w][u[2]]
      BY <1>5, <2>3 DEF VM
    <3>5. QED
      BY <1>1, <1>3, <2>1, <3>1, <3>2, <3>3, <3>4
  <2>4. QED
    BY <2>2, <2>3
<1>9. QED
  BY <1>2, <1>4, <1>5, <1>6, <1>7, <1>8

-----------------------------------------------------------------------------
(***************************************************************************)
(* What a changed or a new VM must be like.                                *)
(***************************************************************************)

\* A record that a VM in its place may have.
Proper(r) ==
  /\ r.qemu # "none" => r.port # NoPort
  /\ \/ r.at = "prepared"
     \/ r.at = "broken" /\ r.qemu = "none"
     \/ r.port # NoPort
  /\ r.at \in {"prepared", "chosen"} => r.qemu = "none" /\ r.conn = NoVM
  /\ r.qemu = "killed" => KillFails

\* Types and the stages of the workers, without those of the VMs.
StagesTyped ==
  /\ tests \in [Workers -> 0..MaxTests]
  /\ stage \in [Workers -> {"idle", "setup", "call", "teardown"}]
  /\ ended \in [Workers -> Phases \cup {"no", "interrupted"}]

LEMMA ProperVMs ==
  TypeInv <=>
    /\ StagesTyped
    /\ vms \in [Workers -> Seq(Record)]
    /\ \A w \in Workers : Len(vms[w]) <= MaxVMs
    /\ \A v \in VMIds : Exists(v) => Proper(VM(v))
  BY DEF TypeInv, TypeOK, PortsChosen, StagesTyped, Proper

LEMMA TypeSet ==
  ASSUME TypeInv, NEW v \in VMIds, Exists(v), NEW r \in Record, Set(v, r),
         Proper(r), StagesTyped'
  PROVE  TypeInv'
<1>1. TypeOK
  BY DEF TypeInv
<1>2. \A w \in Workers : Len(vms'[w]) <= MaxVMs
  BY <1>1, SetVM DEF TypeOK
<1>3. ASSUME NEW u \in VMIds, Exists(u)'
      PROVE  Proper(VM(u)')
  <2>1. Exists(u) /\ VM(u)' = IF u = v THEN r ELSE VM(u)
    BY <1>1, <1>3, SetVM
  <2>2. QED
    BY <2>1, ProperVMs
<1>4. vms' \in [Workers -> Seq(Record)]
  BY <1>1, SetVM
<1>5. TypeOK'
  BY <1>2, <1>3, <1>4 DEF TypeOK, StagesTyped, Proper
<1>6. PortsChosen'
  BY <1>3 DEF PortsChosen, Proper
<1>7. QED
  BY <1>5, <1>6 DEF TypeInv

LEMMA TypeAdd ==
  ASSUME TypeInv, NEW w \in Workers, Len(vms[w]) < MaxVMs, NEW r \in Record,
         vms' = [vms EXCEPT ![w] = Append(@, r)], Proper(r), StagesTyped'
  PROVE  TypeInv'
<1>1. TypeOK
  BY DEF TypeInv
<1>2. vms' \in [Workers -> Seq(Record)] /\ \A x \in Workers : Len(vms'[x]) <= MaxVMs
  BY <1>1, AddVM
<1>3. ASSUME NEW u \in VMIds, Exists(u)'
      PROVE  Proper(VM(u)')
  <2>1. \/ Exists(u) /\ VM(u)' = VM(u)
        \/ VM(u)' = r
    BY <1>1, <1>3, AddVM
  <2>2. QED
    BY <2>1, ProperVMs
<1>4. TypeOK'
  BY <1>2, <1>3 DEF TypeOK, StagesTyped, Proper
<1>5. PortsChosen'
  BY <1>3 DEF PortsChosen, Proper
<1>6. QED
  BY <1>4, <1>5 DEF TypeInv

\* A VM that changes stays tracked if a fixture will stop it, if it has ended
\* or if its worker is starting it.
LEMMA LeftSet ==
  ASSUME TypeInv, LeftInv, NEW v \in VMIds, Exists(v), NEW r \in Record,
         Set(v, r), UNCHANGED stage,
         \/ r.listed
         \/ Gone(r)
         \/ v = Newest(v[1]) /\ r.at \in UnderWay,
         v = Newest(v[1]) /\ r.at \in UnderWay => Starting(v[1]),
         stage[v[1]] = "idle" => ~r.listed
  PROVE  LeftInv'
<1>1. TypeOK
  BY DEF TypeInv
<1>2. /\ \A u \in VMIds : Exists(u) => VM(u)' = IF u = v THEN r ELSE VM(u)
      /\ \A u \in VMIds : Exists(u)' <=> Exists(u)
      /\ \A w \in Workers : Newest(w)' = Newest(w)
      /\ \A w \in Workers : vms'[w] = <<>> <=> vms[w] = <<>>
      /\ \A w \in Workers : DOMAIN vms'[w] = DOMAIN vms[w]
  BY <1>1, SetVM
<1>3. \A w \in Workers : vms[w] # <<>> =>
        Newest(w) \in VMIds /\ Exists(Newest(w)) /\ Newest(w)[1] = w
  BY <1>1, VMTypes
<1>4. ASSUME NEW w \in Workers
      PROVE  Starting(w)' <=> /\ vms[w] # <<>>
                              /\ IF Newest(w) = v THEN r.at \in UnderWay
                                 ELSE VM(Newest(w)).at \in UnderWay
  <2>1. Starting(w)' <=> vms'[w] # <<>> /\ VM(Newest(w))'.at \in UnderWay
    BY DEF Starting, UnderWay
  <2>2. QED
    BY <1>2, <1>3, <2>1
<1>5. ASSUME NEW w \in Workers
      PROVE  Starting(w)' => Starting(w)
  <2>1. Starting(w) <=> vms[w] # <<>> /\ VM(Newest(w)).at \in UnderWay
    BY DEF Starting, UnderWay
  <2>2. QED
    BY <1>3, <1>4, <2>1
<1>6. Tracked'
  <2> SUFFICES ASSUME NEW u \in VMIds, Exists(u)'
               PROVE  \/ VM(u)'.listed
                      \/ Gone(VM(u)')
                      \/ Starting(u[1])' /\ u = Newest(u[1])'
    BY DEF Tracked, Gone
  <2>1. Exists(u) /\ u[1] \in Workers
    BY <1>1, <1>2, VMTypes
  <2>2. CASE u = v
    <3>1. vms[u[1]] # <<>>
      BY <1>1, <2>1, VMTypes, EmptySeq DEF Exists
    <3>2. QED
      BY <1>2, <1>4, <2>1, <2>2, <3>1
  <2>3. CASE u # v
    <3>1. VM(u)' = VM(u)
      BY <1>2, <2>1, <2>3
    <3>2. CASE Starting(u[1]) /\ u = Newest(u[1])
      BY <1>2, <1>4, <2>1, <2>3, <3>2 DEF Starting, UnderWay
    <3>3. CASE VM(u).listed \/ Gone(VM(u))
      BY <3>1, <3>3
    <3>4. QED
      BY <2>1, <3>2, <3>3 DEF LeftInv, Tracked, Gone
  <2>4. QED
    BY <2>2, <2>3
<1>7. Ended'
  <2> SUFFICES ASSUME NEW w \in Workers
               PROVE  /\ stage[w] \in {"teardown", "idle"} => ~Starting(w)'
                      /\ stage[w] = "idle" =>
                           \A i \in DOMAIN vms'[w] : ~vms'[w][i].listed
    BY DEF Ended
  <2>1. stage[w] \in {"teardown", "idle"} => ~Starting(w)'
    BY <1>5 DEF LeftInv, Ended
  <2>2. ASSUME stage[w] = "idle", NEW i \in DOMAIN vms'[w]
        PROVE  ~vms'[w][i].listed
    <3> DEFINE u == <<w, i>>
    <3>i. i \in DOMAIN vms[w] /\ i \in 1..MaxVMs
      BY Bounds, <1>1, <1>2, <2>2, VMTypes
    <3>1. u \in VMIds /\ Exists(u) /\ u[1] = w /\ u[2] = i
      BY <1>1, <3>i, VMTypes DEF Exists
    <3>2. VM(u) = vms[w][i] /\ VM(u)' = vms'[w][i]
      BY <3>1 DEF VM
    <3>3. ~VM(u).listed
      BY <1>2, <2>2, <3>2, Zenon DEF LeftInv, Ended
    <3>4. QED
      BY <1>2, <2>2, <3>1, <3>2, <3>3
  <2>3. QED
    BY <2>1, <2>2
<1>8. QED
  BY <1>6, <1>7 DEF LeftInv

LEMMA LeftAdd ==
  ASSUME TypeInv, LeftInv, NEW w \in Workers, Len(vms[w]) < MaxVMs,
         NEW r \in Record, vms' = [vms EXCEPT ![w] = Append(@, r)],
         UNCHANGED stage, stage[w] \in Phases, ~Starting(w),
         r.listed \/ Gone(r) \/ r.at \in UnderWay
  PROVE  LeftInv'
<1> DEFINE v == <<w, Len(vms[w]) + 1>>
<1>1. TypeOK
  BY DEF TypeInv
<1>2. /\ v \in VMIds /\ ~Exists(v) /\ v[1] = w
      /\ vms'[w] # <<>> /\ Newest(w)' = v
      /\ \A x \in Workers : x # w => vms'[x] = vms[x]
      /\ \A u \in VMIds :
           /\ Exists(u)' <=> Exists(u) \/ u = v
           /\ Exists(u)' => VM(u)' = IF u = v THEN r ELSE VM(u)
  BY <1>1, AddVM
<1> HIDE DEF v
<1>3. \A x \in Workers : x # w => /\ Starting(x)' <=> Starting(x)
                                  /\ Newest(x)' = Newest(x)
  <2>1. ASSUME NEW x \in Workers, x # w
        PROVE  Newest(x)' = Newest(x) /\ Newest(x)[1] = x
    BY <1>2, <2>1 DEF Newest
  <2>2. ASSUME NEW x \in Workers, x # w, vms[x] # <<>>
        PROVE  VM(Newest(x))' = VM(Newest(x))
    BY <1>2, <2>1, <2>2 DEF VM
  <2>3. QED
    BY <1>2, <2>1, <2>2 DEF Starting
<1>4. Starting(w)' <=> r.at \in UnderWay
  BY <1>2 DEF Starting, UnderWay
<1>5. Tracked'
  <2> SUFFICES ASSUME NEW u \in VMIds, Exists(u)'
               PROVE  \/ VM(u)'.listed
                      \/ Gone(VM(u)')
                      \/ Starting(u[1])' /\ u = Newest(u[1])'
    BY DEF Tracked, Gone
  <2>1. CASE u = v
    BY <1>2, <1>4, <2>1
  <2>2. CASE u # v
    <3>1. Exists(u) /\ VM(u)' = VM(u) /\ u[1] \in Workers
      BY <1>1, <1>2, <2>2, VMTypes
    <3>2. CASE Starting(u[1]) /\ u = Newest(u[1])
      BY <1>3, <3>1, <3>2
    <3>3. CASE VM(u).listed \/ Gone(VM(u))
      BY <3>1, <3>3
    <3>4. QED
      BY <3>1, <3>2, <3>3 DEF LeftInv, Tracked, Gone
  <2>3. QED
    BY <2>1, <2>2
<1>6. Ended'
  <2> SUFFICES ASSUME NEW x \in Workers
               PROVE  /\ stage[x] \in {"teardown", "idle"} => ~Starting(x)'
                      /\ stage[x] = "idle" =>
                           \A i \in DOMAIN vms'[x] : ~vms'[x][i].listed
    BY DEF Ended
  <2>1. CASE x = w
    BY <2>1 DEF Phases
  <2>2. CASE x # w
    BY <1>2, <1>3, <2>2, Zenon DEF LeftInv, Ended
  <2>3. QED
    BY <2>1, <2>2
<1>7. QED
  BY <1>5, <1>6 DEF LeftInv

\* A VM that changes or is added keeps the ports apart if its own claim does
\* not meet another's.
LEMMA PortSet ==
  ASSUME TypeInv, PortInv, NEW v \in VMIds, Exists(v), NEW r \in Record,
         Set(v, r),
         r.at = "chosen" \/ r.qemu \in Present =>
           \A u \in VMIds : u # v /\ Claims(u) => VM(u).port # r.port,
         r.conn # NoVM => r.conn = v /\ r.qemu = "listening",
         r.at = "connecting" => r.qemu \in {"starting", "listening"}
  PROVE  PortInv'
<1>1. TypeOK
  BY DEF TypeInv
<1>2. \A u \in VMIds :
        /\ Exists(u)' <=> Exists(u)
        /\ Exists(u) => VM(u)' = IF u = v THEN r ELSE VM(u)
  BY <1>1, SetVM
<1>3. \A u \in VMIds : u # v => (Claims(u)' <=> Claims(u))
  BY <1>2 DEF Claims, Present
<1>4. Claims(v)' => r.at = "chosen" \/ r.qemu \in Present
  BY <1>2 DEF Claims, Present
<1>5. ASSUME NEW x \in VMIds, NEW y \in VMIds, Claims(x)', Claims(y)',
             VM(x)'.port = VM(y)'.port
      PROVE  x = y
  <2>1. Exists(x) /\ Exists(y)
    BY <1>2, <1>5 DEF Claims, Present
  <2>2. CASE x # v /\ y # v
    BY <1>2, <1>3, <1>5, <2>1, <2>2 DEF PortInv
  <2>3. CASE x = v /\ y # v
    BY <1>2, <1>3, <1>4, <1>5, <2>1, <2>3
  <2>4. CASE x # v /\ y = v
    BY <1>2, <1>3, <1>4, <1>5, <2>1, <2>4
  <2>5. QED
    BY <2>2, <2>3, <2>4
<1>6. ASSUME NEW u \in VMIds, Exists(u)'
      PROVE  /\ VM(u)'.conn # NoVM => VM(u)'.conn = u /\ VM(u)'.qemu = "listening"
             /\ VM(u)'.at = "connecting" => VM(u)'.qemu \in {"starting", "listening"}
  BY <1>2, <1>6 DEF PortInv
<1>7. QED
  BY <1>5, <1>6 DEF PortInv

LEMMA PortAdd ==
  ASSUME TypeInv, PortInv, NEW w \in Workers, Len(vms[w]) < MaxVMs,
         NEW r \in Record, vms' = [vms EXCEPT ![w] = Append(@, r)],
         r.at \in {"prepared", "broken"}, r.qemu = "none", r.conn = NoVM
  PROVE  PortInv'
<1> DEFINE v == <<w, Len(vms[w]) + 1>>
<1>1. TypeOK
  BY DEF TypeInv
<1>2. \A u \in VMIds :
        /\ Exists(u)' <=> Exists(u) \/ u = v
        /\ Exists(u)' => VM(u)' = IF u = v THEN r ELSE VM(u)
  BY <1>1, AddVM
<1> HIDE DEF v
<1>3. \A u \in VMIds : Claims(u)' => Claims(u) /\ VM(u)' = VM(u)
  BY <1>2 DEF Claims, Present
<1>4. QED
  BY <1>2, <1>3 DEF PortInv

-----------------------------------------------------------------------------
\* The records that the actions make of a VM.
LEMMA NewVMs ==
  ASSUME NEW k \in {"handle", "qemu"}
  PROVE  /\ NewVM(k) \in Record
         /\ [NewVM(k) EXCEPT !.listed = (k = "qemu")] \in Record
         /\ [NewVM(k) EXCEPT !.at = "broken"] \in Record
  BY DEF NewVM, Record

LEMMA ChosenVM ==
  ASSUME NEW x \in Record, NEW p \in Ports
  PROVE  [x EXCEPT !.at = "chosen", !.port = p] \in Record
  BY DEF Record

LEMMA SpawnedVMs ==
  ASSUME NEW x \in Record
  PROVE  /\ [x EXCEPT !.qemu = "starting", !.at = "connecting"] \in Record
         /\ [x EXCEPT !.qemu = "starting", !.at = "ready", !.stashed = TRUE] \in Record
         /\ [x EXCEPT !.at = "broken"] \in Record
  BY DEF Record

LEMMA ConnectedVMs ==
  ASSUME NEW x \in Record, NEW v \in VMIds
  PROVE  /\ Connected(x, v) \in Record
         /\ [x EXCEPT !.conn = v] \in Record
  BY DEF Record, Connected

LEMMA StoppedVMs ==
  ASSUME NEW x \in Record
  PROVE  /\ \A q \in Stopped(x) :
              /\ StopAndCleanup(x, q) \in Record
              /\ [StopAndCleanup(x, q) EXCEPT !.at = "failed"] \in Record
              /\ q \in {"none", "dead", "killed"}
              /\ q # "none" => x.qemu # "none"
              /\ x.qemu = "none" => q = "none"
              /\ q = "killed" => KillFails \/ x.qemu = "killed"
              /\ q \in Present => x.qemu \in Present
         /\ \A q \in {"listening", "dead"} : [x EXCEPT !.qemu = q] \in Record
<1>1. \A q \in {"none", "dead", "killed"} :
        /\ StopAndCleanup(x, q) \in Record
        /\ [StopAndCleanup(x, q) EXCEPT !.at = "failed"] \in Record
  BY DEF Record, StopAndCleanup
<1>2. x.qemu \in {"none", "starting", "listening", "killed", "dead"}
  BY DEF Record
<1>3. \A q \in {"listening", "dead"} : [x EXCEPT !.qemu = q] \in Record
  BY DEF Record
<1>4. QED
  BY <1>1, <1>2, <1>3 DEF Stopped, Present

\* What is known of a VM and of the one that a worker is starting.
LEMMA KnownVM ==
  ASSUME TypeInv, NEW v \in VMIds, Exists(v)
  PROVE  VM(v) \in Record /\ Proper(VM(v)) /\ v[1] \in Workers
<1>1. TypeOK
  BY DEF TypeInv
<1>2. QED
  BY <1>1, ProperVMs, VMTypes

LEMMA StartingVM ==
  ASSUME TypeInv, NEW w \in Workers, Starting(w)
  PROVE  /\ Newest(w) \in VMIds /\ Exists(Newest(w)) /\ Newest(w)[1] = w
         /\ VM(Newest(w)) \in Record /\ Proper(VM(Newest(w)))
         /\ VM(Newest(w)).at \in UnderWay
<1>1. TypeOK /\ vms[w] # <<>> /\ VM(Newest(w)).at \in UnderWay
  BY DEF TypeInv, Starting, UnderWay
<1>2. Newest(w) \in VMIds /\ Exists(Newest(w)) /\ Newest(w)[1] = w
  BY <1>1, VMTypes
<1>3. QED
  BY <1>1, <1>2, KnownVM

-----------------------------------------------------------------------------
\* A step that leaves VMs alone, or only saves their outputs and ends a start
\* that is under way, keeps what is known of them.
SameVM(x, r) ==
  /\ r \in Record
  /\ r.kind = x.kind /\ r.port = x.port /\ r.qemu = x.qemu
  /\ r.dir = x.dir /\ r.conn = x.conn /\ r.listed = x.listed
  /\ r.stashed = x.stashed
  /\ r.at = x.at \/ (x.at \in UnderWay /\ r.at = "broken")

SameVMs ==
  /\ vms' \in [Workers -> Seq(Record)]
  /\ \A w \in Workers : Len(vms'[w]) = Len(vms[w]) /\ DOMAIN vms'[w] = DOMAIN vms[w]
  /\ \A u \in VMIds :
       /\ Exists(u)' <=> Exists(u)
       /\ Exists(u) => SameVM(VM(u), VM(u)')

\* A sequence that is changed item by item.
LEMMA MapSeq ==
  ASSUME NEW R, NEW t \in Seq(R), NEW s, s = [i \in DOMAIN t |-> s[i]],
         \A i \in DOMAIN t : s[i] \in R
  PROVE  s \in Seq(R) /\ Len(s) = Len(t) /\ DOMAIN s = DOMAIN t
<1>1. Len(t) \in Nat /\ DOMAIN t = 1..Len(t)
  BY LenProperties
<1>2. s \in [1..Len(t) -> R]
  BY <1>1
<1>3. QED
  BY <1>1, <1>2, SeqDef, LenProperties

\* What EndTest and Interrupt make of the VMs of their test.
SavedVM(v) == VM(v).stashed => VM(v).saved
Saves(w) == EndTest(w) /\ stage[w] = "call"

LEMMA EndVMs ==
  ASSUME TypeInv, NEW w \in Workers, EndTest(w) \/ Interrupt(w)
  PROVE  /\ SameVMs
         /\ \A u \in VMIds : Exists(u) =>
              /\ u[1] # w => VM(u)' = VM(u)
              /\ u[1] = w => VM(u)'.at \notin UnderWay
              /\ u[1] = w /\ Saves(w) => SavedVM(u)'
<1> DEFINE t == vms[w]
           l == Left(t)
           s == IF Saves(w) THEN Save(l) ELSE l
<1>1. TypeOK
  BY DEF TypeInv
<1>2. vms' = [vms EXCEPT ![w] = s]
  BY Zenon DEF EndTest, Interrupt, Saves
<1>3. t \in Seq(Record) /\ \A i \in DOMAIN t : t[i] \in Record
  BY <1>1, VMTypes, ElementOfSeq
<1>4. /\ DOMAIN l = DOMAIN t
      /\ \A i \in DOMAIN t :
           l[i] = [t[i] EXCEPT !.at = IF @ \in UnderWay THEN "broken" ELSE @]
  BY DEF Left
<1>5. l = [i \in DOMAIN t |-> l[i]]
  BY Zenon DEF Left
<1>6. \A i \in DOMAIN t : /\ SameVM(t[i], l[i])
                           /\ l[i].at \notin UnderWay
  <2> SUFFICES ASSUME NEW i \in DOMAIN t
               PROVE  SameVM(t[i], l[i]) /\ l[i].at \notin UnderWay
    OBVIOUS
  <2> DEFINE a == IF t[i].at \in UnderWay THEN "broken" ELSE t[i].at
             r == l[i]
  <2>1. /\ a \notin UnderWay
        /\ a = t[i].at \/ (t[i].at \in UnderWay /\ a = "broken")
    BY DEF UnderWay
  <2>2. r = [t[i] EXCEPT !.at = a] /\ t[i] \in Record
    BY <1>3, <1>4
  <2> HIDE DEF a, r
  <2>3. /\ r.kind = t[i].kind /\ r.port = t[i].port /\ r.qemu = t[i].qemu
        /\ r.dir = t[i].dir /\ r.conn = t[i].conn /\ r.listed = t[i].listed
        /\ r.stashed = t[i].stashed /\ r.at = a
    BY <2>2 DEF Record
  <2>4. r \in Record
    <3>1. a \in {"prepared", "chosen", "connecting", "ready", "failed", "broken"}
      BY <2>1, <2>2 DEF Record
    <3>2. QED
      BY <2>2, <3>1 DEF Record
  <2>5. QED
    BY <2>1, <2>3, <2>4 DEF SameVM, r
<1>7. /\ DOMAIN Save(l) = DOMAIN t
      /\ \A i \in DOMAIN t :
           Save(l)[i] = [l[i] EXCEPT !.saved = @ \/ l[i].stashed]
  BY <1>4 DEF Save
<1>8. Save(l) = [i \in DOMAIN t |-> Save(l)[i]]
  BY <1>4, Zenon DEF Save
<1> HIDE DEF l
<1>9. ASSUME NEW i \in DOMAIN t
      PROVE  /\ SameVM(t[i], Save(l)[i])
             /\ Save(l)[i].at \notin UnderWay
             /\ Save(l)[i].stashed => Save(l)[i].saved
  <2> DEFINE b == l[i].saved \/ l[i].stashed
             r == Save(l)[i]
  <2>1. b \in BOOLEAN /\ (l[i].stashed => b)
    OBVIOUS
  <2>2. r = [l[i] EXCEPT !.saved = b]
    BY <1>7
  <2>3. l[i] \in Record /\ SameVM(t[i], l[i]) /\ l[i].at \notin UnderWay
    BY <1>6 DEF SameVM
  <2> HIDE DEF b, r
  <2>4. /\ r \in Record /\ r.kind = l[i].kind /\ r.port = l[i].port
        /\ r.qemu = l[i].qemu /\ r.dir = l[i].dir /\ r.conn = l[i].conn
        /\ r.listed = l[i].listed /\ r.stashed = l[i].stashed
        /\ r.at = l[i].at /\ r.saved = b
    BY <2>1, <2>2, <2>3 DEF Record
  <2>5. SameVM(t[i], r) /\ r.at \notin UnderWay
    BY <2>3, <2>4 DEF SameVM
  <2>6. r.stashed => r.saved
    BY <2>1, <2>4
  <2>7. QED
    BY <2>5, <2>6 DEF r
<1>10. /\ s = [i \in DOMAIN t |-> s[i]]
       /\ \A i \in DOMAIN t :
            /\ SameVM(t[i], s[i])
            /\ s[i].at \notin UnderWay
            /\ Saves(w) /\ s[i].stashed => s[i].saved
  BY <1>5, <1>6, <1>8, <1>9, Zenon
<1> HIDE DEF s
<1>11. s \in Seq(Record) /\ Len(s) = Len(t) /\ DOMAIN s = DOMAIN t
  <2>1. \A i \in DOMAIN t : s[i] \in Record
    BY <1>10 DEF SameVM
  <2>2. QED
    BY <1>3, <1>10, <2>1, MapSeq
<1>12. \A x \in Workers : vms'[x] = IF x = w THEN s ELSE vms[x]
  BY <1>1, <1>2 DEF TypeOK
<1>13. vms' \in [Workers -> Seq(Record)]
  BY <1>1, <1>2, <1>11 DEF TypeOK
<1>14. \A x \in Workers : Len(vms'[x]) = Len(vms[x]) /\ DOMAIN vms'[x] = DOMAIN vms[x]
  BY <1>11, <1>12
<1>15. ASSUME NEW u \in VMIds
       PROVE  /\ Exists(u)' <=> Exists(u)
              /\ Exists(u) => /\ SameVM(VM(u), VM(u)')
                              /\ u[1] # w => VM(u)' = VM(u)
                              /\ u[1] = w => VM(u)'.at \notin UnderWay
                              /\ u[1] = w /\ Saves(w) => SavedVM(u)'
  <2>1. u[1] \in Workers
    BY <1>1, VMTypes
  <2>2. Exists(u)' <=> Exists(u)
    BY <1>14, <2>1 DEF Exists
  <2>3. CASE Exists(u) /\ u[1] = w
    <3>1. VM(u)' = s[u[2]] /\ VM(u) = t[u[2]] /\ u[2] \in DOMAIN t
      BY <1>12, <2>3 DEF VM, Exists
    <3>2. QED
      BY <1>10, <2>2, <2>3, <3>1, Zenon DEF SavedVM
  <2>4. CASE Exists(u) /\ u[1] # w
    <3>1. VM(u)' = VM(u)
      BY <1>12, <2>1, <2>4 DEF VM
    <3>2. VM(u) \in Record
      BY <2>4, KnownVM
    <3>3. QED
      BY <2>2, <2>4, <3>1, <3>2 DEF SameVM
  <2>5. QED
    BY <2>2, <2>3, <2>4
<1>16. QED
  BY <1>13, <1>14, <1>15 DEF SameVMs

LEMMA UnchangedVMs ==
  ASSUME TypeInv, vms' = vms
  PROVE  SameVMs
<1>1. ASSUME NEW u \in VMIds, Exists(u)
      PROVE  SameVM(VM(u), VM(u)')
  BY <1>1, KnownVM DEF SameVM, VM
<1>2. vms' \in [Workers -> Seq(Record)]
  BY Zenon DEF TypeInv, TypeOK
<1>3. \A u \in VMIds : Exists(u)' <=> Exists(u)
  BY DEF Exists
<1>4. QED
  BY <1>1, <1>2, <1>3 DEF SameVMs

LEMMA SameFields ==
  ASSUME TypeInv, SameVMs, NEW u \in VMIds, Exists(u)
  PROVE  /\ \/ VM(u)'.at = VM(u).at
            \/ VM(u).at \in UnderWay /\ VM(u)'.at = "broken"
         /\ VM(u)'.qemu = VM(u).qemu /\ VM(u)' \in Record
         /\ VM(u)'.port = VM(u).port /\ VM(u)'.conn = VM(u).conn
         /\ VM(u)'.dir = VM(u).dir /\ VM(u)'.listed = VM(u).listed
         /\ VM(u)'.kind = VM(u).kind /\ VM(u)'.stashed = VM(u).stashed
  BY DEF SameVMs, SameVM

LEMMA SameType ==
  ASSUME TypeInv, SameVMs, StagesTyped'
  PROVE  TypeInv'
<1>1. \A w \in Workers : Len(vms'[w]) <= MaxVMs
  BY DEF TypeInv, TypeOK, SameVMs
<1>2. ASSUME NEW u \in VMIds, Exists(u)'
      PROVE  Proper(VM(u)')
  <2>1. Exists(u)
    BY <1>2 DEF SameVMs
  <2>2. Proper(VM(u))
    BY <2>1, KnownVM
  <2>3. QED
    BY <2>1, <2>2, SameFields DEF Proper, UnderWay
<1>3. TypeOK'
  BY <1>1, <1>2 DEF TypeOK, StagesTyped, Proper, SameVMs
<1>4. PortsChosen'
  BY <1>2 DEF PortsChosen, Proper
<1>5. QED
  BY <1>3, <1>4 DEF TypeInv

LEMMA SameLeft ==
  ASSUME TypeInv, LeftInv, Current, SameVMs,
         \A w \in Workers :
           /\ Starting(w) => Starting(w)' \/ Interrupts
           /\ stage'[w] \in {"teardown", "idle"} => ~Starting(w)'
           /\ stage'[w] = "idle" => \A i \in DOMAIN vms[w] : ~vms[w][i].listed
  PROVE  LeftInv'
<1>1. TypeOK
  BY DEF TypeInv
<1>2. ASSUME NEW w \in Workers
      PROVE  Newest(w)' = Newest(w)
  BY DEF SameVMs, Newest
<1>3. Tracked'
  <2> SUFFICES ASSUME NEW u \in VMIds, Exists(u)'
               PROVE  \/ VM(u)'.listed
                      \/ Gone(VM(u)')
                      \/ Starting(u[1])' /\ u = Newest(u[1])'
    BY DEF Tracked
  <2>1. Exists(u) /\ u[1] \in Workers
    BY <1>1, VMTypes DEF SameVMs
  <2>2. VM(u).listed \/ Gone(VM(u)) \/ (Starting(u[1]) /\ u = Newest(u[1]))
    BY <2>1 DEF LeftInv, Tracked
  <2>3. CASE VM(u).listed \/ Gone(VM(u))
    BY <2>1, <2>3, SameFields DEF Gone, UnderWay
  <2>4. CASE Starting(u[1]) /\ u = Newest(u[1]) /\ ~Starting(u[1])'
    <3>1. VM(u).at \in UnderWay /\ Interrupts
      BY <2>1, <2>4 DEF Starting
    <3>2. VM(u)'.at \notin UnderWay
      <4>1. vms'[u[1]] # <<>>
        <5>1. u[2] \in DOMAIN vms'[u[1]]
          BY DEF Exists
        <5>2. QED
          BY <5>1
      <4>2. VM(Newest(u[1]))' = VM(u)'
        BY <1>2, <2>1, <2>4
      <4>3. QED
        BY <2>4, <4>1, <4>2 DEF Starting
    <3>3. VM(u)'.at = "broken"
      BY <2>1, <3>1, <3>2, SameFields
    <3>4. VM(u)'.kind = "handle" \/ VM(u)'.listed
      <4>1. VM(u).kind = "qemu" => VM(u).listed
        BY <2>1, <3>1 DEF Current
      <4>2. VM(u).kind \in {"handle", "qemu"}
        BY <2>1, KnownVM DEF Record
      <4>3. QED
        BY <2>1, <4>1, <4>2, SameFields
    <3>5. QED
      BY <3>1, <3>3, <3>4 DEF Gone
  <2>5. QED
    BY <1>2, <2>1, <2>2, <2>3, <2>4
<1>4. Ended'
  <2> SUFFICES ASSUME NEW w \in Workers
               PROVE  /\ stage'[w] \in {"teardown", "idle"} => ~Starting(w)'
                      /\ stage'[w] = "idle" =>
                           \A i \in DOMAIN vms'[w] : ~vms'[w][i].listed
    BY DEF Ended
  <2>1. ASSUME stage'[w] = "idle", NEW i \in DOMAIN vms'[w]
        PROVE  ~vms'[w][i].listed
    <3> DEFINE u == <<w, i>>
    <3>i. i \in DOMAIN vms[w]
      BY <2>1 DEF SameVMs
    <3>1. i \in DOMAIN vms[w] /\ i \in 1..MaxVMs
      BY Bounds, <1>1, <3>i, VMTypes
    <3>2. u \in VMIds /\ Exists(u) /\ u[1] = w /\ u[2] = i
      BY <1>1, <3>1, VMTypes DEF Exists
    <3>3. VM(u) = vms[w][i] /\ VM(u)' = vms'[w][i]
      BY <3>2 DEF VM
    <3>4. ~VM(u).listed
      BY <2>1, <3>1, <3>3, Zenon
    <3>5. VM(u)'.listed = VM(u).listed
      BY <3>2, SameFields
    <3>6. QED
      BY <3>3, <3>4, <3>5
  <2>2. QED
    BY <2>1
<1>5. QED
  BY <1>3, <1>4 DEF LeftInv

LEMMA SamePorts ==
  ASSUME TypeInv, PortInv, SameVMs
  PROVE  PortInv'
<1>1. \A u \in VMIds : Claims(u)' => Claims(u)
  BY SameFields DEF Claims, SameVMs
<1>2. QED
  BY <1>1, SameFields DEF PortInv, SameVMs, Claims

LEMMA SameCurrent ==
  ASSUME TypeInv, Current, SameVMs
  PROVE  Current'
  BY SameFields DEF Current, SameVMs, Newest, VMIds, UnderWay

-----------------------------------------------------------------------------
LEMMA CurrentSet ==
  ASSUME TypeInv, Current, NEW v \in VMIds, Exists(v), NEW r \in Record,
         Set(v, r),
         r.at \in UnderWay => /\ VM(v).at \in UnderWay
                           /\ r.kind = VM(v).kind /\ r.listed = VM(v).listed
  PROVE  Current'
<1>1. TypeOK
  BY DEF TypeInv
<1>2. /\ \A u \in VMIds :
           /\ Exists(u)' <=> Exists(u)
           /\ Exists(u) => VM(u)' = IF u = v THEN r ELSE VM(u)
      /\ \A w \in Workers : Newest(w)' = Newest(w)
  BY <1>1, SetVM
<1>3. \A u \in VMIds : u[1] \in Workers
  BY <1>1, VMTypes
<1>4. QED
  BY <1>2, <1>3 DEF Current

LEMMA CurrentAdd ==
  ASSUME TypeInv, Current, NEW w \in Workers, Len(vms[w]) < MaxVMs,
         NEW r \in Record, vms' = [vms EXCEPT ![w] = Append(@, r)],
         ~Starting(w), r.kind = "qemu" /\ r.at \in UnderWay => r.listed
  PROVE  Current'
<1> DEFINE v == <<w, Len(vms[w]) + 1>>
<1>1. TypeOK
  BY DEF TypeInv
<1>2. /\ v \in VMIds /\ v[1] = w /\ Newest(w)' = v
      /\ \A x \in Workers : x # w => vms'[x] = vms[x]
      /\ \A u \in VMIds :
           /\ Exists(u)' <=> Exists(u) \/ u = v
           /\ Exists(u)' => VM(u)' = IF u = v THEN r ELSE VM(u)
  BY <1>1, AddVM
<1> HIDE DEF v
<1> SUFFICES ASSUME NEW u \in VMIds, Exists(u)', VM(u)'.at \in UnderWay
             PROVE  /\ u = Newest(u[1])'
                    /\ VM(u)'.kind = "qemu" => VM(u)'.listed
  BY DEF Current
<1>3. CASE u = v
  BY <1>2, <1>3
<1>4. CASE u # v
  <2>1. Exists(u) /\ VM(u)' = VM(u) /\ u[1] \in Workers
    BY <1>1, <1>2, <1>4, VMTypes
  <2>2. u = Newest(u[1]) /\ (VM(u).kind = "qemu" => VM(u).listed)
    BY <2>1 DEF Current
  <2>3. u[1] # w
    <3>1. vms[u[1]] # <<>>
      BY <1>1, <2>1, VMTypes, EmptySeq DEF Exists
    <3>2. QED
      BY <2>1, <2>2, <3>1 DEF Starting, UnderWay
  <2>4. Newest(u[1])' = Newest(u[1])
    BY <1>2, <2>1, <2>3 DEF Newest
  <2>5. QED
    BY <2>1, <2>2, <2>4
<1>5. QED
  BY <1>3, <1>4

\* A VM that is being started is the one its worker starts.
LEMMA BegunVM ==
  ASSUME TypeInv, NEW v \in VMIds, Exists(v), v = Newest(v[1]),
         VM(v).at \in UnderWay
  PROVE  Starting(v[1])
<1>1. vms[v[1]] # <<>>
  BY VMTypes, EmptySeq DEF Exists, TypeInv
<1>2. QED
  BY <1>1 DEF Starting, UnderWay

\* No fixture is finalized while the VM is being started.
LEMMA EndedVM ==
  ASSUME TypeInv, LeftInv, Current, NEW v \in VMIds, Exists(v),
         stage[v[1]] \in {"teardown", "idle"}
  PROVE  VM(v).at \notin UnderWay
<1>1. v[1] \in Workers
  BY KnownVM
<1>2. QED
  BY <1>1, BegunVM DEF LeftInv, Ended, Current

LEMMA LeftKeep ==
  ASSUME TypeInv, LeftInv, NEW v \in VMIds, Exists(v), NEW r \in Record,
         Set(v, r), UNCHANGED stage, r.at = VM(v).at, r.listed = VM(v).listed,
         Gone(VM(v)) => Gone(r)
  PROVE  LeftInv'
<1>1. v[1] \in Workers
  BY KnownVM
<1>2. \/ r.listed
      \/ Gone(r)
      \/ v = Newest(v[1]) /\ r.at \in UnderWay
  BY DEF LeftInv, Tracked, Gone, Starting, UnderWay
<1>3. v = Newest(v[1]) /\ r.at \in UnderWay => Starting(v[1])
  BY BegunVM
<1>4. stage[v[1]] = "idle" => ~r.listed
  BY <1>1, Zenon DEF LeftInv, Ended, Exists, VM
<1>5. QED
  BY <1>2, <1>3, <1>4, LeftSet

LEMMA LeftStart ==
  ASSUME TypeInv, LeftInv, NEW w \in Workers, Starting(w), NEW r \in Record,
         Set(Newest(w), r), UNCHANGED stage,
         r.listed \/ Gone(r) \/ r.at \in UnderWay
  PROVE  LeftInv'
<1> DEFINE v == Newest(w)
<1>1. v \in VMIds /\ Exists(v) /\ v[1] = w
  BY StartingVM
<1>2. stage[w] # "idle"
  BY DEF LeftInv, Ended
<1> HIDE DEF v
<1>3. Set(v, r) /\ v = Newest(v[1])
  BY <1>1 DEF v
<1>4. QED
  BY <1>1, <1>2, <1>3, LeftSet

\* A VM that keeps its port keeps the ports apart unless it gets a claim.
LEMMA PortKeep ==
  ASSUME TypeInv, PortInv, NEW v \in VMIds, Exists(v), NEW r \in Record,
         Set(v, r), r.port = VM(v).port,
         r.at = "chosen" \/ r.qemu \in Present => Claims(v),
         r.conn # NoVM => r.conn = v /\ r.qemu = "listening",
         r.at = "connecting" => r.qemu \in {"starting", "listening"}
  PROVE  PortInv'
<1>1. r.at = "chosen" \/ r.qemu \in Present =>
        \A u \in VMIds : u # v /\ Claims(u) => VM(u).port # r.port
  BY DEF PortInv
<1>2. QED
  BY <1>1, PortSet

\* Whoever answers on the port of a VM that has a claim to it is that VM.
LEMMA Answers ==
  ASSUME PortInv, NEW u \in VMIds, NEW v \in VMIds, Claims(v),
         Listening(u, VM(v).port)
  PROVE  u = v
  BY DEF PortInv, Claims, Present, Listening
-----------------------------------------------------------------------------
(***************************************************************************)
(* Every action keeps what is known of the VMs.                            *)
(***************************************************************************)

StartInv == TypeInv /\ LeftInv /\ Current

LEMMA StagesStep ==
  ASSUME TypeInv, [Next]_vars
  PROVE  StagesTyped'
<1> USE Bounds
<1>1. StagesTyped
  BY ProperVMs
<1>2. ASSUME NEW w \in Workers, BeginTest(w)
      PROVE  StagesTyped'
  BY <1>1, <1>2 DEF StagesTyped, BeginTest
<1>3. ASSUME NEW w \in Workers,
             BeginCall(w) \/ EndTest(w) \/ Interrupt(w) \/ EndTeardown(w)
      PROVE  StagesTyped'
  BY <1>1, <1>3 DEF StagesTyped, BeginCall, EndTest, Interrupt, EndTeardown, Phases
<1>4. CASE UNCHANGED <<tests, stage, ended>>
  BY <1>1, <1>4 DEF StagesTyped
<1>5. QED
  BY <1>2, <1>3, <1>4, Zenon
     DEF Next, WorkerStep, vars, CloseVM, Prepare, PrepareFails, ChoosePort,
         Spawn, SpawnFails, Connect, BootFails, Reconnect, Bind, QemuExits

\* A new test of a worker has no VM yet.
LEMMA NoVMs ==
  ASSUME TypeInv, NEW w \in Workers, BeginTest(w)
  PROVE  /\ vms' \in [Workers -> Seq(Record)]
         /\ ~Starting(w)' /\ DOMAIN vms'[w] = {} /\ Len(vms'[w]) = 0
         /\ \A x \in Workers : x # w => /\ vms'[x] = vms[x]
                                        /\ stage'[x] = stage[x]
                                        /\ Starting(x)' <=> Starting(x)
                                        /\ Newest(x)' = Newest(x)
         /\ \A u \in VMIds :
              Exists(u)' => u[1] # w /\ u[1] \in Workers /\ Exists(u) /\ VM(u)' = VM(u)
<1> USE Bounds
<1>1. TypeOK
  BY DEF TypeInv
<1>2. /\ vms' = [vms EXCEPT ![w] = <<>>] /\ stage' = [stage EXCEPT ![w] = "setup"]
      /\ vms \in [Workers -> Seq(Record)]
      /\ stage \in [Workers -> {"idle", "setup", "call", "teardown"}]
  BY <1>1, Zenon DEF BeginTest, TypeOK
<1>3. vms' \in [Workers -> Seq(Record)] /\ vms'[w] = <<>>
  BY <1>2
<1>4. ~Starting(w)' /\ DOMAIN vms'[w] = {} /\ Len(vms'[w]) = 0
  BY <1>3 DEF Starting
<1>5. ASSUME NEW x \in Workers, x # w
      PROVE  /\ vms'[x] = vms[x] /\ stage'[x] = stage[x]
             /\ Newest(x)' = Newest(x)
             /\ Starting(x)' <=> Starting(x)
  <2>1. vms'[x] = vms[x] /\ stage'[x] = stage[x]
    BY <1>2, <1>5
  <2>2. Newest(x)' = Newest(x) /\ Newest(x)[1] = x
    BY <2>1 DEF Newest
  <2>3. VM(Newest(x))' = VM(Newest(x))
    BY <2>1, <2>2 DEF VM
  <2>4. QED
    BY <2>1, <2>2, <2>3 DEF Starting
<1>6. ASSUME NEW u \in VMIds, Exists(u)'
      PROVE  u[1] # w /\ u[1] \in Workers /\ Exists(u) /\ VM(u)' = VM(u)
  <2>1. u[1] \in Workers
    BY <1>1, VMTypes
  <2>2. u[1] # w
    BY <1>4, <1>6 DEF Exists
  <2>3. QED
    BY <1>5, <1>6, <2>1, <2>2 DEF Exists, VM
<1>7. QED
  BY <1>3, <1>4, <1>5, <1>6

LEMMA BeginTestStep ==
  ASSUME StartInv, StagesTyped', NEW w \in Workers, BeginTest(w)
  PROVE  StartInv' /\ (PortInv => PortInv')
<1>1. TypeInv /\ LeftInv /\ Current
  BY DEF StartInv
<1>2. \A u \in VMIds :
        Exists(u)' => u[1] # w /\ u[1] \in Workers /\ Exists(u) /\ VM(u)' = VM(u)
  BY <1>1, NoVMs
<1>3. \A x \in Workers : x # w => /\ vms'[x] = vms[x]
                                  /\ stage'[x] = stage[x]
                                  /\ Starting(x)' <=> Starting(x)
                                  /\ Newest(x)' = Newest(x)
  BY <1>1, NoVMs
<1>4. TypeInv'
  <2>1. \A u \in VMIds : Exists(u)' => Proper(VM(u)')
    BY <1>1, <1>2, ProperVMs
  <2>2. vms' \in [Workers -> Seq(Record)]
    BY <1>1, NoVMs
  <2>3. ASSUME NEW x \in Workers
        PROVE  Len(vms'[x]) <= MaxVMs
    <3>1. CASE x = w
      BY Bounds, <1>1, <3>1, NoVMs
    <3>2. CASE x # w
      BY <1>1, <1>3, <3>2, ProperVMs
    <3>3. QED
      BY <3>1, <3>2
  <2>4. TypeOK'
    BY <2>1, <2>2, <2>3 DEF TypeOK, StagesTyped, Proper
  <2>5. QED
    BY <2>1, <2>4 DEF TypeInv, PortsChosen, Proper
<1>5. LeftInv'
  <2>1. ASSUME NEW u \in VMIds, Exists(u)'
        PROVE  \/ VM(u)'.listed
               \/ Gone(VM(u)')
               \/ Starting(u[1])' /\ u = Newest(u[1])'
    <3>1. u[1] # w /\ u[1] \in Workers /\ Exists(u) /\ VM(u)' = VM(u)
      BY <1>2, <2>1
    <3>2. \/ VM(u).listed
          \/ Gone(VM(u))
          \/ Starting(u[1]) /\ u = Newest(u[1])
      BY <1>1, <3>1 DEF LeftInv, Tracked, Gone
    <3>3. QED
      BY <1>3, <3>1, <3>2
  <2>2. ~Starting(w)' /\ DOMAIN vms'[w] = {}
    BY <1>1, NoVMs
  <2>3. ASSUME NEW x \in Workers
        PROVE  /\ stage'[x] \in {"teardown", "idle"} => ~Starting(x)'
               /\ stage'[x] = "idle" =>
                    \A i \in DOMAIN vms'[x] : ~vms'[x][i].listed
    <3>1. CASE x = w
      BY <2>2, <3>1
    <3>2. CASE x # w
      <4>1. /\ vms'[x] = vms[x] /\ stage'[x] = stage[x]
            /\ Starting(x)' <=> Starting(x)
        BY <1>3, <3>2
      <4>2. /\ stage[x] \in {"teardown", "idle"} => ~Starting(x)
            /\ stage[x] = "idle" => \A i \in DOMAIN vms[x] : ~vms[x][i].listed
        BY <1>1, Zenon DEF LeftInv, Ended
      <4>3. QED
        BY <4>1, <4>2
    <3>3. QED
      BY <3>1, <3>2
  <2>4. Tracked' /\ Ended'
    BY <2>1, <2>3 DEF Tracked, Ended, Gone
  <2>5. QED
    BY <2>4 DEF LeftInv
<1>6. Current'
  <2> SUFFICES ASSUME NEW u \in VMIds, Exists(u)', VM(u)'.at \in UnderWay
               PROVE  /\ u = Newest(u[1])'
                      /\ VM(u)'.kind = "qemu" => VM(u)'.listed
    BY DEF Current
  <2>1. u[1] # w /\ u[1] \in Workers /\ Exists(u) /\ VM(u)' = VM(u)
    BY <1>2
  <2>2. u = Newest(u[1]) /\ (VM(u).kind = "qemu" => VM(u).listed)
    BY <1>1, <2>1 DEF Current
  <2>3. QED
    BY <1>3, <2>1, <2>2
<1>7. PortInv => PortInv'
  BY <1>2 DEF PortInv, Claims, Present, Present
<1>8. QED
  BY <1>4, <1>5, <1>6, <1>7 DEF StartInv

\* The phases that leave the VMs as they are, or only save their outputs and
\* end the start that is under way.
LEMMA PhaseStep ==
  ASSUME StartInv, StagesTyped', NEW w \in Workers,
         BeginCall(w) \/ EndTest(w) \/ Interrupt(w) \/ EndTeardown(w)
  PROVE  StartInv' /\ (PortInv => PortInv')
<1>1. TypeInv /\ LeftInv /\ Current
  BY DEF StartInv
<1>2. stage \in [Workers -> {"idle", "setup", "call", "teardown"}]
  BY <1>1, ProperVMs DEF StagesTyped
<1>3. SameVMs
  BY <1>1, UnchangedVMs, EndVMs, Zenon DEF BeginCall, EndTeardown
<1>4. ASSUME NEW x \in Workers, x # w
      PROVE  /\ Starting(x) => Starting(x)' \/ Interrupts
             /\ stage'[x] \in {"teardown", "idle"} => ~Starting(x)'
             /\ stage'[x] = "idle" => \A i \in DOMAIN vms[x] : ~vms[x][i].listed
  <2>1. stage'[x] = stage[x] /\ vms'[x] = vms[x]
    <3>1. vms \in [Workers -> Seq(Record)]
      BY <1>1, Zenon DEF TypeInv, TypeOK
    <3>2. QED
      BY <1>2, <1>4, <3>1 DEF BeginCall, EndTest, Interrupt, EndTeardown
  <2>2. Starting(x)' <=> Starting(x)
    <3>1. Newest(x)' = Newest(x) /\ Newest(x)[1] = x
      BY <2>1 DEF Newest
    <3>2. VM(Newest(x))' = VM(Newest(x))
      BY <2>1, <3>1 DEF VM
    <3>3. QED
      BY <2>1, <3>1, <3>2 DEF Starting
  <2>3. QED
    BY <1>1, <2>1, <2>2, Zenon DEF LeftInv, Ended
<1>5. CASE BeginCall(w) \/ EndTeardown(w)
  <2>1. Starting(w)' <=> Starting(w)
    BY <1>5 DEF BeginCall, EndTeardown, Starting, Newest, VM
  <2>2. stage'[w] \in {"teardown", "idle"} => ~Starting(w)
    <3>1. CASE BeginCall(w)
      BY <1>2, <3>1 DEF BeginCall
    <3>2. CASE EndTeardown(w)
      BY <1>1, <3>2 DEF EndTeardown, LeftInv, Ended
    <3>3. QED
      BY <1>5, <3>1, <3>2
  <2>3. stage'[w] = "idle" => \A i \in DOMAIN vms[w] : ~vms[w][i].listed
    <3>1. CASE BeginCall(w)
      BY <1>2, <3>1 DEF BeginCall
    <3>2. CASE EndTeardown(w)
      BY <3>2, Zenon DEF EndTeardown
    <3>3. QED
      BY <1>5, <3>1, <3>2
  <2>4. LeftInv'
    <3>1. \A x \in Workers :
            /\ Starting(x) => Starting(x)' \/ Interrupts
            /\ stage'[x] \in {"teardown", "idle"} => ~Starting(x)'
            /\ stage'[x] = "idle" => \A i \in DOMAIN vms[x] : ~vms[x][i].listed
      BY <1>4, <2>1, <2>2, <2>3, Zenon
    <3>2. QED
      BY <1>1, <1>3, <3>1, SameLeft
  <2>5. QED
    BY <1>1, <1>3, <2>4, SameType, SameCurrent, SamePorts DEF StartInv
<1>6. CASE EndTest(w) \/ Interrupt(w)
  <2>1. ~Starting(w)'
    <3>1. SUFFICES ASSUME Starting(w)'
                   PROVE  FALSE
      OBVIOUS
    <3>2. TypeInv'
      BY <1>1, <1>3, SameType
    <3>3. Newest(w)' \in VMIds /\ Exists(Newest(w))' /\ Newest(w)'[1] = w
          /\ VM(Newest(w))'.at \in UnderWay
      <4>1. vms'[w] # <<>> /\ VM(Newest(w))'.at \in UnderWay
        BY <3>1 DEF Starting
      <4>2. TypeOK'
        BY <3>2 DEF TypeInv
      <4>3. Newest(w)' = Newest(w)
        BY <1>3 DEF SameVMs, Newest
      <4>4. Len(vms'[w]) = Len(vms[w]) /\ vms[w] # <<>>
        <5>1. Len(vms'[w]) # 0 /\ Len(vms'[w]) = Len(vms[w])
          BY <1>3, <4>1, EmptySeq DEF SameVMs
        <5>2. QED
          BY <5>1
      <4>5. Newest(w) \in VMIds /\ Exists(Newest(w)) /\ Newest(w)[1] = w
        BY <1>1, <4>4, VMTypes DEF TypeInv
      <4>6. Exists(Newest(w))'
        <5>1. \A u \in VMIds : Exists(u)' <=> Exists(u)
          BY <1>3 DEF SameVMs
        <5>2. QED
          BY <4>3, <4>5, <5>1
      <4>7. QED
        BY <4>1, <4>3, <4>5, <4>6
    <3>4. QED
      BY <1>1, <1>3, <1>6, <3>3, EndVMs DEF SameVMs, Newest
  <2>2. Starting(w) => Interrupts
    BY <1>6, Zenon DEF EndTest, Interrupt
  <2>3. stage'[w] = "teardown"
    BY <1>2, <1>6 DEF EndTest, Interrupt
  <2>4. LeftInv'
    <3>1. \A x \in Workers :
            /\ Starting(x) => Starting(x)' \/ Interrupts
            /\ stage'[x] \in {"teardown", "idle"} => ~Starting(x)'
            /\ stage'[x] = "idle" => \A i \in DOMAIN vms[x] : ~vms[x][i].listed
      BY <1>4, <2>1, <2>2, <2>3
    <3>2. QED
      BY <1>1, <1>3, <3>1, SameLeft
  <2>5. QED
    BY <1>1, <1>3, <2>4, SameType, SameCurrent, SamePorts DEF StartInv
<1>7. QED
  BY <1>5, <1>6

LEMMA PrepareStep ==
  ASSUME StartInv, StagesTyped', NEW w \in Workers, NEW k \in {"handle", "qemu"},
         Prepare(w, k) \/ PrepareFails(w, k)
  PROVE  StartInv' /\ (PortInv => PortInv')
<1>1. TypeInv /\ LeftInv /\ Current
  BY DEF StartInv
<1>2. /\ Len(vms[w]) < MaxVMs /\ UNCHANGED stage /\ ~Starting(w)
      /\ stage[w] \in Phases
  BY DEF Prepare, PrepareFails, Call
<1>3. PICK r \in {[NewVM(k) EXCEPT !.listed = (k = "qemu")],
                  [NewVM(k) EXCEPT !.at = "broken"]} :
        vms' = [vms EXCEPT ![w] = Append(@, r)]
  BY DEF Prepare, PrepareFails
<1>4. r \in Record
  BY <1>3, NewVMs
<1>5. /\ r.at \in {"prepared", "broken"} /\ r.qemu = "none" /\ r.conn = NoVM
      /\ r.kind = "qemu" /\ r.at \in UnderWay => r.listed
  BY <1>3 DEF NewVM, UnderWay
<1>6. Proper(r)
  BY <1>5 DEF Proper
<1>7. r.listed \/ Gone(r) \/ r.at \in UnderWay
  BY <1>5 DEF Gone, UnderWay
<1> HIDE <1>3
<1>8. vms' = [vms EXCEPT ![w] = Append(@, r)]
  BY <1>3
<1>9. TypeInv'
  BY <1>1, <1>2, <1>4, <1>6, <1>8, TypeAdd
<1>10. LeftInv'
  BY <1>1, <1>2, <1>4, <1>7, <1>8, LeftAdd
<1>11. Current'
  BY <1>1, <1>2, <1>4, <1>5, <1>8, CurrentAdd
<1>12. PortInv => PortInv'
  BY <1>1, <1>2, <1>4, <1>5, <1>8, PortAdd
<1>13. QED
  BY <1>9, <1>10, <1>11, <1>12 DEF StartInv
LEMMA CloseStep ==
  ASSUME StartInv, StagesTyped', NEW w \in Workers, CloseVM(w)
  PROVE  StartInv' /\ (PortInv => PortInv')
<1>1. TypeInv /\ LeftInv /\ Current /\ TypeOK
  BY DEF StartInv, TypeInv
<1>i. PICK i \in DOMAIN vms[w] :
        /\ vms[w][i].listed
        /\ \E q \in Stopped(vms[w][i]) :
             Set(<<w, i>>, StopAndCleanup(vms[w][i], q))
  BY Zenon DEF CloseVM
<1>2. PICK q \in Stopped(vms[w][i]) :
        /\ vms[w][i].listed
        /\ Set(<<w, i>>, StopAndCleanup(vms[w][i], q))
  BY <1>i, Zenon
<1> DEFINE v == <<w, i>>
           r == StopAndCleanup(VM(v), q)
<1>3. v \in VMIds /\ Exists(v) /\ v[1] = w /\ VM(v) = vms[w][i]
  <2>1. i \in 1..MaxVMs
    BY Bounds, <1>1, VMTypes
  <2>2. v \in VMIds /\ v[1] = w /\ v[2] = i
    BY <1>1, <2>1, VMTypes
  <2>3. QED
    BY <2>2 DEF Exists, VM
<1>4. Set(v, r)
  BY <1>2, <1>3
<1>5. stage[w] = "teardown" /\ UNCHANGED stage
  BY DEF CloseVM
<1>l. VM(v).listed /\ q \in Stopped(VM(v))
  BY <1>2, <1>3
<1> HIDE DEF v
<1>6. VM(v) \in Record /\ Proper(VM(v))
  BY <1>1, <1>3, KnownVM
<1>7. VM(v).at \notin UnderWay
  BY <1>1, <1>3, <1>5, EndedVM
<1>8. /\ r \in Record /\ q \in {"none", "dead", "killed"}
      /\ q # "none" => VM(v).qemu # "none"
      /\ VM(v).qemu = "none" => q = "none"
      /\ q = "killed" => KillFails \/ VM(v).qemu = "killed"
      /\ q \in Present => VM(v).qemu \in Present
  BY <1>6, <1>l, StoppedVMs
<1>9. /\ r.at = VM(v).at /\ r.qemu = q /\ r.conn = NoVM /\ r.dir = FALSE
      /\ r.listed = FALSE /\ r.port = VM(v).port
  BY <1>6 DEF StopAndCleanup, Record
<1> HIDE DEF r
<1>a. TypeInv'
  <2>1. Proper(r)
    BY <1>6, <1>7, <1>8, <1>9 DEF Proper, UnderWay
  <2>2. QED
    BY <1>1, <1>3, <1>4, <1>8, <2>1, TypeSet
<1>b. LeftInv'
  <2>1. Gone(r) /\ r.at \notin UnderWay /\ ~r.listed
    BY <1>7, <1>8, <1>9 DEF Gone
  <2>2. QED
    BY <1>1, <1>3, <1>4, <1>5, <1>8, <2>1, LeftSet
<1>c. Current'
  BY <1>1, <1>3, <1>4, <1>7, <1>8, <1>9, CurrentSet
<1>d. PortInv => PortInv'
  <2>1. r.qemu \in Present => Claims(v)
    BY <1>3, <1>8, <1>9 DEF Claims
  <2>2. r.at \notin {"chosen", "connecting"}
    BY <1>7, <1>9 DEF UnderWay
  <2>3. QED
    BY <1>1, <1>3, <1>4, <1>8, <1>9, <2>1, <2>2, PortKeep
<1>e. QED
  BY <1>a, <1>b, <1>c, <1>d DEF StartInv
\* A step of the start of a VM, other than the choice of its port.
LEMMA StartStep ==
  ASSUME StartInv, StagesTyped', NEW w \in Workers,
         Spawn(w) \/ SpawnFails(w) \/ Connect(w) \/ BootFails(w)
  PROVE  StartInv' /\ (PortInv => PortInv')
<1>1. TypeInv /\ LeftInv /\ Current
  BY DEF StartInv
<1>2. Starting(w) /\ UNCHANGED stage
  BY DEF Spawn, SpawnFails, Connect, BootFails
<1> DEFINE v == Newest(w)
           x == VM(v)
<1>3. /\ v \in VMIds /\ Exists(v) /\ v[1] = w
      /\ x \in Record /\ Proper(x) /\ x.at \in UnderWay
  BY <1>1, <1>2, StartingVM
<1>4. x.kind = "qemu" => x.listed
  BY <1>1, <1>3 DEF Current
<1>5. ASSUME NEW r \in Record, Set(v, r), Proper(r),
             r.listed \/ Gone(r) \/ r.at \in UnderWay,
             r.at \in UnderWay => r.kind = x.kind /\ r.listed = x.listed
      PROVE  StartInv'
  <2> HIDE DEF v, x
  <2>1. TypeInv'
    BY <1>1, <1>3, <1>5, TypeSet
  <2>2. LeftInv'
    BY <1>1, <1>2, <1>5, LeftStart DEF v
  <2>3. Current'
    BY <1>1, <1>3, <1>5, CurrentSet DEF x
  <2>4. QED
    BY <2>1, <2>2, <2>3 DEF StartInv
<1>6. ASSUME NEW r \in Record, Set(v, r), r.port = x.port,
             r.at = "chosen" \/ r.qemu \in Present => Claims(v),
             PortInv /\ r.conn # NoVM => r.conn = v /\ r.qemu = "listening",
             PortInv /\ r.at = "connecting" => r.qemu \in {"starting", "listening"}
      PROVE  PortInv => PortInv'
  <2> HIDE DEF v
  <2>1. QED
    BY <1>1, <1>3, <1>6, PortKeep DEF x
<1> USE <1>3
<1>7. CASE Spawn(w)
  <2>1. x.at = "chosen" /\ x.port # NoPort /\ x.conn = NoVM
    BY <1>7 DEF Spawn, Proper
  <2>2. PICK r \in {[x EXCEPT !.qemu = "starting", !.at = "connecting"],
                    [x EXCEPT !.qemu = "starting", !.at = "ready", !.stashed = TRUE]} :
          /\ Set(v, r)
          /\ r.at = "ready" => x.kind = "qemu"
    <3> HIDE DEF v
    <3>1. CASE x.kind = "handle"
      <4> DEFINE r == [x EXCEPT !.qemu = "starting", !.at = "connecting"]
      <4>1. Set(v, r)
        BY <1>7, <3>1 DEF Spawn, v
      <4>2. r.at = "connecting"
        BY DEF Record
      <4>3. QED
        BY <4>1, <4>2
    <3>2. CASE x.kind # "handle"
      <4> DEFINE r == [x EXCEPT !.qemu = "starting", !.at = "ready", !.stashed = TRUE]
      <4>1. Set(v, r)
        BY <1>7, <3>2 DEF Spawn, v
      <4>2. x.kind = "qemu"
        BY <3>2 DEF Record
      <4>3. QED
        BY <4>1, <4>2
    <3>3. QED
      BY <3>1, <3>2
  <2> HIDE DEF x, v
  <2>3. r \in Record
    BY <2>2, SpawnedVMs
  <2>4. /\ r.qemu = "starting" /\ r.at \in {"connecting", "ready"}
        /\ r.port = x.port /\ r.conn = x.conn /\ r.kind = x.kind
        /\ r.listed = x.listed
    BY <2>2 DEF Record
  <2>5. Proper(r)
    BY <2>1, <2>4 DEF Proper
  <2>6. r.listed \/ r.at \in UnderWay
    BY <1>4, <2>2, <2>4 DEF UnderWay
  <2>7. StartInv'
    BY <1>5, <2>2, <2>3, <2>4, <2>5, <2>6
  <2>8. Claims(v)
    BY <2>1 DEF Claims, x
  <2>9. PortInv => PortInv'
    BY <1>6, <2>1, <2>2, <2>3, <2>4, <2>8
  <2>10. QED
    BY <2>7, <2>9
<1>8. CASE SpawnFails(w)
  <2> DEFINE r == [x EXCEPT !.at = "broken"]
  <2>1. x.at = "chosen" /\ x.port # NoPort /\ x.conn = NoVM /\ x.qemu = "none"
    BY <1>8 DEF SpawnFails, Proper
  <2>2. Set(v, r)
    BY <1>8 DEF SpawnFails
  <2> HIDE DEF x, v
  <2>3. r \in Record
    BY SpawnedVMs
  <2>4. /\ r.qemu = x.qemu /\ r.at = "broken"
        /\ r.port = x.port /\ r.conn = x.conn
    BY DEF Record
  <2> HIDE DEF r
  <2>5. Proper(r) /\ Gone(r) /\ r.at \notin UnderWay
    BY <2>1, <2>4 DEF Proper, Gone, UnderWay
  <2>6. StartInv'
    BY <1>5, <2>2, <2>3, <2>5
  <2>7. PortInv => PortInv'
    BY <1>6, <2>1, <2>2, <2>3, <2>4 DEF Present
  <2>8. QED
    BY <2>6, <2>7
<1>9. CASE Connect(w)
  <2>1. PICK u \in VMIds : Listening(u, x.port) /\ Set(v, Connected(x, u))
    BY <1>9 DEF Connect
  <2>2. x.at = "connecting" /\ x.port # NoPort
    BY <1>9 DEF Connect, Proper
  <2> DEFINE r == Connected(x, u)
  <2>3. PortInv => u = v /\ x.qemu = "listening" /\ Claims(v)
    <3> SUFFICES ASSUME PortInv
                 PROVE  u = v /\ x.qemu = "listening" /\ Claims(v)
      OBVIOUS
    <3>1. Claims(v)
      BY <2>2 DEF PortInv, Claims, Present, Present
    <3>2. u = v
      BY <2>1, <3>1, Answers
    <3>3. QED
      BY <2>1, <3>1, <3>2 DEF Listening
  <2>4. Set(v, r)
    BY <2>1
  <2> HIDE DEF x, v
  <2>5. r \in Record
    BY ConnectedVMs
  <2>6. /\ r.qemu = x.qemu /\ r.at = "ready" /\ r.listed
        /\ r.port = x.port /\ r.conn = u
    BY DEF Record, Connected
  <2> HIDE DEF r
  <2>7. Proper(r) /\ r.at \notin UnderWay
    BY <2>2, <2>6 DEF Proper, UnderWay
  <2>8. StartInv'
    BY <1>5, <2>4, <2>5, <2>6, <2>7
  <2>9. PortInv => PortInv'
    BY <1>6, <2>3, <2>4, <2>5, <2>6
  <2>10. QED
    BY <2>8, <2>9
<1>10. CASE BootFails(w)
  <2>q. PICK q \in Stopped(x) :
          Set(v, [StopAndCleanup(x, q) EXCEPT !.at = "failed"])
    BY <1>10 DEF BootFails
  <2> DEFINE r == [StopAndCleanup(x, q) EXCEPT !.at = "failed"]
  <2>1. x.port # NoPort
    BY <1>10 DEF BootFails, Proper
  <2>2. Set(v, r)
    BY <2>q
  <2> HIDE DEF x, v
  <2>3. /\ r \in Record /\ q \in {"none", "dead", "killed"}
        /\ q = "killed" => KillFails \/ x.qemu = "killed"
        /\ q \in Present => x.qemu \in Present
    BY StoppedVMs
  <2>4. /\ r.qemu = q /\ r.at = "failed" /\ r.dir = FALSE
        /\ r.port = x.port /\ r.conn = NoVM
    BY DEF Record, StopAndCleanup
  <2> HIDE DEF r
  <2>5. Proper(r) /\ Gone(r) /\ r.at \notin UnderWay
    BY <2>1, <2>3, <2>4 DEF Proper, Gone, UnderWay
  <2>6. StartInv'
    BY <1>5, <2>2, <2>3, <2>5
  <2>7. PortInv => PortInv'
    <3>1. r.qemu \in Present => Claims(v)
      BY <2>3, <2>4 DEF Claims, x
    <3>2. QED
      BY <1>6, <2>2, <2>3, <2>4, <3>1
  <2>8. QED
    BY <2>6, <2>7
<1>11. QED
  BY <1>7, <1>8, <1>9, <1>10
\* The kernel hands out no port that a listening QEMU has, and none that is
\* still waited for unless it races.
LEMMA ChoosePortStep ==
  ASSUME StartInv, StagesTyped', NEW w \in Workers, ChoosePort(w)
  PROVE  StartInv' /\ (PortInv /\ ~PortRaces => PortInv')
<1>1. TypeInv /\ LeftInv /\ Current
  BY DEF StartInv
<1>2. Starting(w) /\ UNCHANGED stage /\ VM(Newest(w)).at = "prepared"
  BY Zenon DEF ChoosePort
<1> DEFINE v == Newest(w)
           x == VM(v)
<1>3. /\ v \in VMIds /\ Exists(v) /\ v[1] = w
      /\ x \in Record /\ Proper(x) /\ x.at \in UnderWay
  BY <1>1, <1>2, StartingVM
<1>4. PICK p \in Ports :
        /\ Free(p) /\ (PortRaces \/ ~Pending(p))
        /\ Set(v, [x EXCEPT !.at = "chosen", !.port = p])
  BY Zenon DEF ChoosePort
<1> DEFINE r == [x EXCEPT !.at = "chosen", !.port = p]
<1>5. Set(v, r) /\ x.qemu = "none" /\ x.conn = NoVM
  BY <1>2, <1>3, <1>4 DEF Proper
<1>v. Newest(w) = v
  OBVIOUS
<1> HIDE DEF x, v
<1>6. r \in Record
  BY <1>3, ChosenVM
<1>7. /\ r.at = "chosen" /\ r.port = p /\ r.qemu = "none" /\ r.conn = NoVM
      /\ r.kind = x.kind /\ r.listed = x.listed
  BY <1>3, <1>5 DEF Record
<1> HIDE DEF r
<1>8. TypeInv'
  <2>1. Proper(r)
    BY <1>7, Bounds DEF Proper
  <2>2. QED
    BY <1>1, <1>3, <1>5, <1>6, <2>1, TypeSet
<1>9. LeftInv'
  BY <1>1, <1>2, <1>5, <1>6, <1>7, <1>v, LeftStart DEF UnderWay
<1>10. Current'
  BY <1>1, <1>3, <1>5, <1>6, <1>7, CurrentSet DEF x
<1>11. ASSUME PortInv, ~PortRaces
       PROVE  PortInv'
  <2>1. ~Pending(p)
    BY <1>4, <1>11, Zenon
  <2>2. \A u \in VMIds : Claims(u) => VM(u).port # r.port
    <3>1. Free(p)
      BY <1>4, Zenon
    <3>2. QED
      BY <1>7, <2>1, <3>1 DEF Claims, Present, Pending, Free, Holding
  <2>3. QED
    BY <1>1, <1>3, <1>5, <1>6, <1>7, <1>11, <2>2, PortSet
<1>12. QED
  BY <1>8, <1>9, <1>10, <1>11, Zenon DEF StartInv

\* A VM that keeps its phase: its connection or its QEMU changes.
LEMMA KeepStep ==
  ASSUME StartInv, StagesTyped', UNCHANGED stage, NEW v \in VMIds, Exists(v),
         NEW r \in Record, Set(v, r), r.at = VM(v).at, r.port = VM(v).port,
         r.listed = VM(v).listed, r.kind = VM(v).kind, r.dir = VM(v).dir,
         VM(v).at \notin {"prepared", "chosen"}, VM(v).port # NoPort,
         \/ r.qemu = VM(v).qemu
         \/ VM(v).qemu \in Present /\ r.qemu = "dead"
         \/ VM(v).qemu = "starting" /\ r.qemu = "listening"
  PROVE  StartInv'
<1>1. TypeInv /\ LeftInv /\ Current
  BY DEF StartInv
<1>2. Proper(r)
  BY <1>1, KnownVM DEF Proper
<1>3. Gone(VM(v)) => Gone(r)
  BY DEF Gone, Present
<1>4. TypeInv'
  BY <1>1, <1>2, TypeSet
<1>5. LeftInv'
  BY <1>1, <1>3, LeftKeep
<1>6. Current'
  BY <1>1, CurrentSet
<1>7. QED
  BY <1>4, <1>5, <1>6 DEF StartInv

LEMMA ReconnectStep ==
  ASSUME StartInv, StagesTyped', NEW w \in Workers, Reconnect(w)
  PROVE  StartInv' /\ (PortInv => PortInv')
<1>1. TypeInv /\ TypeOK
  BY DEF StartInv, TypeInv
<1>2. PICK i \in DOMAIN vms[w], u \in VMIds :
        /\ vms[w][i].conn # NoVM
        /\ Listening(u, vms[w][i].port)
        /\ Set(<<w, i>>, [vms[w][i] EXCEPT !.conn = u])
  BY Zenon DEF Reconnect
<1> DEFINE v == <<w, i>>
           x == VM(v)
           r == [x EXCEPT !.conn = u]
<1>3. v \in VMIds /\ Exists(v) /\ x = vms[w][i]
  <2>1. i \in 1..MaxVMs
    BY Bounds, <1>1, VMTypes
  <2>2. v \in VMIds /\ v[1] = w /\ v[2] = i
    BY <1>1, <2>1, VMTypes
  <2>3. QED
    BY <2>2 DEF Exists, VM
<1>4. x.conn # NoVM /\ Listening(u, x.port) /\ Set(v, r)
  BY <1>2, <1>3
<1> HIDE DEF v
<1>5. x \in Record /\ Proper(x)
  BY <1>1, <1>3, KnownVM
<1> HIDE DEF x
<1>6. r \in Record
  BY <1>5, ConnectedVMs
<1>7. /\ r.at = x.at /\ r.port = x.port /\ r.listed = x.listed
      /\ r.kind = x.kind /\ r.dir = x.dir /\ r.qemu = x.qemu /\ r.conn = u
  BY <1>5 DEF Record
<1> HIDE DEF r
<1>8. x.at \notin {"prepared", "chosen"}
  BY <1>4, <1>5 DEF Proper
<1>9. x.port # NoPort
  <2>1. Exists(u) /\ VM(u).qemu = "listening" /\ VM(u).port = x.port
    BY <1>4 DEF Listening
  <2>2. Proper(VM(u))
    BY <1>1, <2>1, KnownVM
  <2>3. QED
    BY <2>1, <2>2 DEF Proper
<1>10. UNCHANGED stage
  BY DEF Reconnect
<1>11. StartInv'
  BY <1>3, <1>4, <1>6, <1>7, <1>8, <1>9, <1>10, KeepStep DEF x
<1>12. ASSUME PortInv
       PROVE  PortInv'
  <2>1. x.qemu = "listening" /\ Claims(v) /\ (x.at = "connecting" => TRUE)
    BY <1>3, <1>4, <1>12 DEF PortInv, Claims, Present, x
  <2>2. u = v
    BY <1>3, <1>4, <1>12, <2>1, Answers DEF x
  <2>3. QED
    BY <1>1, <1>3, <1>4, <1>6, <1>7, <1>8, <1>12, <2>1, <2>2, PortKeep DEF x
<1>13. QED
  BY <1>11, <1>12

\* With no two claims to one port, QEMU always finds its port free.
LEMMA QemuStep ==
  ASSUME StartInv, StagesTyped', NEW v \in VMIds, Bind(v) \/ QemuExits(v)
  PROVE  StartInv' /\ (PortInv /\ ~QemuDies => PortInv')
<1>1. TypeInv
  BY DEF StartInv
<1> DEFINE x == VM(v)
<1>2. /\ Exists(v) /\ x.qemu \in Present /\ UNCHANGED stage
      /\ Bind(v) => x.qemu = "starting"
  BY DEF Bind, QemuExits, Present
<1>3. PICK q \in {"listening", "dead"} :
        /\ Set(v, [x EXCEPT !.qemu = q])
        /\ q = "listening" => x.qemu = "starting"
        /\ Bind(v) /\ Free(x.port) => q = "listening"
  BY DEF Bind, QemuExits
<1> DEFINE r == [x EXCEPT !.qemu = q]
<1>4. Set(v, r)
  BY <1>3
<1>5. x \in Record /\ Proper(x)
  BY <1>1, <1>2, KnownVM
<1> HIDE DEF x
<1>6. r \in Record
  BY <1>5, StoppedVMs
<1>7. /\ r.at = x.at /\ r.port = x.port /\ r.listed = x.listed
      /\ r.kind = x.kind /\ r.dir = x.dir /\ r.qemu = q /\ r.conn = x.conn
  BY <1>5 DEF Record
<1> HIDE DEF r
<1>8. x.at \notin {"prepared", "chosen"} /\ x.port # NoPort
  BY <1>1, <1>2, <1>5 DEF Proper, TypeInv, TypeOK, Present, x
<1>9. StartInv'
  BY <1>2, <1>3, <1>4, <1>6, <1>7, <1>8, KeepStep DEF x
<1>10. ASSUME PortInv, ~QemuDies
       PROVE  PortInv'
  <2>1. Bind(v)
    BY <1>10, Zenon DEF QemuExits
  <2>2. x.qemu = "starting" /\ Claims(v)
    BY <1>2, <2>1 DEF Claims, x
  <2>3. Free(x.port)
    BY <1>2, <1>10, <2>2 DEF Free, Holding, PortInv, Claims, Present, x
  <2>4. q = "listening"
    BY <1>3, <2>1, <2>3
  <2>5. x.conn = NoVM
    BY <1>2, <1>10, <2>2 DEF PortInv, x
  <2>6. QED
    BY <1>1, <1>2, <1>4, <1>6, <1>7, <1>8, <1>10, <2>2, <2>4, <2>5, PortKeep DEF x
<1>11. QED
  BY <1>9, <1>10, Zenon
-----------------------------------------------------------------------------
LEMMA InitInv == Init => StartInv /\ PortInv
<1> SUFFICES ASSUME Init
             PROVE  StartInv /\ PortInv
  OBVIOUS
<1> USE Bounds
<1>1. ASSUME NEW w \in Workers
      PROVE  vms[w] = <<>> /\ Len(vms[w]) = 0 /\ DOMAIN vms[w] = {}
  <2>1. vms[w] = <<>>
    BY DEF Init
  <2>2. QED
    BY <2>1
<1>2. \A v \in VMIds : ~Exists(v)
  BY <1>1 DEF Exists, VMIds
<1>3. TypeInv
  <2>1. StagesTyped
    BY DEF Init, StagesTyped
  <2>2. vms \in [Workers -> Seq(Record)]
    BY EmptySeq DEF Init
  <2>3. ASSUME NEW w \in Workers
        PROVE  Len(vms[w]) <= MaxVMs
    <3>1. Len(vms[w]) = 0
      BY <1>1
    <3>2. QED
      BY <3>1
  <2>4. QED
    BY <1>2, <2>1, <2>2, <2>3, ProperVMs
<1>4. LeftInv
  BY <1>1, <1>2 DEF LeftInv, Tracked, Ended, Starting
<1>5. Current /\ PortInv
  BY <1>2 DEF Current, PortInv, Claims, Present, Present
<1>6. QED
  BY <1>3, <1>4, <1>5 DEF StartInv

LEMMA StepInv ==
  ASSUME StartInv, [Next]_vars
  PROVE  StartInv' /\ (PortInv /\ ~PortRaces /\ ~QemuDies => PortInv')
<1>1. TypeInv /\ LeftInv /\ Current
  BY DEF StartInv
<1>2. StagesTyped'
  BY <1>1, StagesStep
<1>3. ASSUME NEW w \in Workers, WorkerStep(w)
      PROVE  StartInv' /\ (PortInv /\ ~PortRaces /\ ~QemuDies => PortInv')
  <2>1. CASE BeginTest(w)
    BY <1>2, <2>1, BeginTestStep, Zenon
  <2>2. CASE BeginCall(w) \/ EndTest(w) \/ Interrupt(w) \/ EndTeardown(w)
    BY <1>2, <2>2, PhaseStep, Zenon
  <2>3. CASE CloseVM(w)
    BY <1>2, <2>3, CloseStep, Zenon
  <2>4. ASSUME NEW k \in {"handle", "qemu"}, Prepare(w, k) \/ PrepareFails(w, k)
        PROVE  StartInv' /\ (PortInv => PortInv')
    BY <1>2, <2>4, PrepareStep, Zenon
  <2>5. CASE ChoosePort(w)
    BY <1>2, <2>5, ChoosePortStep, Zenon
  <2>6. CASE Spawn(w) \/ SpawnFails(w) \/ Connect(w) \/ BootFails(w)
    BY <1>2, <2>6, StartStep, Zenon
  <2>7. CASE Reconnect(w)
    BY <1>2, <2>7, ReconnectStep, Zenon
  <2>8. QED
    BY <1>3, <2>1, <2>2, <2>3, <2>4, <2>5, <2>6, <2>7, Zenon DEF WorkerStep
<1>4. ASSUME NEW v \in VMIds, Bind(v) \/ QemuExits(v)
      PROVE  StartInv' /\ (PortInv /\ ~PortRaces /\ ~QemuDies => PortInv')
  BY <1>2, <1>4, QemuStep, Zenon
<1>5. CASE UNCHANGED vars
  <2>1. SameVMs
    BY <1>1, <1>5, UnchangedVMs DEF vars
  <2>2. \A w \in Workers :
          /\ Starting(w) => Starting(w)' \/ Interrupts
          /\ stage'[w] \in {"teardown", "idle"} => ~Starting(w)'
          /\ stage'[w] = "idle" => \A i \in DOMAIN vms[w] : ~vms[w][i].listed
    <3>1. \A w \in Workers : Starting(w)' <=> Starting(w)
      BY <1>5 DEF vars, Starting, Newest, VM
    <3>2. QED
      BY <1>1, <1>5, <3>1, Zenon DEF LeftInv, Ended, vars
  <2>3. QED
    BY <1>1, <1>2, <2>1, <2>2, SameType, SameLeft, SameCurrent, SamePorts, Zenon
       DEF StartInv
<1>6. QED
  BY <1>3, <1>4, <1>5, Zenon DEF Next

-----------------------------------------------------------------------------
\* Every variable keeps its type, and a QEMU has a port from its start on.
THEOREM TypeCorrect == Spec => []TypeOK
<1>1. Init => StartInv
  BY InitInv
<1>2. StartInv /\ [Next]_vars => StartInv'
  BY StepInv
<1>3. StartInv => TypeOK
  BY DEF StartInv, TypeInv
<1>4. QED
  BY <1>1, <1>2, <1>3, PTL DEF Spec

\* What the fixtures of a test leave behind when they are finalized
\* (pytest_plugin.py start_vm, start_qemu; VMHandle.start; QemuVM.stop),
\* whatever ports are handed out and however QEMU, the boot or the test ends: a
\* directory only of a VM that no fixture knew of, a QEMU that runs only of a
\* handle whose start was ended by something that is no Exception.
THEOREM Clean == Spec => []NothingLeft
<1>1. Init => StartInv
  BY InitInv
<1>2. StartInv /\ [Next]_vars => StartInv'
  BY StepInv
<1>3. StartInv => NothingLeft
  <2> SUFFICES ASSUME StartInv, NEW w \in Workers, stage[w] = "idle",
                      NEW i \in DOMAIN vms[w]
               PROVE  Gone(vms[w][i]) /\ (vms[w][i].qemu = "killed" => KillFails)
    BY Zenon DEF NothingLeft, Gone
  <2>1. TypeOK /\ LeftInv /\ TypeInv
    BY DEF StartInv, TypeInv
  <2> DEFINE v == <<w, i>>
  <2>2. v \in VMIds /\ Exists(v) /\ v[1] = w /\ VM(v) = vms[w][i]
    <3>1. i \in 1..MaxVMs
      BY Bounds, <2>1, VMTypes
    <3>2. v \in VMIds /\ v[1] = w /\ v[2] = i
      BY <2>1, <3>1, VMTypes
    <3>3. QED
      BY <3>2 DEF Exists, VM
  <2>3. ~Starting(w) /\ ~vms[w][i].listed
    BY <2>1, Zenon DEF LeftInv, Ended
  <2>4. Proper(VM(v))
    BY <2>1, <2>2, KnownVM
  <2> HIDE DEF v
  <2>5. QED
    BY <2>1, <2>2, <2>3, <2>4 DEF LeftInv, Tracked, Proper
<1>4. QED
  BY <1>1, <1>2, <1>3, PTL DEF Spec

\* A connection leads to the VM that its handle started (find_free_port,
\* wait_for_ssh, wait_for_reboot), provided that the kernel hands out no port
\* that another start still waits for and that QEMU runs until it is stopped.
THEOREM Own ==
  ASSUME ~PortRaces, ~QemuDies
  PROVE  Spec => []OwnVM
<1>1. Init => StartInv /\ PortInv
  BY InitInv
<1>2. StartInv /\ PortInv /\ [Next]_vars => StartInv' /\ PortInv'
  BY StepInv, Zenon
<1>3. StartInv /\ PortInv => OwnVM
  BY DEF PortInv, OwnVM
<1>4. QED
  BY <1>1, <1>2, <1>3, PTL DEF Spec

-----------------------------------------------------------------------------
\* What the report of the call phase saved stays saved, no VM is stashed after
\* it, and a VM whose start returned is in the stash.
Reported(w) == stage[w] \in {"teardown", "idle"} /\ ended[w] = "call"

SaveInv ==
  \A v \in VMIds : Exists(v) =>
    /\ VM(v).at = "ready" => VM(v).stashed
    /\ Reported(v[1]) => SavedVM(v)

LEMMA SaveSet ==
  ASSUME TypeInv, SaveInv, UNCHANGED <<tests, stage, ended>>,
         NEW v \in VMIds, Exists(v), NEW r \in Record, Set(v, r),
         r.at = "ready" => r.stashed,
         \/ ~Reported(v[1])
         \/ r.stashed = VM(v).stashed /\ r.saved = VM(v).saved
  PROVE  SaveInv'
<1>1. \A u \in VMIds :
        /\ Exists(u)' <=> Exists(u)
        /\ Exists(u) => VM(u)' = IF u = v THEN r ELSE VM(u)
  BY SetVM DEF TypeInv
<1>2. \A w \in Workers : Reported(w)' <=> Reported(w)
  BY DEF Reported
<1>3. \A u \in VMIds : u[1] \in Workers
  BY DEF VMIds
<1>4. QED
  BY <1>1, <1>2, <1>3 DEF SaveInv, SavedVM

LEMMA SaveStart ==
  ASSUME StartInv, SaveInv, UNCHANGED <<tests, stage, ended>>,
         NEW w \in Workers, Starting(w), NEW r \in Record, Set(Newest(w), r),
         r.at = "ready" => r.stashed
  PROVE  SaveInv'
<1> DEFINE v == Newest(w)
<1>1. v \in VMIds /\ Exists(v) /\ v[1] = w
  BY StartingVM DEF StartInv
<1>2. ~Reported(w)
  BY DEF StartInv, LeftInv, Ended, Reported
<1>3. TypeInv /\ Set(v, r)
  BY DEF StartInv
<1> HIDE DEF v
<1>4. QED
  BY <1>1, <1>2, <1>3, SaveSet

LEMMA SavePhase ==
  ASSUME StartInv, SaveInv, NEW w \in Workers,
         \/ BeginTest(w) \/ BeginCall(w) \/ EndTest(w) \/ Interrupt(w)
         \/ EndTeardown(w)
  PROVE  SaveInv'
<1> USE DEF StartInv
<1>1. /\ stage \in [Workers -> {"idle", "setup", "call", "teardown"}]
      /\ ended \in [Workers -> Phases \cup {"no", "interrupted"}]
  BY Zenon DEF TypeInv, TypeOK
<1>2. \A u \in VMIds : u[1] \in Workers
  BY DEF VMIds
<1>3. CASE BeginTest(w)
  <2>1. /\ stage' = [stage EXCEPT ![w] = "setup"]
        /\ ended' = [ended EXCEPT ![w] = "no"]
    BY <1>3, Zenon DEF BeginTest
  <2>2. \A u \in VMIds :
          Exists(u)' => u[1] # w /\ Exists(u) /\ VM(u)' = VM(u)
    BY <1>3, NoVMs
  <2>3. \A x \in Workers : x # w => (Reported(x)' <=> Reported(x))
    BY <1>1, <2>1 DEF Reported
  <2>4. QED
    BY <1>2, <2>2, <2>3 DEF SaveInv, SavedVM
<1>4. CASE BeginCall(w) \/ EndTeardown(w)
  <2>1. /\ UNCHANGED <<vms, ended>>
        /\ \/ stage' = [stage EXCEPT ![w] = "call"]
           \/ stage[w] = "teardown" /\ stage' = [stage EXCEPT ![w] = "idle"]
    BY <1>4, Zenon DEF BeginCall, EndTeardown
  <2>2. \A x \in Workers : Reported(x)' => Reported(x)
    BY <1>1, <2>1 DEF Reported
  <2>3. \A u \in VMIds : (Exists(u)' <=> Exists(u)) /\ VM(u)' = VM(u)
    BY <2>1 DEF Exists, VM
  <2>4. QED
    BY <1>2, <2>2, <2>3 DEF SaveInv, SavedVM
<1>5. CASE EndTest(w) \/ Interrupt(w)
  <2>1. /\ stage' = [stage EXCEPT ![w] = "teardown"]
        /\ \/ EndTest(w) /\ ended' = [ended EXCEPT ![w] = stage[w]]
           \/ ended' = [ended EXCEPT ![w] = "interrupted"]
    BY <1>5, Zenon DEF EndTest, Interrupt
  <2>2. \A x \in Workers : x # w => (Reported(x)' <=> Reported(x))
    BY <1>1, <2>1 DEF Reported
  <2>3. Reported(w)' => Saves(w)
    BY <1>1, <2>1 DEF Reported, Saves
  <2>4. /\ SameVMs
        /\ \A u \in VMIds : Exists(u) =>
             /\ u[1] # w => VM(u)' = VM(u)
             /\ u[1] = w /\ Saves(w) => SavedVM(u)'
    BY <1>5, EndVMs
  <2>5. ASSUME NEW u \in VMIds, Exists(u)'
        PROVE  VM(u)'.at = "ready" => VM(u)'.stashed
    <3>1. Exists(u)
      BY <2>4, <2>5 DEF SameVMs
    <3>2. VM(u)'.at = "ready" => VM(u).at = "ready"
      BY <2>4, <3>1, SameFields
    <3>3. VM(u)'.stashed = VM(u).stashed
      BY <2>4, <3>1, SameFields
    <3>4. QED
      BY <3>1, <3>2, <3>3 DEF SaveInv
  <2>6. ASSUME NEW u \in VMIds, Exists(u)', Reported(u[1])'
        PROVE  SavedVM(u)'
    <3>1. Exists(u) /\ u[1] \in Workers
      BY <1>2, <2>4, <2>6 DEF SameVMs
    <3>2. CASE u[1] = w
      BY <2>3, <2>4, <2>6, <3>1, <3>2
    <3>3. CASE u[1] # w
      <4>1. SavedVM(u) /\ VM(u)' = VM(u)
        BY <2>2, <2>4, <2>6, <3>1, <3>3 DEF SaveInv
      <4>2. QED
        BY <4>1 DEF SavedVM
    <3>4. QED
      BY <3>2, <3>3
  <2>7. QED
    BY <2>5, <2>6 DEF SaveInv
<1>6. QED
  BY <1>3, <1>4, <1>5

LEMMA SaveStep ==
  ASSUME StartInv, SaveInv, [Next]_vars
  PROVE  SaveInv'
<1> USE DEF StartInv
<1>1. ASSUME NEW w \in Workers,
             \/ BeginTest(w) \/ BeginCall(w) \/ EndTest(w) \/ Interrupt(w)
             \/ EndTeardown(w)
      PROVE  SaveInv'
  BY <1>1, SavePhase
<1>2. ASSUME NEW w \in Workers, CloseVM(w)
      PROVE  SaveInv'
  <2>i. PICK i \in DOMAIN vms[w] : \E q \in Stopped(vms[w][i]) :
          Set(<<w, i>>, StopAndCleanup(vms[w][i], q))
    BY <1>2, Zenon DEF CloseVM
  <2>1. PICK q \in Stopped(vms[w][i]) :
          Set(<<w, i>>, StopAndCleanup(vms[w][i], q))
    BY <2>i, Zenon
  <2> DEFINE v == <<w, i>>
             r == StopAndCleanup(VM(v), q)
  <2>2. v \in VMIds /\ Exists(v) /\ VM(v) = vms[w][i]
    BY Bounds, VMTypes DEF TypeInv, Exists, VM
  <2>3. VM(v) \in Record
    BY <2>2, KnownVM
  <2>4. q \in Stopped(VM(v)) /\ UNCHANGED <<tests, stage, ended>> /\ Set(v, r)
    BY <1>2, <2>1, <2>2 DEF CloseVM
  <2> HIDE DEF v
  <2>5. /\ r \in Record /\ r.at = VM(v).at
        /\ r.stashed = VM(v).stashed /\ r.saved = VM(v).saved
    <3>1. r \in Record
      BY <2>3, <2>4, StoppedVMs
    <3>2. QED
      BY <2>3, <3>1 DEF StopAndCleanup, Record
  <2> HIDE DEF r
  <2>6. r.at = "ready" => r.stashed
    BY <2>2, <2>5 DEF SaveInv
  <2>7. QED
    BY <2>2, <2>4, <2>5, <2>6, SaveSet
<1>3. ASSUME NEW w \in Workers, NEW k \in {"handle", "qemu"},
             Prepare(w, k) \/ PrepareFails(w, k)
      PROVE  SaveInv'
  <2>1. /\ stage[w] \in Phases /\ Len(vms[w]) < MaxVMs
        /\ UNCHANGED <<tests, stage, ended>>
    BY <1>3 DEF Prepare, PrepareFails, Call
  <2>p. PICK r \in {[NewVM(k) EXCEPT !.listed = (k = "qemu")],
                    [NewVM(k) EXCEPT !.at = "broken"]} :
          vms' = [vms EXCEPT ![w] = Append(@, r)]
    BY <1>3 DEF Prepare, PrepareFails
  <2>r. r \in Record /\ r.at # "ready"
    BY <2>p, NewVMs DEF NewVM
  <2>2. vms' = [vms EXCEPT ![w] = Append(@, r)]
    BY <2>p
  <2> HIDE <2>p
  <2> DEFINE v == <<w, Len(vms[w]) + 1>>
  <2>3. \A u \in VMIds :
          /\ Exists(u)' <=> Exists(u) \/ u = v
          /\ Exists(u)' => VM(u)' = IF u = v THEN r ELSE VM(u)
    BY <2>1, <2>2, <2>r, AddVM DEF TypeInv
  <2>4. v[1] = w /\ ~Reported(w)
    BY <2>1 DEF Reported, Phases
  <2> HIDE DEF v
  <2>5. \A x \in Workers : Reported(x)' <=> Reported(x)
    BY <2>1 DEF Reported
  <2>6. \A u \in VMIds : u[1] \in Workers
    BY DEF VMIds
  <2>7. QED
    BY <2>r, <2>3, <2>4, <2>5, <2>6 DEF SaveInv, SavedVM
<1>4. ASSUME NEW w \in Workers,
             \/ ChoosePort(w) \/ Spawn(w) \/ SpawnFails(w)
             \/ Connect(w) \/ BootFails(w)
      PROVE  SaveInv'
  <2>1. Starting(w) /\ UNCHANGED <<tests, stage, ended>>
    BY <1>4, Zenon DEF ChoosePort, Spawn, SpawnFails, Connect, BootFails
  <2> DEFINE x == VM(Newest(w))
  <2>2. x \in Record
    BY <2>1, StartingVM
  <2>3. \E r \in Record : Set(Newest(w), r) /\ (r.at = "ready" => r.stashed)
    <3>1. CASE ChoosePort(w)
      <4>1. PICK p \in Ports : Set(Newest(w), [x EXCEPT !.at = "chosen", !.port = p])
        BY <3>1, Zenon DEF ChoosePort
      <4> HIDE DEF x
      <4> DEFINE r == [x EXCEPT !.at = "chosen", !.port = p]
      <4>2. r \in Record /\ r.at = "chosen"
        BY <2>2, ChosenVM DEF Record
      <4>3. QED
        BY <4>1, <4>2
    <3>2. CASE Spawn(w)
      <4>1. PICK r \in {[x EXCEPT !.qemu = "starting", !.at = "connecting"],
                        [x EXCEPT !.qemu = "starting", !.at = "ready",
                                  !.stashed = TRUE]} :
              Set(Newest(w), r)
        BY <3>2 DEF Spawn
      <4> HIDE DEF x
      <4>2. r \in Record
        BY <2>2, <4>1, SpawnedVMs
      <4>3. r.at = "ready" => r.stashed
        <5>1. CASE r = [x EXCEPT !.qemu = "starting", !.at = "connecting"]
          BY <2>2, <5>1 DEF Record
        <5>2. CASE r = [x EXCEPT !.qemu = "starting", !.at = "ready",
                                 !.stashed = TRUE]
          BY <2>2, <5>2 DEF Record
        <5>3. QED
          BY <4>1, <5>1, <5>2
      <4>4. QED
        BY <4>1, <4>2, <4>3
    <3>3. CASE SpawnFails(w)
      <4>1. Set(Newest(w), [x EXCEPT !.at = "broken"])
        BY <3>3 DEF SpawnFails
      <4> HIDE DEF x
      <4>2. [x EXCEPT !.at = "broken"] \in Record /\ [x EXCEPT !.at = "broken"].at = "broken"
        BY <2>2, SpawnedVMs DEF Record
      <4>3. QED
        BY <4>1, <4>2
    <3>4. CASE Connect(w)
      <4>1. PICK u \in VMIds : Set(Newest(w), Connected(x, u))
        BY <3>4 DEF Connect
      <4> HIDE DEF x
      <4>2. Connected(x, u) \in Record /\ Connected(x, u).stashed
        BY <2>2, ConnectedVMs DEF Connected, Record
      <4>3. QED
        BY <4>1, <4>2
    <3>5. CASE BootFails(w)
      <4>1. PICK q \in Stopped(x) :
              Set(Newest(w), [StopAndCleanup(x, q) EXCEPT !.at = "failed"])
        BY <3>5 DEF BootFails
      <4> HIDE DEF x
      <4> DEFINE r == [StopAndCleanup(x, q) EXCEPT !.at = "failed"]
      <4>2. r \in Record
        BY <2>2, StoppedVMs
      <4>3. r.at = "failed"
        BY <2>2 DEF StopAndCleanup, Record
      <4>4. QED
        BY <4>1, <4>2, <4>3
    <3>6. QED
      BY <1>4, <3>1, <3>2, <3>3, <3>4, <3>5
  <2>4. QED
    BY <2>1, <2>3, SaveStart
<1>5. ASSUME NEW w \in Workers, Reconnect(w)
      PROVE  SaveInv'
  <2>1. PICK i \in DOMAIN vms[w], v \in VMIds :
          Set(<<w, i>>, [vms[w][i] EXCEPT !.conn = v])
    BY <1>5 DEF Reconnect
  <2> DEFINE u == <<w, i>>
  <2>2. u \in VMIds /\ Exists(u) /\ VM(u) = vms[w][i] /\ u[1] = w
    BY Bounds, VMTypes DEF TypeInv, Exists, VM
  <2>3. VM(u) \in Record
    BY <2>2, KnownVM
  <2> DEFINE r == [VM(u) EXCEPT !.conn = v]
  <2>4. /\ UNCHANGED <<tests, stage, ended>> /\ ~Reported(w)
        /\ Set(u, r)
    BY <1>5, <2>1, <2>2 DEF Reconnect, Reported
  <2> HIDE DEF u
  <2>5. r \in Record
    BY <2>3, ConnectedVMs
  <2>6. r.at = VM(u).at /\ r.stashed = VM(u).stashed
    BY <2>3 DEF Record
  <2> HIDE DEF r
  <2>7. r.at = "ready" => r.stashed
    BY <2>2, <2>6 DEF SaveInv
  <2>8. QED
    BY <2>2, <2>4, <2>5, <2>7, SaveSet
<1>6. ASSUME NEW v \in VMIds, Bind(v) \/ QemuExits(v)
      PROVE  SaveInv'
  <2>1. /\ Exists(v) /\ UNCHANGED <<tests, stage, ended>>
        /\ \E q \in {"listening", "dead"} : Set(v, [VM(v) EXCEPT !.qemu = q])
    BY <1>6, Zenon DEF Bind, QemuExits
  <2>2. PICK q \in {"listening", "dead"} : Set(v, [VM(v) EXCEPT !.qemu = q])
    BY <2>1
  <2>3. VM(v) \in Record
    BY <2>1, KnownVM
  <2> DEFINE r == [VM(v) EXCEPT !.qemu = q]
  <2>4. /\ r \in Record /\ r.at = VM(v).at
        /\ r.stashed = VM(v).stashed /\ r.saved = VM(v).saved
    BY <2>3, StoppedVMs DEF Record
  <2>5. Set(v, r)
    BY <2>2
  <2> HIDE DEF r
  <2>6. r.at = "ready" => r.stashed
    BY <2>1, <2>4 DEF SaveInv
  <2>7. QED
    BY <2>1, <2>4, <2>5, <2>6, SaveSet
<1>7. CASE UNCHANGED vars
  BY <1>7 DEF vars, SaveInv, SavedVM, Reported, Exists, VM
<1>8. QED
  BY <1>1, <1>2, <1>3, <1>4, <1>5, <1>6, <1>7, Zenon DEF Next, WorkerStep

\* After a test that was called and not interrupted, the outputs of every VM
\* whose start returned are in the outputs directory (pytest_plugin.py
\* _save_vm_outputs), however its VMs, its call and its teardown ended.
THEOREM Saved == Spec => []ReturnedIsSaved
<1>1. Init => StartInv /\ SaveInv
  <2>1. Init => SaveInv
    <3> SUFFICES ASSUME Init PROVE SaveInv
      OBVIOUS
    <3>1. \A u \in VMIds : ~Exists(u)
      BY DEF Init, Exists, VMIds
    <3>2. QED
      BY <3>1 DEF SaveInv
  <2>2. QED
    BY <2>1, InitInv
<1>2. StartInv /\ [Next]_vars => StartInv'
  BY StepInv
<1>3. StartInv /\ SaveInv /\ [Next]_vars => SaveInv'
  BY SaveStep
<1>4. StartInv /\ SaveInv => ReturnedIsSaved
  <2> SUFFICES ASSUME StartInv, SaveInv, NEW w \in Workers, stage[w] = "idle",
                      ended[w] = "call", NEW i \in DOMAIN vms[w],
                      vms[w][i].at = "ready"
               PROVE  vms[w][i].saved
    BY DEF ReturnedIsSaved
  <2> DEFINE v == <<w, i>>
  <2>1. v \in VMIds /\ Exists(v) /\ v[1] = w /\ VM(v) = vms[w][i]
    BY Bounds, VMTypes DEF StartInv, TypeInv, Exists, VM
  <2>2. SavedVM(v) /\ VM(v).stashed
    BY <2>1 DEF SaveInv, Reported
  <2>3. QED
    BY <2>1, <2>2 DEF SavedVM
<1>5. QED
  BY <1>1, <1>2, <1>3, <1>4, PTL DEF Spec

-----------------------------------------------------------------------------
(***************************************************************************)
(* The life of each VM.                                                    *)
(***************************************************************************)

\* Fixtures only know VMs that have their directories, and so does a start; one
\* that was undone has none.
Kept(r) ==
  /\ r.listed => r.dir
  /\ r.at = "failed" => ~r.dir
  /\ r.at \in UnderWay => r.dir

KeptInv == \A v \in VMIds : Exists(v) => Kept(VM(v))

Alive(r) == r.qemu \in {"starting", "listening"}

LifeStep(v) == UNCHANGED OneVM(v)!lifeVars \/ OneVM(v)!Next

\* What a step may do to the record of a VM.
Moves(x, r) ==
  \/ /\ LifeOf(r) = LifeOf(x) /\ r.dir = x.dir
     /\ Alive(r) => Alive(x)
  \/ /\ LifeOf(x) = "new" /\ LifeOf(r) \in {"starting", "ready"}
     /\ r.dir = x.dir /\ Alive(r)
  \/ /\ LifeOf(x) = "starting" /\ LifeOf(r) = "ready"
     /\ r.dir = x.dir /\ (Alive(r) <=> Alive(x))
  \/ /\ LifeOf(x) \in {"new", "starting"} /\ LifeOf(r) = "abandoned"
     /\ r.dir /\ (Alive(r) <=> Alive(x))
  \/ /\ LifeOf(x) \in {"starting", "ready", "abandoned"} /\ LifeOf(r) = "gone"
     /\ ~r.dir /\ ~Alive(r)

LEMMA MovedVM ==
  ASSUME NEW v \in VMIds, Exists(v), Exists(v)',
         VM(v) \in Record, VM(v)' \in Record, Moves(VM(v), VM(v)')
  PROVE  LifeStep(v)
<1>1. /\ Life(v) = LifeOf(VM(v)) /\ Life(v)' = LifeOf(VM(v)')
      /\ Running(v) <=> Alive(VM(v))
      /\ Running(v)' <=> Alive(VM(v)')
      /\ Held(v) <=> VM(v).dir
      /\ Held(v)' <=> VM(v)'.dir
  BY DEF Life, Running, Held, Alive
<1>2. Running(v) \in BOOLEAN /\ Running(v)' \in BOOLEAN
      /\ Held(v) \in BOOLEAN /\ Held(v)' \in BOOLEAN
  BY <1>1 DEF Running, Held, Record
<1>3. VM(v).dir \in BOOLEAN /\ VM(v)'.dir \in BOOLEAN
  BY DEF Record
<1> HIDE DEF Life, Running, Held
<1> DEFINE l == LifeOf(VM(v))
           k == LifeOf(VM(v)')
<1> HIDE DEF l, k
<1>4. CASE /\ k = l /\ VM(v)'.dir = VM(v).dir
           /\ Alive(VM(v)') => Alive(VM(v))
  <2>1. Life(v)' = Life(v) /\ Held(v)' = Held(v)
    BY <1>1, <1>2, <1>3, <1>4 DEF l, k
  <2>2. CASE Running(v)' = Running(v)
    BY <2>1, <2>2 DEF LifeStep, OneVM!lifeVars
  <2>3. CASE Running(v) /\ Running(v)' = FALSE
    BY <2>1, <2>3 DEF LifeStep, OneVM!Next, OneVM!Die
  <2>4. QED
    BY <1>1, <1>2, <1>4, <2>2, <2>3
<1>5. CASE /\ l = "new" /\ k \in {"starting", "ready"}
           /\ VM(v)'.dir = VM(v).dir /\ Alive(VM(v)')
  <2>1. OneVM(v)!Launch
    BY <1>1, <1>2, <1>3, <1>5 DEF OneVM!Launch, OneVM!Goes, l, k
  <2>2. QED
    BY <2>1 DEF LifeStep, OneVM!Next
<1>6. CASE /\ l = "starting" /\ k = "ready"
           /\ VM(v)'.dir = VM(v).dir /\ (Alive(VM(v)') <=> Alive(VM(v)))
  <2>1. OneVM(v)!Started
    BY <1>1, <1>2, <1>3, <1>6 DEF OneVM!Started, OneVM!Goes, l, k
  <2>2. QED
    BY <2>1 DEF LifeStep, OneVM!Next
<1>7. CASE /\ l \in {"new", "starting"} /\ k = "abandoned"
           /\ VM(v)'.dir /\ (Alive(VM(v)') <=> Alive(VM(v)))
  <2>1. OneVM(v)!Abandon
    BY <1>1, <1>2, <1>3, <1>7 DEF OneVM!Abandon, OneVM!Goes, l, k
  <2>2. QED
    BY <2>1 DEF LifeStep, OneVM!Next
<1>8. CASE /\ l \in {"starting", "ready", "abandoned"} /\ k = "gone"
           /\ ~VM(v)'.dir /\ ~Alive(VM(v)')
  <2>1. OneVM(v)!Undo \/ OneVM(v)!Close
    BY <1>1, <1>2, <1>3, <1>8
    DEF OneVM!Undo, OneVM!Close, OneVM!Release, OneVM!Goes, l, k
  <2>2. QED
    BY <2>1 DEF LifeStep, OneVM!Next
<1>9. QED
  BY <1>4, <1>5, <1>6, <1>7, <1>8 DEF Moves, l, k

\* Nothing happens in the lives of VMs whose records stay, or that are not there.
LEMMA StillVM ==
  ASSUME NEW v \in VMIds, Exists(v)' <=> Exists(v),
         Exists(v) => /\ LifeOf(VM(v)') = LifeOf(VM(v))
                      /\ VM(v)'.qemu = VM(v).qemu
                      /\ VM(v)'.dir = VM(v).dir
  PROVE  LifeStep(v)
<1>1. Life(v)' = Life(v)
  BY DEF Life
<1>2. Running(v)' = Running(v) /\ Held(v)' = Held(v)
  BY DEF Running, Held
<1>3. QED
  BY <1>1, <1>2 DEF LifeStep, OneVM!lifeVars

LEMMA MoveStep ==
  ASSUME TypeInv, KeptInv, NEW v \in VMIds, Exists(v), NEW r \in Record,
         Set(v, r), Kept(r), Moves(VM(v), r)
  PROVE  KeptInv' /\ \A u \in VMIds : LifeStep(u)
<1>1. \A u \in VMIds :
        /\ Exists(u)' <=> Exists(u)
        /\ Exists(u) => VM(u)' = IF u = v THEN r ELSE VM(u)
  BY SetVM DEF TypeInv
<1>2. KeptInv'
  BY <1>1 DEF KeptInv
<1>3. ASSUME NEW u \in VMIds
      PROVE  LifeStep(u)
  <2>1. CASE u = v
    <3>1. VM(v) \in Record /\ VM(v)' = r /\ Exists(v)'
      BY <1>1, KnownVM
    <3>2. LifeStep(v)
      BY <3>1, MovedVM
    <3>3. QED
      BY <2>1, <3>2
  <2>2. CASE u # v
    <3>1. (Exists(u)' <=> Exists(u)) /\ (Exists(u) => VM(u)' = VM(u))
      BY <1>1, <2>2
    <3>2. QED
      BY <3>1, StillVM
  <2>3. QED
    BY <2>1, <2>2
<1>4. QED
  BY <1>2, <1>3

\* The life of a VM by its record, one line for each life.
LEMMA LifeByRecord ==
  ASSUME NEW x \in Record
  PROVE  /\ ~x.dir \/ x.at = "failed" => LifeOf(x) = "gone"
         /\ x.dir /\ x.at \in {"prepared", "chosen"} => LifeOf(x) = "new"
         /\ x.dir /\ x.at = "connecting" => LifeOf(x) = "starting"
         /\ x.dir /\ x.at = "ready" => LifeOf(x) = "ready"
         /\ x.dir /\ x.at = "broken" => LifeOf(x) = "abandoned"
         /\ x.dir \in BOOLEAN
         /\ x.at \in {"prepared", "chosen", "connecting", "ready", "failed", "broken"}
  BY DEF LifeOf, Record

\* The actions that leave the VMs as they are, save their outputs or end the
\* start that is under way.
LEMMA SameLives ==
  ASSUME TypeInv, KeptInv, SameVMs
  PROVE  KeptInv' /\ \A u \in VMIds : LifeStep(u)
<1>1. ASSUME NEW u \in VMIds
      PROVE  Exists(u)' <=> Exists(u)
  BY DEF SameVMs
<1>2. KeptInv'
  BY <1>1, SameFields DEF KeptInv, Kept, UnderWay
<1>3. ASSUME NEW u \in VMIds
      PROVE  LifeStep(u)
  <2>1. CASE ~Exists(u) \/ VM(u)'.at = VM(u).at
    <3>1. ASSUME Exists(u), VM(u)'.at = VM(u).at
          PROVE  /\ LifeOf(VM(u)') = LifeOf(VM(u))
                 /\ VM(u)'.qemu = VM(u).qemu /\ VM(u)'.dir = VM(u).dir
      BY <3>1, SameFields DEF LifeOf
    <3>2. QED
      BY <1>1, <2>1, <3>1, StillVM
  <2>2. CASE Exists(u) /\ VM(u).at \in UnderWay /\ VM(u)'.at = "broken"
    <3>1. /\ VM(u) \in Record /\ VM(u)' \in Record /\ VM(u).dir
          /\ VM(u)'.dir = VM(u).dir /\ VM(u)'.qemu = VM(u).qemu
      BY <2>2, KnownVM, SameFields DEF KeptInv, Kept
    <3>2. LifeOf(VM(u)) \in {"new", "starting"}
      BY <2>2, <3>1, LifeByRecord DEF UnderWay
    <3>3. LifeOf(VM(u)') = "abandoned"
      BY <2>2, <3>1, LifeByRecord
    <3>4. Moves(VM(u), VM(u)')
      BY <3>1, <3>2, <3>3 DEF Moves, Alive
    <3>5. QED
      BY <1>1, <2>2, <3>1, <3>4, MovedVM
  <2>3. QED
    BY <2>1, <2>2, SameFields
<1>4. QED
  BY <1>2, <1>3

LEMMA PhaseLives ==
  ASSUME TypeInv, KeptInv,
         \/ UNCHANGED vars
         \/ \E w \in Workers :
              BeginCall(w) \/ EndTest(w) \/ Interrupt(w) \/ EndTeardown(w)
  PROVE  KeptInv' /\ \A u \in VMIds : LifeStep(u)
<1>1. CASE vms' = vms
  BY <1>1, UnchangedVMs, SameLives
<1>2. ASSUME NEW w \in Workers, EndTest(w) \/ Interrupt(w)
      PROVE  SameVMs
  BY <1>2, EndVMs
<1>3. QED
  BY <1>1, <1>2, SameLives, Zenon DEF vars, BeginCall, EndTeardown

\* The VMs of the last test are closed or abandoned when the next one begins.
LEMMA BeginTestLives ==
  ASSUME StartInv, KeptInv, NEW w \in Workers, BeginTest(w)
  PROVE  KeptInv' /\ \A u \in VMIds : LifeStep(u)
<1>1. TypeInv /\ LeftInv /\ Current
  BY DEF StartInv
<1>2. \A u \in VMIds :
        Exists(u)' => u[1] # w /\ u[1] \in Workers /\ Exists(u) /\ VM(u)' = VM(u)
  BY <1>1, NoVMs
<1>3. \A x \in Workers : x # w => vms'[x] = vms[x]
  BY <1>1, NoVMs
<1>4. KeptInv'
  BY <1>2 DEF KeptInv
<1>5. ASSUME NEW u \in VMIds
      PROVE  LifeStep(u)
  <2>1. u[1] \in Workers
    BY DEF VMIds
  <2>2. CASE Exists(u)'
    BY <1>2, <2>2, StillVM
  <2>3. CASE ~Exists(u) /\ ~Exists(u)'
    BY <2>3, StillVM
  <2>4. CASE Exists(u) /\ ~Exists(u)'
    <3>1. u[1] = w
      BY <1>3, <2>1, <2>4 DEF Exists
    <3>2. stage[w] = "idle"
      BY DEF BeginTest
    <3>3. ~Starting(u[1]) /\ ~VM(u).listed
      BY <1>1, <2>1, <2>4, <3>1, <3>2, Zenon DEF LeftInv, Ended, Exists, VM
    <3>4. Gone(VM(u))
      BY <1>1, <2>4, <3>3 DEF LeftInv, Tracked, Gone
    <3>5. VM(u) \in Record
      BY <1>1, <2>4, KnownVM
    <3>6. LifeOf(VM(u)) \in {"gone", "abandoned"}
      BY <3>4, <3>5, LifeByRecord DEF Gone
    <3>7. Life(u) \in {"gone", "abandoned"} /\ Life(u)' = "none"
      BY <2>4, <3>6 DEF Life
    <3>8. Running(u)' = FALSE /\ Held(u)' = FALSE
      BY <2>4 DEF Running, Held
    <3>9. OneVM(u)!Forget
      BY <3>7, <3>8 DEF OneVM!Forget, OneVM!Goes
    <3>10. QED
      BY <3>9 DEF LifeStep, OneVM!Next
  <2>5. QED
    BY <2>2, <2>3, <2>4
<1>6. QED
  BY <1>4, <1>5

\* A new VM has its directory and no process, however its preparation ends.
LEMMA PrepareLives ==
  ASSUME TypeInv, KeptInv, NEW w \in Workers, NEW k \in {"handle", "qemu"},
         Prepare(w, k) \/ PrepareFails(w, k)
  PROVE  KeptInv' /\ \A u \in VMIds : LifeStep(u)
<1>1. Len(vms[w]) < MaxVMs
  BY DEF Prepare, PrepareFails, Call
<1>2. PICK r \in {[NewVM(k) EXCEPT !.listed = (k = "qemu")],
                  [NewVM(k) EXCEPT !.at = "broken"]} :
        vms' = [vms EXCEPT ![w] = Append(@, r)]
  BY DEF Prepare, PrepareFails
<1>3. r \in Record
  BY <1>2, NewVMs
<1>4. r.at \in {"prepared", "broken"} /\ r.qemu = "none" /\ r.dir
  BY <1>2 DEF NewVM
<1>5. vms' = [vms EXCEPT ![w] = Append(@, r)]
  BY <1>2
<1> HIDE <1>2
<1>6. PICK v \in VMIds :
        /\ ~Exists(v)
        /\ \A u \in VMIds :
             /\ Exists(u)' <=> Exists(u) \/ u = v
             /\ Exists(u)' => VM(u)' = IF u = v THEN r ELSE VM(u)
  BY <1>1, <1>3, <1>5, AddVM DEF TypeInv
<1>7. KeptInv'
  BY <1>4, <1>6 DEF KeptInv, Kept
<1>8. LifeStep(v)
  <2>1. LifeOf(r) \in {"new", "abandoned"}
    BY <1>3, <1>4, LifeByRecord
  <2>e. ~Exists(v) /\ Exists(v)' /\ VM(v)' = r
    BY <1>6
  <2>2. /\ Life(v) = "none" /\ Life(v)' = LifeOf(r)
        /\ Running(v) = FALSE /\ Running(v)' = FALSE
    BY <1>4, <2>e DEF Life, Running
  <2>h. Held(v)' = TRUE
    BY <1>4, <2>e DEF Held
  <2>3. OneVM(v)!Create \/ OneVM(v)!Abandon
    BY <2>1, <2>2, <2>h DEF OneVM!Create, OneVM!Abandon, OneVM!Goes
  <2>4. QED
    BY <2>3 DEF LifeStep, OneVM!Next
<1>9. ASSUME NEW u \in VMIds, u # v
      PROVE  LifeStep(u)
  BY <1>6, <1>9, StillVM
<1>10. QED
  BY <1>7, <1>8, <1>9

LEMMA CloseLives ==
  ASSUME StartInv, KeptInv, NEW w \in Workers, CloseVM(w)
  PROVE  KeptInv' /\ \A u \in VMIds : LifeStep(u)
<1>1. TypeInv /\ LeftInv /\ Current
  BY DEF StartInv
<1>i. PICK i \in DOMAIN vms[w] :
        /\ vms[w][i].listed
        /\ \E q \in Stopped(vms[w][i]) :
             Set(<<w, i>>, StopAndCleanup(vms[w][i], q))
  BY Zenon DEF CloseVM
<1>2. PICK q \in Stopped(vms[w][i]) :
        /\ vms[w][i].listed
        /\ Set(<<w, i>>, StopAndCleanup(vms[w][i], q))
  BY <1>i, Zenon
<1> DEFINE v == <<w, i>>
           r == StopAndCleanup(VM(v), q)
<1>3. v \in VMIds /\ Exists(v) /\ v[1] = w /\ VM(v) = vms[w][i]
  BY Bounds, <1>1, VMTypes DEF TypeInv, Exists, VM
<1>4. Set(v, r) /\ VM(v).listed
  BY <1>2, <1>3
<1>q. q \in Stopped(VM(v))
  BY <1>3
<1>5. stage[w] = "teardown"
  BY DEF CloseVM
<1> HIDE DEF v
<1>6. VM(v) \in Record
  BY <1>1, <1>3, KnownVM
<1>7. VM(v).at \notin UnderWay
  BY <1>1, <1>3, <1>5, EndedVM
<1>8. VM(v).dir /\ VM(v).at # "failed"
  BY <1>3, <1>4 DEF KeptInv, Kept
<1>9. LifeOf(VM(v)) \in {"ready", "abandoned"}
  BY <1>6, <1>7, <1>8, LifeByRecord DEF UnderWay
<1>10. /\ r \in Record /\ ~r.dir /\ ~r.listed
       /\ r.qemu \in {"none", "dead", "killed"} /\ r.at = VM(v).at
  <2>1. r \in Record /\ q \in {"none", "dead", "killed"}
    BY <1>6, <1>q, StoppedVMs
  <2>2. QED
    BY <1>6, <2>1 DEF StopAndCleanup, Record
<1> HIDE DEF r
<1>11. Kept(r) /\ LifeOf(r) = "gone"
  BY <1>7, <1>8, <1>10, LifeByRecord DEF Kept
<1>12. Moves(VM(v), r)
  BY <1>9, <1>10, <1>11 DEF Moves, Alive
<1>13. QED
  BY <1>1, <1>3, <1>4, <1>10, <1>11, <1>12, MoveStep

\* The steps of a start.
LEMMA StartLives ==
  ASSUME StartInv, KeptInv, NEW w \in Workers,
         \/ ChoosePort(w) \/ Spawn(w) \/ SpawnFails(w)
         \/ Connect(w) \/ BootFails(w)
  PROVE  KeptInv' /\ \A u \in VMIds : LifeStep(u)
<1>1. TypeInv
  BY DEF StartInv
<1>2. Starting(w)
  BY Zenon DEF ChoosePort, Spawn, SpawnFails, Connect, BootFails
<1> DEFINE v == Newest(w)
           x == VM(v)
<1>3. /\ v \in VMIds /\ Exists(v) /\ x \in Record /\ Proper(x)
      /\ x.at \in UnderWay
  BY <1>1, <1>2, StartingVM
<1>4. x.dir
  BY <1>3, Zenon DEF KeptInv, Kept
<1>5. /\ x.at \in {"prepared", "chosen"} =>
           LifeOf(x) = "new" /\ x.qemu = "none"
      /\ x.at = "connecting" => LifeOf(x) = "starting"
  BY <1>3, <1>4, LifeByRecord DEF Proper
<1>6. ASSUME NEW r \in Record, Set(v, r), Kept(r), Moves(x, r)
      PROVE  KeptInv' /\ \A u \in VMIds : LifeStep(u)
  <2> HIDE DEF v
  <2>1. QED
    BY <1>1, <1>3, <1>6, MoveStep
<1>7. CASE ChoosePort(w)
  <2>1. PICK p \in Ports : Set(v, [x EXCEPT !.at = "chosen", !.port = p])
    BY <1>7, Zenon DEF ChoosePort
  <2>2. x.at = "prepared"
    BY <1>7, Zenon DEF ChoosePort
  <2> DEFINE r == [x EXCEPT !.at = "chosen", !.port = p]
  <2>3. Set(v, r)
    BY <2>1
  <2> HIDE DEF x, v
  <2>4. r \in Record
    BY <1>3, ChosenVM
  <2>5. r.at = "chosen" /\ r.qemu = x.qemu /\ r.dir = x.dir
    BY <1>3 DEF Record
  <2> HIDE DEF r
  <2>6. LifeOf(r) = "new"
    BY <1>4, <2>4, <2>5, LifeByRecord
  <2>7. Kept(r) /\ Moves(x, r)
    BY <1>4, <1>5, <2>2, <2>5, <2>6 DEF Kept, Moves, Alive
  <2>8. QED
    BY <1>6, <2>3, <2>4, <2>7
<1>8. CASE Spawn(w)
  <2>1. x.at = "chosen"
    BY <1>8 DEF Spawn
  <2>2. PICK r \in {[x EXCEPT !.qemu = "starting", !.at = "connecting"],
                    [x EXCEPT !.qemu = "starting", !.at = "ready", !.stashed = TRUE]} :
          Set(v, r)
    BY <1>8 DEF Spawn
  <2> HIDE DEF x, v
  <2>3. r \in Record
    BY <1>3, <2>2, SpawnedVMs
  <2>4. r.qemu = "starting" /\ r.at \in {"connecting", "ready"} /\ r.dir = x.dir
    BY <1>3, <2>2 DEF Record
  <2>5. LifeOf(r) \in {"starting", "ready"}
    BY <1>4, <2>3, <2>4, LifeByRecord
  <2>6. Kept(r) /\ Moves(x, r)
    BY <1>4, <1>5, <2>1, <2>4, <2>5 DEF Kept, Moves, Alive
  <2>7. QED
    BY <1>6, <2>2, <2>3, <2>6
<1>9. CASE SpawnFails(w)
  <2> DEFINE r == [x EXCEPT !.at = "broken"]
  <2>1. x.at = "chosen" /\ Set(v, r)
    BY <1>9 DEF SpawnFails
  <2> HIDE DEF x, v
  <2>2. r \in Record
    BY <1>3, SpawnedVMs
  <2>3. r.at = "broken" /\ r.qemu = x.qemu /\ r.dir = x.dir
    BY <1>3 DEF Record
  <2> HIDE DEF r
  <2>4. LifeOf(r) = "abandoned"
    BY <1>4, <2>2, <2>3, LifeByRecord
  <2>5. Kept(r) /\ Moves(x, r)
    BY <1>4, <1>5, <2>1, <2>3, <2>4 DEF Kept, Moves, Alive, UnderWay
  <2>6. QED
    BY <1>6, <2>1, <2>2, <2>5
<1>10. CASE Connect(w)
  <2>1. PICK u \in VMIds : Set(v, Connected(x, u))
    BY <1>10 DEF Connect
  <2>2. x.at = "connecting"
    BY <1>10 DEF Connect
  <2> DEFINE r == Connected(x, u)
  <2>3. Set(v, r)
    BY <2>1
  <2> HIDE DEF x, v
  <2>4. r \in Record
    BY <1>3, ConnectedVMs
  <2>5. r.at = "ready" /\ r.qemu = x.qemu /\ r.dir = x.dir
    BY <1>3 DEF Record, Connected
  <2> HIDE DEF r
  <2>6. LifeOf(r) = "ready"
    BY <1>4, <2>4, <2>5, LifeByRecord
  <2>7. Kept(r) /\ Moves(x, r)
    BY <1>4, <1>5, <2>2, <2>5, <2>6 DEF Kept, Moves, Alive
  <2>8. QED
    BY <1>6, <2>3, <2>4, <2>7
<1>11. CASE BootFails(w)
  <2>q. PICK q \in Stopped(x) :
          Set(v, [StopAndCleanup(x, q) EXCEPT !.at = "failed"])
    BY <1>11 DEF BootFails
  <2> DEFINE r == [StopAndCleanup(x, q) EXCEPT !.at = "failed"]
  <2>1. x.at = "connecting" /\ Set(v, r)
    BY <1>11, <2>q DEF BootFails
  <2> HIDE DEF x, v
  <2>2. r \in Record /\ q \in {"none", "dead", "killed"}
    BY <1>3, StoppedVMs
  <2>3. r.at = "failed" /\ r.qemu = q /\ ~r.dir /\ ~r.listed
    BY <1>3 DEF Record, StopAndCleanup
  <2> HIDE DEF r
  <2>4. LifeOf(r) = "gone"
    BY <2>2, <2>3, LifeByRecord
  <2>5. Kept(r) /\ Moves(x, r)
    BY <1>5, <2>1, <2>2, <2>3, <2>4 DEF Kept, Moves, Alive, UnderWay
  <2>6. QED
    BY <1>6, <2>1, <2>2, <2>5
<1>12. QED
  BY <1>7, <1>8, <1>9, <1>10, <1>11

\* A connection is renewed, or QEMU binds its port or ends.
LEMMA ChangedLives ==
  ASSUME TypeInv, KeptInv, NEW v \in VMIds, Exists(v), NEW r \in Record,
         Set(v, r), r.at = VM(v).at, r.dir = VM(v).dir,
         r.listed = VM(v).listed, Alive(r) => Alive(VM(v))
  PROVE  KeptInv' /\ \A u \in VMIds : LifeStep(u)
<1>1. LifeOf(r) = LifeOf(VM(v))
  BY DEF LifeOf
<1>2. Kept(r)
  BY DEF KeptInv, Kept
<1>3. Moves(VM(v), r)
  BY <1>1 DEF Moves
<1>4. QED
  BY <1>2, <1>3, MoveStep

LEMMA RunLives ==
  ASSUME TypeInv, KeptInv,
         \/ \E w \in Workers : Reconnect(w)
         \/ \E v \in VMIds : Bind(v) \/ QemuExits(v)
  PROVE  KeptInv' /\ \A u \in VMIds : LifeStep(u)
<1>1. ASSUME NEW w \in Workers, Reconnect(w)
      PROVE  KeptInv' /\ \A u \in VMIds : LifeStep(u)
  <2>1. PICK i \in DOMAIN vms[w], u \in VMIds :
          Set(<<w, i>>, [vms[w][i] EXCEPT !.conn = u])
    BY <1>1, Zenon DEF Reconnect
  <2> DEFINE v == <<w, i>>
             x == VM(v)
             r == [x EXCEPT !.conn = u]
  <2>2. v \in VMIds /\ Exists(v) /\ x = vms[w][i]
    BY Bounds, VMTypes DEF TypeInv, Exists, VM
  <2>3. Set(v, r)
    BY <2>1, <2>2
  <2> HIDE DEF v
  <2>4. x \in Record
    BY <2>2, KnownVM
  <2> HIDE DEF x
  <2>5. r \in Record
    BY <2>4, ConnectedVMs
  <2>6. /\ r.at = x.at /\ r.dir = x.dir /\ r.listed = x.listed
        /\ r.qemu = x.qemu
    BY <2>4 DEF Record
  <2> HIDE DEF r
  <2>7. QED
    BY <2>2, <2>3, <2>5, <2>6, ChangedLives DEF x, Alive
<1>2. ASSUME NEW v \in VMIds, Bind(v) \/ QemuExits(v)
      PROVE  KeptInv' /\ \A u \in VMIds : LifeStep(u)
  <2> DEFINE x == VM(v)
  <2>1. Exists(v)
    BY <1>2 DEF Bind, QemuExits
  <2>2. PICK q \in {"listening", "dead"} :
          /\ Set(v, [x EXCEPT !.qemu = q])
          /\ q = "listening" => x.qemu = "starting"
    BY <1>2 DEF Bind, QemuExits
  <2> DEFINE r == [x EXCEPT !.qemu = q]
  <2>3. Set(v, r)
    BY <2>2
  <2>4. x \in Record
    BY <2>1, KnownVM
  <2> HIDE DEF x
  <2>5. r \in Record
    BY <2>4, StoppedVMs
  <2>6. r.at = x.at /\ r.dir = x.dir /\ r.listed = x.listed /\ r.qemu = q
    BY <2>4 DEF Record
  <2> HIDE DEF r
  <2>7. QED
    BY <2>1, <2>2, <2>3, <2>5, <2>6, ChangedLives DEF x, Alive
<1>3. QED
  BY <1>1, <1>2

LEMMA LivesStep ==
  ASSUME StartInv, KeptInv, [Next]_vars
  PROVE  KeptInv' /\ \A u \in VMIds : LifeStep(u)
<1>1. TypeInv
  BY DEF StartInv
<1>2. CASE \/ UNCHANGED vars
           \/ \E w \in Workers :
                BeginCall(w) \/ EndTest(w) \/ Interrupt(w) \/ EndTeardown(w)
  BY <1>1, <1>2, PhaseLives
<1>3. CASE \E w \in Workers : BeginTest(w)
  BY <1>3, BeginTestLives
<1>4. CASE \E w \in Workers : CloseVM(w)
  BY <1>4, CloseLives
<1>5. CASE \E w \in Workers, k \in {"handle", "qemu"} :
             Prepare(w, k) \/ PrepareFails(w, k)
  BY <1>1, <1>5, PrepareLives
<1>6. CASE \E w \in Workers :
             \/ ChoosePort(w) \/ Spawn(w) \/ SpawnFails(w)
             \/ Connect(w) \/ BootFails(w)
  BY <1>6, StartLives
<1>7. CASE \/ \E w \in Workers : Reconnect(w)
           \/ \E v \in VMIds : Bind(v) \/ QemuExits(v)
  BY <1>1, <1>7, RunLives
<1>8. QED
  BY <1>2, <1>3, <1>4, <1>5, <1>6, <1>7, Zenon DEF Next, WorkerStep

\* Every VM of every worker lives the life of a VM, whatever the other workers,
\* the ports, its start and its test do (pytest_plugin.py, start_vm and
\* start_qemu; qemu/handle.py, VMHandle.start): no QEMU runs in a directory that
\* is gone, none is launched twice or after its start failed, and the VM is only
\* forgotten when it was closed or its start was abandoned.
THEOREM Lives == Spec => ImplementsVMLifecycle
<1>1. Init => StartInv /\ KeptInv /\ \A v \in VMIds : OneVM(v)!Init
  <2> SUFFICES ASSUME Init
               PROVE  KeptInv /\ \A v \in VMIds : OneVM(v)!Init
    BY InitInv
  <2>1. \A v \in VMIds : ~Exists(v)
    BY DEF Init, Exists, VMIds
  <2>2. ASSUME NEW v \in VMIds
        PROVE  OneVM(v)!Init
    <3>1. Life(v) = "none" /\ Running(v) = FALSE /\ Held(v) = FALSE
      BY <2>1 DEF Life, Running, Held
    <3>2. QED
      BY <3>1 DEF OneVM!Init
  <2>3. QED
    BY <2>1, <2>2 DEF KeptInv
<1>2. StartInv /\ [Next]_vars => StartInv'
  BY StepInv
<1>3. StartInv /\ KeptInv /\ [Next]_vars =>
        /\ KeptInv'
        /\ [\A v \in VMIds :
              UNCHANGED OneVM(v)!lifeVars \/ OneVM(v)!Next]_vars
  BY LivesStep DEF LifeStep
<1>4. QED
  BY <1>1, <1>2, <1>3, PTL DEF Spec, ImplementsVMLifecycle
=============================================================================
