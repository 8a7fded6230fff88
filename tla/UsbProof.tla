------------------------------ MODULE UsbProof ------------------------------
(***************************************************************************)
(* Proofs about the USB stack as MCDevices composes it: whatever the       *)
(* number of devices and pipes, each device has its own; whatever the      *)
(* sizes of the rings, pages and transfers, what the three host controller *)
(* drivers report of a transfer is true, and keys reach the console in the *)
(* order they were typed.                                                  *)
(***************************************************************************)
EXTENDS DevicesProof

-----------------------------------------------------------------------------
(* The USB core: addresses and pipes.                                        *)

\* An induction over the natural numbers, as a statement about sets.
LEMMA Inductively ==
    ASSUME NEW S \in SUBSET Nat, 0 \in S, \A n \in S : n + 1 \in S
    PROVE  S = Nat
  <1> DEFINE Before == {p \in Nat \X Nat : p[1] < p[2]}
             T == Nat \ S
  <1>1. IsWellFoundedOn(Before, Nat)
    BY NatLessThanWellFounded, Zenon DEF OpToRel
  <1>2. \A i, j \in Nat : j < i => <<j, i>> \in Before
    OBVIOUS
  <1> HIDE DEF Before
  <1>3. ASSUME T # {} PROVE FALSE
    <2>1. PICK i \in T : \A j \in T : <<j, i>> \notin Before
      <3>1. T \subseteq Nat
        OBVIOUS
      <3> HIDE DEF T
      <3>2. QED
        BY <1>1, <1>3, <3>1, WFMin, Zenon
    <2>2. i \in Nat /\ i # 0 /\ i - 1 \in Nat /\ i - 1 < i
      OBVIOUS
    <2>3. i - 1 \in T
      BY <2>2
    <2>4. QED
      BY <1>2, <2>1, <2>2, <2>3
  <1>4. QED
    BY <1>3

-----------------------------------------------------------------------------
(* The inductive invariant of UsbCore. *)

SomePipe == U!Pipes \cup {None}
PipePools ==
    [first : SomePipe, last : SomePipe, link : [U!Pipes -> SomePipe], owner : [U!Pipes -> UDevs \cup {None}],
     n : 0 .. MaxPools]
FreePipes(q) == {p \in 1 .. (q.n * PoolSize) : q.owner[p] = None}

\* The list of pool q links the pipes of w, in this order.
Links(q, w) ==
    /\ w \in Seq(U!Pipes)
    /\ w = <<>> => q.first = None /\ q.last = None
    /\ w # <<>> => q.first = w[1] /\ q.last = w[Len(w)] /\ q.link[w[Len(w)]] = None
    /\ \A i \in 1 .. (Len(w) - 1) : q.link[w[i]] = w[i + 1]

\* They are the pipes nobody uses, each once.
FreeListIs(q, w) ==
    /\ Links(q, w)
    /\ \A i, j \in 1 .. Len(w) : w[i] = w[j] => i = j
    /\ {w[i] : i \in 1 .. Len(w)} = FreePipes(q)

\* Pipes of pools not allocated yet have no owner.
PoolOK(q) ==
    /\ q \in PipePools
    /\ \A p \in U!Pipes : q.owner[p] # None => p \in 1 .. (q.n * PoolSize)
    /\ \E w : FreeListIs(q, w)

UsbClasses == {"unused", "new", "failed", "keyboard", "mouse", "disk", "hub", "other"}
UsbDevice == [class : UsbClasses, addr : Nat, open : BOOLEAN, pipe : [U!Roles -> SomePipe]]

Held(v, r) == v.open \/ r = "control"

\* A device has the pipes of its class only, and none twice.
DeviceOK(v) ==
    /\ v \in UsbDevice
    /\ v.class # "keyboard" => v.pipe["intr"] = None
    /\ v.class # "disk" => v.pipe["bulk_in"] = None /\ v.pipe["bulk_out"] = None
    /\ \A r, s \in U!Roles : Held(v, r) /\ Held(v, s) /\ r # s /\ v.pipe[r] = v.pipe[s] => v.pipe[r] = None

\* The device being set up has its control pipe at most.
SetupOK ==
    usetup # None =>
        /\ DOMAIN usetup = {"dev", "step"} /\ usetup.dev \in UDevs
        /\ LET v == udev[usetup.dev] IN
           ~v.open /\ \A r \in U!Roles \ {"control"} : v.pipe[r] = None

PipesOwned ==
    \A d \in UDevs, r \in U!Roles :
        Held(udev[d], r) /\ udev[d].pipe[r] # None => uowner[udev[d].pipe[r]] = d

AddressesGiven ==
    /\ ubus \in [UDevs -> Nat] /\ unextaddr \in Nat \ {0} /\ ulost \in BOOLEAN
    /\ ~ulost => \A d \in UDevs : ubus[d] < unextaddr
    /\ U!AddressesDistinct

UsbInv ==
    /\ PoolOK(U!Pool)
    /\ udev \in [UDevs -> UsbDevice] /\ \A d \in UDevs : DeviceOK(udev[d])
    /\ SetupOK /\ PipesOwned /\ AddressesGiven

-----------------------------------------------------------------------------
UCoreConstants == /\ PoolSize \in Nat \ {0} /\ MaxPools \in Nat
                  /\ PoolSize * MaxPools \in Nat
                  /\ U!Pipes = 1 .. (PoolSize * MaxPools)
                  /\ None \notin U!Pipes /\ None \notin UDevs

\* What the proofs use of the constants.
LEMMA UsbConstants == UCoreConstants
  BY UsbAssumption DEF U!ConstantsOK, U!Pipes, UCoreConstants

\* Following the links from the first free pipe (Walk) gives the listed pipes in
\* order; a recursive function, so by induction on the number of pipes followed.
LEMMA WalkIs ==
    ASSUME NEW w, Links(U!Pool, w)
    PROVE  \A n \in Nat : U!Walk[n] = SubSeq(w, 1, IF n < Len(w) THEN n ELSE Len(w))
  <1> DEFINE Body(f, n) ==
               IF n = 0 \/ ufreelist = None THEN <<>>
               ELSE IF n = 1 THEN <<ufreelist>>
               ELSE LET v == f[n - 1] IN
                    IF ulink[v[Len(v)]] = None THEN v ELSE Append(v, ulink[v[Len(v)]])
             Firsts(n) == SubSeq(w, 1, IF n < Len(w) THEN n ELSE Len(w))
             G == [n \in Nat |-> Firsts(n)]
  <1>1. /\ w \in Seq(U!Pipes)
        /\ w = <<>> => ufreelist = None
        /\ w # <<>> => ufreelist = w[1] /\ ulink[w[Len(w)]] = None
        /\ \A i \in 1 .. (Len(w) - 1) : ulink[w[i]] = w[i + 1]
        /\ None \notin U!Pipes
    BY UsbConstants DEF Links, U!Pool, UCoreConstants
  <1>2. \A f : \A n \in Nat : (n = 0 \/ f[n - 1] = Firsts(n - 1)) => Body(f, n) = Firsts(n)
    <2> SUFFICES ASSUME NEW f, NEW n \in Nat, n = 0 \/ f[n - 1] = Firsts(n - 1)
                 PROVE  Body(f, n) = Firsts(n)
      OBVIOUS
    <2>1. CASE n = 0
      BY <1>1, <2>1
    <2>2. CASE w = <<>>
      BY <1>1, <2>2
    <2>3. CASE n = 1 /\ w # <<>>
      <3>1. ufreelist = w[1] /\ ufreelist # None /\ Len(w) \in Nat /\ Len(w) >= 1 /\ w[1] \in U!Pipes
        BY <1>1, <2>3
      <3>2. Firsts(n) = SubSeq(w, 1, 1) /\ SubSeq(w, 1, 1) = <<w[1]>>
        <4>1. SubSeq(w, 1, 1) = Append(SubSeq(w, 1, 0), w[1]) /\ SubSeq(w, 1, 0) = <<>>
          BY <1>1, <3>1
        <4>2. Append(<<>>, w[1]) = <<w[1]>>
          BY <3>1
        <4>3. Firsts(n) = SubSeq(w, 1, 1)
          BY <1>1, <2>3, <3>1
        <4>4. QED
          BY <4>1, <4>2, <4>3
      <3>3. Body(f, n) = <<ufreelist>>
        BY <2>3, <3>1
      <3>4. QED
        BY <3>1, <3>2, <3>3
    <2>4. CASE n > 1 /\ w # <<>>
      <3> DEFINE m == IF n - 1 < Len(w) THEN n - 1 ELSE Len(w)
      <3>1. m \in 1 .. Len(w) /\ Len(w) \in Nat
        BY <1>1, <2>4
      <3>2. ufreelist # None /\ n # 0 /\ n # 1
        BY <1>1, <2>4
      <3>3. f[n - 1] = SubSeq(w, 1, m)
        BY <2>4
      <3> HIDE DEF m
      <3>4. SubSeq(w, 1, m) \in Seq(U!Pipes) /\ Len(SubSeq(w, 1, m)) = m /\ SubSeq(w, 1, m)[m] = w[m]
            /\ \A i \in 1 .. m : SubSeq(w, 1, m)[i] = w[i]
        BY <1>1, <3>1
      <3>5. Body(f, n) = IF ulink[w[m]] = None THEN SubSeq(w, 1, m) ELSE Append(SubSeq(w, 1, m), ulink[w[m]])
        BY <3>2, <3>3, <3>4
      <3> HIDE DEF Body
      <3>6. CASE m = Len(w)
        <4>1. n >= Len(w)
          BY <1>1, <2>4, <3>6 DEF m
        <4>2. Firsts(n) = SubSeq(w, 1, Len(w))
          BY <1>1, <4>1
        <4>3. QED
          BY <1>1, <2>4, <3>5, <3>6, <4>2
      <3>7. CASE m < Len(w)
        <4>1. m = n - 1 /\ n <= Len(w)
          BY <1>1, <2>4, <3>1, <3>7 DEF m
        <4>2. ulink[w[m]] = w[m + 1] /\ w[m + 1] \in U!Pipes
          BY <1>1, <3>1, <3>7
        <4>3. Firsts(n) = SubSeq(w, 1, m + 1)
          BY <1>1, <2>4, <4>1
        <4>4. SubSeq(w, 1, m + 1) = Append(SubSeq(w, 1, m), w[m + 1])
          BY <1>1, <3>1, <3>7
        <4>5. QED
          BY <1>1, <3>5, <4>2, <4>3, <4>4
      <3>8. QED
        BY <3>1, <3>6, <3>7
    <2> HIDE DEF Body, Firsts
    <2>5. n = 0 \/ n = 1 \/ n > 1
      OBVIOUS
    <2>6. QED
      BY <2>1, <2>2, <2>3, <2>4, <2>5
  <1>3. U!Walk = (CHOOSE f : f = [n \in Nat |-> Body(f, n)])
    BY DEF U!Walk
  <1> HIDE DEF Body, Firsts
  <1>4. G = [n \in Nat |-> Body(G, n)]
    <2>1. \A n \in Nat : n = 0 \/ G[n - 1] = Firsts(n - 1)
      OBVIOUS
    <2>2. \A n \in Nat : Body(G, n) = Firsts(n)
      BY <1>2, <2>1
    <2>3. QED
      BY <2>2
  <1> HIDE DEF G
  <1>5. U!Walk = [n \in Nat |-> Body(U!Walk, n)]
    BY <1>3, <1>4, Zenon
  <1>6. \A n \in Nat : U!Walk[n] = Body(U!Walk, n)
    BY <1>5
  <1> DEFINE S == {n \in Nat : U!Walk[n] = Firsts(n)}
  <1>7. 0 \in S
    BY <1>2, <1>6
  <1>8. \A n \in S : n + 1 \in S
    <2> SUFFICES ASSUME NEW n \in S PROVE n + 1 \in S
      OBVIOUS
    <2>1. n + 1 \in Nat /\ (n + 1) - 1 = n
      OBVIOUS
    <2>2. U!Walk[n + 1] = Body(U!Walk, n + 1)
      BY <1>6, <2>1
    <2>3. Body(U!Walk, n + 1) = Firsts(n + 1)
      BY <1>2, <2>1
    <2>4. QED
      BY <2>1, <2>2, <2>3
  <1>9. S = Nat
    BY <1>7, <1>8, Inductively
  <1>10. QED
    BY <1>9 DEF Firsts

\* The Cardinality that UsbCore instantiates is the library's.
LEMMA SameCardinality == \A S : U!Cardinality(S) = Cardinality(S)
  BY DEF U!Cardinality, Cardinality, U!IsFiniteSet, IsFiniteSet

\* The invariant gives PipesSound: the list holds no more pipes than there are, so
\* Walk reaches its end.
LEMMA PipesSoundFrom ==
    ASSUME UsbInv
    PROVE  U!PipesSound
  <1> DEFINE q == U!Pool
  <1>1. PICK w : FreeListIs(q, w)
    BY DEF UsbInv, PoolOK
  <1>2. /\ w \in Seq(U!Pipes) /\ Len(w) \in Nat /\ DOMAIN w = 1 .. Len(w)
        /\ \A i \in 1 .. Len(w) : w[i] \in U!Pipes
        /\ \A i, j \in 1 .. Len(w) : w[i] = w[j] => i = j
    BY <1>1 DEF FreeListIs, Links
  <1>3. IsFiniteSet(U!Pipes) /\ Cardinality(U!Pipes) \in Nat
    BY UsbConstants, FS_Interval, FS_CardinalityType DEF UCoreConstants
  <1> DEFINE T == {w[i] : i \in 1 .. Len(w)}
  <1>4. Cardinality(T) = Len(w)
    <2>1. w \in [1 .. Len(w) -> T]
      BY <1>2
    <2>2. w \in Injection(1 .. Len(w), T)
      BY <1>2, <2>1 DEF Injection, IsInjective
    <2>3. w \in Surjection(1 .. Len(w), T)
      BY <2>1 DEF Surjection
    <2>4. ExistsBijection(1 .. Len(w), T)
      BY <2>2, <2>3 DEF ExistsBijection, Bijection
    <2> HIDE DEF T
    <2>5. QED
      BY <1>2, <2>4, FS_CountingElements
  <1>5. Len(w) <= Cardinality(U!Pipes)
    <2>1. T \in SUBSET U!Pipes
      BY <1>2
    <2> HIDE DEF T
    <2>2. QED
      BY <1>3, <1>4, <2>1, FS_Subset
  <1>6. U!Walk[Cardinality(U!Pipes) + 1] = w
    <2>1. Links(U!Pool, w)
      BY <1>1 DEF FreeListIs
    <2>2. Cardinality(U!Pipes) + 1 \in Nat /\ ~(Cardinality(U!Pipes) + 1 < Len(w))
      BY <1>2, <1>3, <1>5
    <2>3. U!Walk[Cardinality(U!Pipes) + 1] = SubSeq(w, 1, Len(w))
      BY <2>1, <2>2, WalkIs
    <2>4. QED
      BY <1>2, <2>3
  <1>7. T = {p \in 1 .. (upools * PoolSize) : uowner[p] = None}
    BY <1>1 DEF FreeListIs, FreePipes, U!Pool
  <1>8. uend = IF w = <<>> THEN None ELSE w[Len(w)]
    BY <1>1 DEF FreeListIs, Links, U!Pool
  <1>9. \A d \in UDevs, r \in U!Roles :
          (udev[d].open \/ r = "control") /\ udev[d].pipe[r] # None => uowner[udev[d].pipe[r]] = d
    BY DEF UsbInv, PipesOwned, Held
  <1>10. {w[i] : i \in DOMAIN w} = T
    BY <1>2
  <1> HIDE DEF T
  <1>11. /\ {w[i] : i \in DOMAIN w} = {p \in 1 .. (upools * PoolSize) : uowner[p] = None}
         /\ Len(w) = Cardinality({w[i] : i \in DOMAIN w})
    BY <1>4, <1>7, <1>10, Zenon
  <1>12. U!FreeAre(w)
    BY <1>8, <1>9, <1>11, SameCardinality DEF U!FreeAre
  <1>13. QED
    BY <1>6, <1>12, SameCardinality DEF U!PipesSound

\* The fields of a pool.
LEMMA PoolFields ==
    ASSUME NEW q \in PipePools
    PROVE  /\ q.first \in SomePipe /\ q.last \in SomePipe /\ q.n \in 0 .. MaxPools
           /\ q.link \in [U!Pipes -> SomePipe] /\ q.owner \in [U!Pipes -> UDevs \cup {None}]
           /\ q = [first |-> q.first, last |-> q.last, link |-> q.link, owner |-> q.owner, n |-> q.n]
  BY DEF PipePools

\* What a pool gives: its first pipe.
Given(q, r, p, d) ==
    /\ PoolOK(r) /\ p \in U!Pipes /\ q.owner[p] = None /\ r.owner = [q.owner EXCEPT ![p] = d]

\* Taking the first pipe off the list leaves the list of the others, in order, and
\* its end pointer right when it was the last one (get_pipe).
LEMMA TakesFirst ==
    ASSUME NEW q, PoolOK(q), q.first # None, NEW d \in UDevs
    PROVE  Given(q, U!TakeFirst(q, d), q.first, d)
  <1> DEFINE r == U!TakeFirst(q, d)
             p == q.first
  <1>1. q \in PipePools /\ p \in U!Pipes
    BY PoolFields DEF PoolOK, SomePipe
  <1>2. PICK w : FreeListIs(q, w)
    BY DEF PoolOK
  <1>3. w \in Seq(U!Pipes) /\ w # <<>> /\ w[1] = p /\ Len(w) \in Nat /\ Len(w) >= 1
    BY <1>2 DEF FreeListIs, Links
  <1>4. p \in 1 .. (q.n * PoolSize) /\ q.owner[p] = None
    <2>1. 1 \in 1 .. Len(w) /\ p = w[1]
      BY <1>3
    <2>2. p \in {w[i] : i \in 1 .. Len(w)}
      BY <2>1
    <2>3. QED
      BY <1>2, <2>2 DEF FreeListIs, FreePipes
  <1>5. /\ r.first = q.link[p] /\ r.n = q.n
        /\ r.last = (IF q.link[p] = None THEN None ELSE q.last)
        /\ r.link = [q.link EXCEPT ![p] = None]
        /\ r.owner = [q.owner EXCEPT ![p] = d]
        /\ r \in PipePools
    <2>1. /\ q.first \in SomePipe /\ q.last \in SomePipe /\ q.n \in 0 .. MaxPools
          /\ q.link \in [U!Pipes -> SomePipe] /\ q.owner \in [U!Pipes -> UDevs \cup {None}]
      BY <1>1, PoolFields
    <2>2. /\ DOMAIN r = {"first", "last", "link", "owner", "n"}
          /\ r.first = q.link[p] /\ r.last = (IF q.link[p] = None THEN None ELSE q.last)
          /\ r.link = [q.link EXCEPT ![p] = None] /\ r.owner = [q.owner EXCEPT ![p] = d] /\ r.n = q.n
          /\ r \in [DOMAIN r -> {r[x] : x \in DOMAIN r}]
      <3>1. DOMAIN q = {"first", "last", "link", "owner", "n"}
        BY <1>1 DEF PipePools
      <3>2. QED
        BY <3>1 DEF U!TakeFirst, U!EndAfterGet
    <2>3. q.link[p] \in SomePipe /\ None \in SomePipe
      BY <1>1, <2>1 DEF SomePipe
    <2>4. [q.link EXCEPT ![p] = None] \in [U!Pipes -> SomePipe]
      BY <2>1, <2>3
    <2>5. [q.owner EXCEPT ![p] = d] \in [U!Pipes -> UDevs \cup {None}]
      BY <2>1
    <2>6. QED
      BY <2>1, <2>2, <2>3, <2>4, <2>5 DEF PipePools
  <1> HIDE DEF r, p
  <1> DEFINE v == Tail(w)
  <1>6. /\ v \in Seq(U!Pipes) /\ Len(v) = Len(w) - 1
        /\ \A i \in 1 .. Len(v) : v[i] = w[i + 1]
    BY <1>3
  <1> HIDE DEF v
  <1>7. \A i \in 1 .. Len(v) : v[i] # p /\ v[i] \in U!Pipes
    BY <1>2, <1>3, <1>6 DEF FreeListIs
  <1>8. Links(r, v)
    <2>1. CASE Len(w) = 1
      <3>1. q.link[p] = None
        BY <1>2, <1>3, <2>1 DEF FreeListIs, Links
      <3>2. v = <<>> /\ 1 .. (Len(v) - 1) = {}
        BY <1>6, <2>1
      <3>3. r.first = None /\ r.last = None
        BY <1>5, <3>1
      <3>4. QED
        BY <1>6, <3>2, <3>3 DEF Links
    <2>2. CASE Len(w) # 1
      <3>1. q.link[p] = w[2] /\ w[2] = v[1] /\ w[2] \in U!Pipes /\ w[2] # None
        <4>1. 1 \in 1 .. (Len(w) - 1) /\ 2 \in 1 .. Len(w) /\ 1 \in 1 .. Len(v)
          BY <1>3, <1>6, <2>2
        <4>2. q.link[w[1]] = w[1 + 1] /\ v[1] = w[1 + 1]
          BY <1>2, <1>6, <4>1 DEF FreeListIs, Links
        <4>3. w[2] \in U!Pipes
          BY <1>3, <4>1
        <4>4. QED
          BY <1>3, <4>2, <4>3, UsbConstants DEF UCoreConstants
      <3>2. v # <<>> /\ v[Len(v)] = w[Len(w)] /\ Len(v) \in 1 .. Len(v)
        BY <1>3, <1>6, <2>2
      <3>3. \A x \in U!Pipes : x # p => r.link[x] = q.link[x]
        BY <1>1, <1>5, PoolFields
      <3>4. r.link[v[Len(v)]] = None
        <4>1. v[Len(v)] # p /\ v[Len(v)] \in U!Pipes
          BY <1>7, <3>2
        <4>2. q.link[w[Len(w)]] = None
          BY <1>2, <1>3 DEF FreeListIs, Links
        <4>3. QED
          BY <3>2, <3>3, <4>1, <4>2
      <3>5. \A i \in 1 .. (Len(v) - 1) : r.link[v[i]] = v[i + 1]
        <4> SUFFICES ASSUME NEW i \in 1 .. (Len(v) - 1) PROVE r.link[v[i]] = v[i + 1]
          OBVIOUS
        <4>1. i \in 1 .. Len(v) /\ i + 1 \in 1 .. Len(v) /\ i + 1 \in 1 .. (Len(w) - 1)
          BY <1>3, <1>6
        <4>2. r.link[v[i]] = q.link[w[i + 1]]
          BY <1>6, <1>7, <3>3, <4>1
        <4>3. q.link[w[i + 1]] = w[(i + 1) + 1]
          BY <1>2, <4>1 DEF FreeListIs, Links
        <4>4. QED
          BY <1>6, <4>1, <4>2, <4>3
      <3>6. r.first = v[1] /\ r.last = v[Len(v)]
        BY <1>2, <1>3, <1>5, <3>1, <3>2 DEF FreeListIs, Links
      <3>7. QED
        BY <1>6, <3>2, <3>4, <3>5, <3>6 DEF Links
    <2>3. QED
      BY <2>1, <2>2
  <1>9. \A i, j \in 1 .. Len(v) : v[i] = v[j] => i = j
    BY <1>2, <1>3, <1>6 DEF FreeListIs
  <1>10. {v[i] : i \in 1 .. Len(v)} = FreePipes(r)
    <2>1. {w[i] : i \in 1 .. Len(w)} = FreePipes(q)
      BY <1>2 DEF FreeListIs
    <2>2. \A x : x \in FreePipes(r) <=> x \in FreePipes(q) /\ x # p
      <3>1. \A x \in 1 .. (q.n * PoolSize) : x \in U!Pipes
        <4>1. q.n \in Nat /\ q.n <= MaxPools
          BY <1>1, PoolFields, UsbConstants DEF UCoreConstants
        <4>2. q.n * PoolSize <= PoolSize * MaxPools /\ q.n * PoolSize \in Nat
          BY <4>1, UsbConstants DEF UCoreConstants
        <4>3. QED
          BY <4>2, UsbConstants DEF UCoreConstants
      <3>2. \A x \in U!Pipes : r.owner[x] = IF x = p THEN d ELSE q.owner[x]
        BY <1>1, <1>5, PoolFields
      <3>3. d # None
        BY UsbConstants DEF UCoreConstants
      <3>4. QED
        BY <1>5, <3>1, <3>2, <3>3 DEF FreePipes
    <2>3. \A i \in 1 .. Len(v) : v[i] \in FreePipes(r)
      <3> SUFFICES ASSUME NEW i \in 1 .. Len(v) PROVE v[i] \in FreePipes(r)
        OBVIOUS
      <3>1. i + 1 \in 1 .. Len(w) /\ v[i] = w[i + 1]
        BY <1>3, <1>6
      <3>2. v[i] \in FreePipes(q)
        BY <2>1, <3>1
      <3>3. QED
        BY <1>7, <2>2, <3>2
    <2>4. ASSUME NEW x \in FreePipes(r) PROVE \E i \in 1 .. Len(v) : x = v[i]
      <3>1. x \in FreePipes(q) /\ x # p
        BY <2>2
      <3>2. PICK i \in 1 .. Len(w) : x = w[i]
        BY <2>1, <3>1
      <3>3. i # 1
        BY <1>3, <3>1, <3>2
      <3>4. i - 1 \in 1 .. Len(v) /\ v[i - 1] = w[i]
        BY <1>3, <1>6, <3>3
      <3>5. QED
        BY <3>2, <3>4
    <2>5. QED
      BY <2>3, <2>4
  <1>11. FreeListIs(r, v)
    BY <1>8, <1>9, <1>10 DEF FreeListIs
  <1>12. \A x \in U!Pipes : r.owner[x] # None => x \in 1 .. (r.n * PoolSize)
    <2>1. \A x \in U!Pipes : r.owner[x] = IF x = p THEN d ELSE q.owner[x]
      BY <1>1, <1>5, PoolFields
    <2>2. QED
      BY <1>4, <1>5, <2>1 DEF PoolOK
  <1>13. PoolOK(r)
    BY <1>5, <1>11, <1>12 DEF PoolOK
  <1>14. QED
    BY <1>1, <1>4, <1>5, <1>13 DEF Given, r, p

\* A pool that has run empty gets PoolSize more.
LEMMA Replenished ==
    ASSUME NEW q, PoolOK(q), q.first = None, q.n # MaxPools
    PROVE  LET r == U!ohci_alloc_pipe_pool(q) IN PoolOK(r) /\ r.first # None /\ r.owner = q.owner
  <1> DEFINE r == U!ohci_alloc_pipe_pool(q)
             a == q.n * PoolSize + 1
             z == a + PoolSize - 1
  <1>1. q \in PipePools /\ q.n \in Nat /\ q.n + 1 \in 0 .. MaxPools
    BY PoolFields, UsbConstants DEF PoolOK, UCoreConstants
  <1>2. a \in Nat /\ z \in Nat /\ 1 <= a /\ a <= z /\ z = (q.n + 1) * PoolSize
    <2>1. q.n * PoolSize \in Nat /\ (q.n + 1) * PoolSize = q.n * PoolSize + PoolSize /\ PoolSize \in Nat \ {0}
      BY <1>1, UsbConstants DEF UCoreConstants
    <2>2. QED
      BY <2>1
  <1>3. z <= PoolSize * MaxPools
    BY <1>1, UsbConstants DEF UCoreConstants
  <1>4. a .. z \subseteq U!Pipes
    BY <1>2, <1>3, UsbConstants DEF UCoreConstants
  <1> DEFINE l == [p \in U!Pipes |-> IF p \in a .. (z - 1) THEN p + 1 ELSE IF p = z THEN None ELSE q.link[p]]
  <1>5. /\ DOMAIN r = {"first", "last", "link", "owner", "n"}
        /\ r.first = a /\ r.last = z /\ r.link = l /\ r.owner = q.owner /\ r.n = q.n + 1
        /\ r \in [DOMAIN r -> {r[x] : x \in DOMAIN r}]
    <2>1. DOMAIN q = {"first", "last", "link", "owner", "n"}
      BY <1>1 DEF PipePools
    <2>2. QED
      BY <2>1 DEF U!ohci_alloc_pipe_pool
  <1> HIDE DEF r
  <1>6. l \in [U!Pipes -> SomePipe]
    <2>1. \A p \in a .. (z - 1) : p + 1 \in U!Pipes
      BY <1>2, <1>4
    <2>2. q.link \in [U!Pipes -> SomePipe]
      BY <1>1, PoolFields
    <2>3. QED
      BY <2>1, <2>2 DEF SomePipe
  <1>7. r \in PipePools
    <2>1. a \in SomePipe /\ z \in SomePipe
      BY <1>2, <1>4 DEF SomePipe
    <2>2. q.owner \in [U!Pipes -> UDevs \cup {None}]
      BY <1>1, PoolFields
    <2> HIDE DEF a, z, l
    <2>3. QED
      BY <1>1, <1>5, <1>6, <2>1, <2>2 DEF PipePools
  <1>8. \A p \in U!Pipes : r.owner[p] # None => p \in 1 .. (r.n * PoolSize)
    <2> SUFFICES ASSUME NEW p \in U!Pipes, q.owner[p] # None PROVE p \in 1 .. ((q.n + 1) * PoolSize)
      BY <1>5
    <2>1. p \in 1 .. (q.n * PoolSize)
      BY DEF PoolOK
    <2>2. QED
      BY <1>1, <1>2, <2>1, UsbConstants, SMTT(30) DEF UCoreConstants
  <1> DEFINE v == [i \in 1 .. PoolSize |-> a + i - 1]
  <1>9. /\ v \in Seq(U!Pipes) /\ Len(v) = PoolSize /\ v # <<>>
        /\ \A i \in 1 .. PoolSize : v[i] = a + i - 1 /\ v[i] \in U!Pipes
    <2>1. \A i \in 1 .. PoolSize : a + i - 1 \in a .. z
      BY <1>2, UsbConstants DEF UCoreConstants
    <2>2. v \in [1 .. PoolSize -> U!Pipes] /\ PoolSize \in Nat \ {0}
      BY <1>4, <2>1, UsbConstants DEF UCoreConstants
    <2>3. QED
      BY <2>2
  <1> HIDE DEF v
  <1>10. Links(r, v)
    <2>1. v[1] = a /\ v[Len(v)] = z /\ z \in U!Pipes
      BY <1>2, <1>4, <1>9, UsbConstants DEF UCoreConstants
    <2>2. l[z] = None
      BY <1>2, <2>1
    <2>3. \A i \in 1 .. (Len(v) - 1) : l[v[i]] = v[i + 1]
      <3> SUFFICES ASSUME NEW i \in 1 .. (Len(v) - 1) PROVE l[v[i]] = v[i + 1]
        OBVIOUS
      <3>1. i \in 1 .. PoolSize /\ i + 1 \in 1 .. PoolSize
        BY <1>9, UsbConstants DEF UCoreConstants
      <3>2. v[i] = a + i - 1 /\ v[i + 1] = a + (i + 1) - 1 /\ v[i] \in U!Pipes
        BY <1>9, <3>1
      <3>3. v[i] \in a .. (z - 1)
        BY <1>2, <3>1, <3>2, UsbConstants DEF UCoreConstants
      <3>4. v[i] + 1 = v[i + 1]
        BY <1>2, <3>2
      <3>5. QED
        BY <3>2, <3>3, <3>4
    <2> HIDE DEF a, z, l
    <2>4. QED
      BY <1>5, <1>9, <2>1, <2>2, <2>3 DEF Links
  <1>11. \A i, j \in 1 .. Len(v) : v[i] = v[j] => i = j
    BY <1>2, <1>9, UsbConstants, SMTT(30) DEF UCoreConstants
  <1>12. FreePipes(q) = {}
    <2>1. PICK w : FreeListIs(q, w)
      BY DEF PoolOK
    <2>2. w = <<>>
      <3> SUFFICES ASSUME w # <<>> PROVE FALSE
        OBVIOUS
      <3>1. q.first = w[1] /\ w \in Seq(U!Pipes)
        BY <2>1 DEF FreeListIs, Links
      <3>2. w[1] \in U!Pipes
        BY <3>1
      <3>3. QED
        BY <3>1, <3>2, UsbConstants DEF UCoreConstants
    <2>3. QED
      BY <2>1, <2>2 DEF FreeListIs
  <1>13. {v[i] : i \in 1 .. Len(v)} = FreePipes(r)
    <2>1. \A x \in a .. z : q.owner[x] = None
      <3> SUFFICES ASSUME NEW x \in a .. z, q.owner[x] # None PROVE FALSE
        OBVIOUS
      <3>1. x \in 1 .. (q.n * PoolSize)
        BY <1>4 DEF PoolOK
      <3>2. QED
        BY <1>1, <1>2, <3>1, UsbConstants, SMTT(30) DEF UCoreConstants
    <2>2. \A x : x \in FreePipes(r) <=> x \in a .. z
      <3>1. FreePipes(r) = {p \in 1 .. z : q.owner[p] = None}
        BY <1>2, <1>5 DEF FreePipes
      <3>2. \A x \in 1 .. (a - 1) : q.owner[x] # None
        <4>1. a - 1 = q.n * PoolSize
          BY <1>1, UsbConstants DEF UCoreConstants
        <4>2. QED
          BY <1>12, <4>1 DEF FreePipes
      <3> HIDE DEF a, z
      <3>3. QED
        BY <1>2, <2>1, <3>1, <3>2
    <2>3. \A i \in 1 .. Len(v) : v[i] \in a .. z
      BY <1>2, <1>9, UsbConstants DEF UCoreConstants
    <2>4. ASSUME NEW x \in a .. z PROVE \E i \in 1 .. Len(v) : x = v[i]
      <3> HIDE DEF a, z, l
      <3>1. a \in Nat /\ z = a + PoolSize - 1 /\ PoolSize \in Nat
        BY <1>1, <1>2, UsbConstants DEF UCoreConstants, a, z
      <3>2. x - a + 1 \in 1 .. PoolSize
        BY <3>1
      <3>3. v[x - a + 1] = a + (x - a + 1) - 1
        BY <1>9, <3>2
      <3>4. x - a + 1 \in 1 .. Len(v) /\ v[x - a + 1] = x
        BY <1>9, <3>1, <3>2, <3>3
      <3>5. QED
        BY <3>4
    <2>5. QED
      BY <2>2, <2>3, <2>4
  <1>14. FreeListIs(r, v)
    BY <1>10, <1>11, <1>13 DEF FreeListIs
  <1>15. r.first # None
    BY <1>2, <1>4, <1>5, UsbConstants DEF UCoreConstants
  <1>16. PoolOK(r)
    BY <1>7, <1>8, <1>14 DEF PoolOK
  <1>17. QED
    BY <1>5, <1>15, <1>16 DEF r

\* get_pipe gives a pipe that was free to the device, or none and changes nothing.
LEMMA GetsPipe ==
    ASSUME NEW q, PoolOK(q), NEW d \in UDevs
    PROVE  LET g == U!usb_get_pipe(q, d) IN
           \/ g.pipe = None /\ g.pool = q
           \/ Given(q, g.pool, g.pipe, d)
  <1> DEFINE g == U!usb_get_pipe(q, d)
             r == U!ohci_alloc_pipe_pool(q)
  <1>1. CASE q.first # None
    <2>1. g.pipe = q.first /\ g.pool = U!TakeFirst(q, d)
      BY <1>1 DEF U!usb_get_pipe
    <2>2. QED
      BY <1>1, <2>1, TakesFirst
  <1>2. CASE q.first = None /\ q.n = MaxPools
    BY <1>2 DEF U!usb_get_pipe
  <1>3. CASE q.first = None /\ q.n # MaxPools
    <2>1. g.pipe = r.first /\ g.pool = U!TakeFirst(r, d)
      BY <1>3 DEF U!usb_get_pipe
    <2>2. PoolOK(r) /\ r.first # None /\ r.owner = q.owner
      BY <1>3, Replenished
    <2> HIDE DEF r
    <2>3. Given(r, g.pool, g.pipe, d)
      BY <2>1, <2>2, TakesFirst
    <2>4. QED
      BY <2>2, <2>3 DEF Given
  <1>4. QED
    BY <1>1, <1>2, <1>3

\* A pipe returned to its pool: it has no owner any more.
LEMMA PutsPipe ==
    ASSUME NEW q, PoolOK(q), NEW p \in SomePipe
    PROVE  LET r == U!usb_put_pipe(q, p) IN
           /\ PoolOK(r)
           /\ \A x \in U!Pipes : r.owner[x] = IF x = p THEN None ELSE q.owner[x]
  <1> DEFINE r == U!ohci_put_pipe(q, p)
  <1>1. CASE p = None
    BY <1>1, UsbConstants DEF U!usb_put_pipe, UCoreConstants
  <1>2. CASE p # None /\ q.owner[p] = None
    BY <1>2 DEF U!usb_put_pipe
  <1>3. CASE p # None /\ q.owner[p] # None
    <2>1. p \in U!Pipes /\ q \in PipePools
      BY <1>3 DEF SomePipe, PoolOK
    <2>2. PICK w : FreeListIs(q, w)
      BY DEF PoolOK
    <2>3. /\ w \in Seq(U!Pipes) /\ Len(w) \in Nat
          /\ \A i \in 1 .. Len(w) : w[i] \in U!Pipes
      BY <2>2 DEF FreeListIs, Links
    <2>4. \A i \in 1 .. Len(w) : w[i] # p
      <3> SUFFICES ASSUME NEW i \in 1 .. Len(w), w[i] = p PROVE FALSE
        OBVIOUS
      <3>1. p \in FreePipes(q)
        BY <2>2 DEF FreeListIs
      <3>2. QED
        BY <1>3, <3>1 DEF FreePipes
    <2>5. q.last = None <=> w = <<>>
      <3>1. w # <<>> => w[Len(w)] \in U!Pipes
        BY <2>3
      <3>2. QED
        BY <2>2, <3>1, UsbConstants DEF FreeListIs, Links, UCoreConstants
    <2>6. /\ DOMAIN r = {"first", "last", "link", "owner", "n"}
          /\ r.first = (IF q.last = None THEN p ELSE q.first)
          /\ r.link = (IF q.last = None THEN [q.link EXCEPT ![p] = None]
                       ELSE [q.link EXCEPT ![q.last] = p, ![p] = None])
          /\ r.last = p /\ r.owner = [q.owner EXCEPT ![p] = None] /\ r.n = q.n
          /\ r \in [DOMAIN r -> {r[x] : x \in DOMAIN r}]
      <3>1. DOMAIN q = {"first", "last", "link", "owner", "n"}
        BY <2>1 DEF PipePools
      <3>2. QED
        BY <3>1 DEF U!ohci_put_pipe
    <2> HIDE DEF r
    <2>7. /\ q.first \in SomePipe /\ q.last \in SomePipe /\ q.n \in 0 .. MaxPools
          /\ q.link \in [U!Pipes -> SomePipe] /\ q.owner \in [U!Pipes -> UDevs \cup {None}]
      BY <2>1, PoolFields
    <2>8. r \in PipePools
      <3>1. p \in SomePipe /\ None \in SomePipe
        BY DEF SomePipe
      <3>2. r.link \in [U!Pipes -> SomePipe]
        BY <2>6, <2>7, <3>1, ZenonT(60)
      <3>3. r.owner \in [U!Pipes -> UDevs \cup {None}]
        BY <2>6, <2>7
      <3>4. r.first \in SomePipe
        BY <2>6, <2>7
      <3>5. QED
        BY <2>6, <2>7, <3>1, <3>2, <3>3, <3>4 DEF PipePools
    <2>9. \A x \in U!Pipes : r.owner[x] = IF x = p THEN None ELSE q.owner[x]
      BY <2>1, <2>6, <2>7
    <2>10. \A x \in U!Pipes : r.owner[x] # None => x \in 1 .. (r.n * PoolSize)
      BY <2>6, <2>9 DEF PoolOK
    <2> DEFINE v == Append(w, p)
    <2>11. /\ v \in Seq(U!Pipes) /\ Len(v) = Len(w) + 1 /\ v # <<>> /\ v[Len(v)] = p
           /\ \A i \in 1 .. Len(w) : v[i] = w[i]
      BY <2>1, <2>3
    <2> HIDE DEF v
    <2>12. Links(r, v)
      <3>1. CASE w = <<>>
        <4>1. Len(v) = 1 /\ 1 .. (Len(v) - 1) = {}
          BY <2>11, <3>1
        <4>2. r.first = v[1] /\ r.last = v[Len(v)] /\ r.link[v[Len(v)]] = None
          BY <2>1, <2>5, <2>6, <2>7, <2>11, <3>1, <4>1
        <4>3. QED
          BY <2>11, <4>1, <4>2 DEF Links
      <3>2. CASE w # <<>>
        <4>1. /\ Len(w) \in 1 .. Len(w) /\ 1 \in 1 .. Len(w)
          BY <2>3, <3>2
        <4>2. q.last = w[Len(w)] /\ q.first = w[1] /\ q.last # None
          BY <2>2, <2>5, <3>2 DEF FreeListIs, Links
        <4>3. r.first = v[1] /\ r.last = v[Len(v)] /\ r.link[v[Len(v)]] = None
          BY <2>1, <2>6, <2>7, <2>11, <4>1, <4>2
        <4>4. \A x \in U!Pipes : x # p => r.link[x] = IF x = q.last THEN p ELSE q.link[x]
          BY <2>1, <2>6, <2>7, <4>2
        <4>5. \A i \in 1 .. (Len(v) - 1) : r.link[v[i]] = v[i + 1]
          <5> SUFFICES ASSUME NEW i \in 1 .. Len(w) PROVE r.link[w[i]] = v[i + 1]
            BY <2>3, <2>11
          <5>1. w[i] \in U!Pipes /\ w[i] # p
            BY <2>3, <2>4
          <5>2. CASE i = Len(w)
            BY <2>11, <4>2, <4>4, <5>1, <5>2
          <5>3. CASE i # Len(w)
            <6>1. i \in 1 .. (Len(w) - 1) /\ i + 1 \in 1 .. Len(w)
              BY <2>3, <5>3
            <6>2. w[i] # w[Len(w)]
              BY <2>2, <4>1, <5>3 DEF FreeListIs
            <6>3. q.link[w[i]] = w[i + 1]
              BY <2>2, <6>1 DEF FreeListIs, Links
            <6>4. QED
              BY <2>11, <4>2, <4>4, <5>1, <6>1, <6>2, <6>3
          <5>4. QED
            BY <5>2, <5>3
        <4>6. QED
          BY <2>11, <4>3, <4>5 DEF Links
      <3>3. QED
        BY <3>1, <3>2
    <2>13. \A i, j \in 1 .. Len(v) : v[i] = v[j] => i = j
      <3> SUFFICES ASSUME NEW i \in 1 .. Len(v), NEW j \in 1 .. Len(v), v[i] = v[j] PROVE i = j
        OBVIOUS
      <3>1. i \in 1 .. Len(w) \/ i = Len(v)
        BY <2>3, <2>11
      <3>2. j \in 1 .. Len(w) \/ j = Len(v)
        BY <2>3, <2>11
      <3>3. QED
        BY <2>2, <2>4, <2>11, <3>1, <3>2 DEF FreeListIs
    <2>14. {v[i] : i \in 1 .. Len(v)} = FreePipes(r)
      <3>1. {w[i] : i \in 1 .. Len(w)} = FreePipes(q)
        BY <2>2 DEF FreeListIs
      <3>2. 1 .. (q.n * PoolSize) \subseteq U!Pipes
        <4>1. q.n * PoolSize <= PoolSize * MaxPools /\ q.n * PoolSize \in Nat
          BY <2>7, UsbConstants DEF UCoreConstants
        <4>2. QED
          BY <4>1, UsbConstants DEF UCoreConstants
      <3>3. \A x : x \in FreePipes(r) <=> x \in FreePipes(q) \/ x = p
        <4>1. p \in 1 .. (q.n * PoolSize)
          BY <1>3, <2>1 DEF PoolOK
        <4>2. QED
          BY <2>6, <2>9, <3>2, <4>1 DEF FreePipes
      <3>4. \A i \in 1 .. Len(v) : v[i] \in FreePipes(r)
        <4> SUFFICES ASSUME NEW i \in 1 .. Len(v) PROVE v[i] \in FreePipes(r)
          OBVIOUS
        <4>1. CASE i \in 1 .. Len(w)
          BY <2>11, <3>1, <3>3, <4>1
        <4>2. CASE i = Len(v)
          BY <2>11, <3>3, <4>2
        <4>3. QED
          BY <2>3, <2>11, <4>1, <4>2
      <3>5. ASSUME NEW x \in FreePipes(r) PROVE \E i \in 1 .. Len(v) : x = v[i]
        <4>1. CASE x = p
          <5>1. Len(v) \in 1 .. Len(v) /\ v[Len(v)] = x
            BY <2>3, <2>11, <4>1
          <5>2. QED
            BY <5>1
        <4>2. CASE x \in FreePipes(q)
          <5>1. PICK i \in 1 .. Len(w) : x = w[i]
            BY <3>1, <4>2
          <5>2. i \in 1 .. Len(v) /\ v[i] = x
            BY <2>3, <2>11, <5>1
          <5>3. QED
            BY <5>2
        <4>3. QED
          BY <3>3, <4>1, <4>2
      <3>6. QED
        BY <3>4, <3>5
    <2>15. PoolOK(r)
      <3>1. FreeListIs(r, v)
        BY <2>12, <2>13, <2>14 DEF FreeListIs
      <3>2. QED
        BY <2>8, <2>10, <3>1 DEF PoolOK
    <2>16. U!usb_put_pipe(q, p) = r
      BY <1>3 DEF U!usb_put_pipe, r
    <2>17. QED
      BY <2>9, <2>15, <2>16
  <1>4. QED
    BY <1>1, <1>2, <1>3

-----------------------------------------------------------------------------
\* SetPool makes the variables of the pool those of q.
LEMMA PoolSet ==
    ASSUME NEW q, PoolOK(q), U!SetPool(q)
    PROVE  U!Pool' = q /\ uowner' = q.owner
  <1>1. q = [first |-> q.first, last |-> q.last, link |-> q.link, owner |-> q.owner, n |-> q.n]
    BY PoolFields DEF PoolOK
  <1>2. U!Pool' = [first |-> q.first, last |-> q.last, link |-> q.link, owner |-> q.owner, n |-> q.n]
    BY DEF U!SetPool, U!Pool
  <1>3. QED
    BY <1>1, <1>2 DEF U!SetPool

\* It holds before the first scan: no pipe, no device, no address.
LEMMA UsbInitially == U!Init => UsbInv
  <1> SUFFICES ASSUME U!Init PROVE UsbInv
    OBVIOUS
  <1>1. /\ udev = [d \in UDevs |-> U!Blank] /\ usetup = None /\ ubus = [d \in UDevs |-> 0]
        /\ ulost = FALSE /\ unextaddr = 1
        /\ ufreelist = None /\ uend = None /\ ulink = [p \in U!Pipes |-> None]
        /\ uowner = [p \in U!Pipes |-> None] /\ upools = 0
    BY DEF U!Init
  <1>2. U!Pool = [first |-> None, last |-> None, link |-> ulink, owner |-> uowner, n |-> 0]
    BY <1>1 DEF U!Pool
  <1>3. PoolOK(U!Pool)
    <2> DEFINE q == U!Pool
    <2>1. /\ q.first = None /\ q.last = None /\ q.n = 0
          /\ q.link = [p \in U!Pipes |-> None] /\ q.owner = [p \in U!Pipes |-> None]
      BY <1>1, <1>2
    <2>2. q \in PipePools
      <3>1. 0 \in 0 .. MaxPools
        BY UsbConstants DEF UCoreConstants
      <3>2. /\ ulink \in [U!Pipes -> SomePipe] /\ uowner \in [U!Pipes -> UDevs \cup {None}]
            /\ None \in SomePipe
        BY <1>1 DEF SomePipe
      <3>3. QED
        BY <1>2, <3>1, <3>2 DEF PipePools
    <2> HIDE DEF q
    <2>3. FreeListIs(q, <<>>)
      <3>1. Links(q, <<>>)
        BY <2>1 DEF Links
      <3>2. FreePipes(q) = {}
        BY <2>1, UsbConstants DEF FreePipes, UCoreConstants
      <3>3. {(<<>>)[i] : i \in 1 .. Len(<<>>)} = {}
        OBVIOUS
      <3>4. \A i, j \in 1 .. Len(<<>>) : <<>>[i] = <<>>[j] => i = j
        OBVIOUS
      <3>5. QED
        BY <3>1, <3>2, <3>3, <3>4 DEF FreeListIs
    <2>4. QED
      BY <2>1, <2>2, <2>3 DEF PoolOK, q
  <1>4. DeviceOK(U!Blank) /\ U!Blank \in UsbDevice /\ \A r \in U!Roles : U!Blank.pipe[r] = None
    BY DEF DeviceOK, U!Blank, UsbDevice, UsbClasses, SomePipe, U!Roles
  <1>5. udev \in [UDevs -> UsbDevice] /\ (\A d \in UDevs : DeviceOK(udev[d])) /\ PipesOwned
    BY <1>1, <1>4 DEF PipesOwned
  <1>6. SetupOK /\ AddressesGiven
    <2>1. ulost \in BOOLEAN /\ ~ulost
      BY <1>1, Zenon
    <2>2. /\ ubus \in [UDevs -> Nat] /\ unextaddr \in Nat \ {0}
          /\ \A d \in UDevs : ubus[d] = 0 /\ 0 < unextaddr
      BY <1>1
    <2>3. QED
      BY <1>1, <2>1, <2>2 DEF SetupOK, AddressesGiven, U!AddressesDistinct
  <1>7. QED
    BY <1>3, <1>5, <1>6 DEF UsbInv

\* A step that leaves the pools alone and of the devices changes the class, address
\* or nothing of the one being set up.
Same(v, u) == u.open = v.open /\ u.pipe = v.pipe
\* Such a step keeps the invariant when addresses and setup are right after it.
LEMMA PoolKept ==
    ASSUME UsbInv, UNCHANGED U!poolvars, udev' \in [UDevs -> UsbDevice],
           \A d \in UDevs : DeviceOK(udev'[d]) /\ Same(udev[d], udev'[d]),
           SetupOK', AddressesGiven'
    PROVE  UsbInv'
  <1>1. U!Pool' = U!Pool
    BY DEF U!poolvars, U!Pool
  <1>2. PoolOK(U!Pool')
    BY <1>1 DEF UsbInv
  <1>3. PipesOwned'
    BY DEF UsbInv, PipesOwned, U!poolvars, Same, Held
  <1>4. QED
    BY <1>2, <1>3 DEF UsbInv

\* A setup step that fails marks the device failed and takes nothing from it
\* (usb_setup_new_device).
LEMMA SetupFailing ==
    ASSUME UsbInv, usetup # None, U!SetupFails, AddressesGiven'
    PROVE  UsbInv'
  <1> DEFINE d == usetup.dev
             v == udev[d]
  <1>1. /\ d \in UDevs /\ v \in UsbDevice /\ ~v.open /\ udev \in [UDevs -> UsbDevice]
        /\ \A r \in U!Roles \ {"control"} : v.pipe[r] = None
    BY DEF UsbInv, SetupOK
  <1>2. UNCHANGED U!poolvars /\ usetup' = None /\ udev' = [udev EXCEPT ![d].class = "failed"]
    BY DEF U!SetupFails, U!Dev, U!poolvars
  <1>3. /\ udev'[d] \in UsbDevice /\ Same(v, udev'[d])
        /\ \A e \in UDevs : e # d => udev'[e] = udev[e]
    BY <1>1, <1>2 DEF UsbDevice, UsbClasses, Same
  <1>4. udev' \in [UDevs -> UsbDevice]
    BY <1>1, <1>2, <1>3
  <1>5. DeviceOK(udev'[d])
    BY <1>1, <1>3 DEF DeviceOK, Same, Held, U!Roles
  <1>6. \A e \in UDevs : DeviceOK(udev'[e]) /\ Same(udev[e], udev'[e])
    BY <1>3, <1>5 DEF UsbInv, Same
  <1>7. SetupOK'
    BY <1>2 DEF SetupOK
  <1>8. QED
    BY <1>2, <1>4, <1>6, <1>7, PoolKept

\* Reading the first 8 bytes of the device descriptor.
LEMMA DescriptorRead ==
    ASSUME UsbInv, NEW step, NEW then, U!usb_get_device_descr(step, then)
    PROVE  UsbInv'
  <1>1. usetup # None /\ UNCHANGED <<ubus, ulost, unextaddr>>
    BY DEF U!usb_get_device_descr, U!At, U!SetupFails
  <1>2. AddressesGiven'
    BY <1>1 DEF UsbInv, AddressesGiven, U!AddressesDistinct
  <1>3. CASE U!SetupFails
    BY <1>1, <1>2, <1>3, SetupFailing
  <1>4. CASE U!Goto(then) /\ UNCHANGED <<uhcd, ustack, udev, unextaddr, U!poolvars>>
    <2>1. SetupOK' \/ usetup' = None
      BY <1>1, <1>4 DEF UsbInv, SetupOK, U!Goto
    <2>2. SetupOK'
      BY <2>1 DEF SetupOK
    <2>3. QED
      BY <1>2, <1>4, <2>2, PoolKept DEF UsbInv, Same
  <1>5. QED
    BY <1>3, <1>4 DEF U!usb_get_device_descr

\* The device takes the next address.
LEMMA AddressTaken ==
    ASSUME UsbInv, NEW d \in UDevs, ubus' = [ubus EXCEPT ![d] = unextaddr],
           \/ unextaddr' = unextaddr + 1 /\ UNCHANGED ulost
           \/ ulost' = TRUE /\ UNCHANGED unextaddr
    PROVE  AddressesGiven'
  <1>1. /\ ubus \in [UDevs -> Nat] /\ unextaddr \in Nat \ {0} /\ ulost \in BOOLEAN
        /\ ~ulost => \A e \in UDevs : ubus[e] < unextaddr
        /\ U!AddressesDistinct
    BY DEF UsbInv, AddressesGiven
  <1>2. ubus' \in [UDevs -> Nat] /\ unextaddr' \in Nat \ {0} /\ ulost' \in BOOLEAN
    <2>1. ulost' \in BOOLEAN
      BY <1>1, Zenon
    <2>2. QED
      BY <1>1, <2>1
  <1>3. CASE ulost'
    BY <1>2, <1>3 DEF AddressesGiven, U!AddressesDistinct
  <1>4. CASE ~ulost'
    <2>1. ~ulost /\ unextaddr' = unextaddr + 1
      BY <1>4
    <2>2. \A e \in UDevs : ubus'[e] = IF e = d THEN unextaddr ELSE ubus[e]
      BY <1>1
    <2>3. \A e \in UDevs : ubus'[e] < unextaddr' /\ (e # d => ubus'[e] # unextaddr)
      BY <1>1, <2>1, <2>2
    <2>4. \A c, e \in UDevs : c # e /\ ubus'[c] # 0 => ubus'[c] # ubus'[e]
      BY <1>1, <2>1, <2>2, <2>3 DEF U!AddressesDistinct
    <2>5. QED
      BY <1>2, <2>3, <2>4 DEF AddressesGiven, U!AddressesDistinct
  <1>5. QED
    BY <1>3, <1>4

\* The device being set up gets an address or a class.
LEMMA SetupGoesOn ==
    ASSUME UsbInv, usetup # None, UNCHANGED U!poolvars, AddressesGiven', NEW step, U!Goto(step),
           NEW u \in UsbDevice, Same(udev[usetup.dev], u), udev' = [udev EXCEPT ![usetup.dev] = u]
    PROVE  UsbInv'
  <1> DEFINE d == usetup.dev
             v == udev[d]
  <1>1. /\ d \in UDevs /\ v \in UsbDevice /\ ~v.open /\ udev \in [UDevs -> UsbDevice]
        /\ \A r \in U!Roles \ {"control"} : v.pipe[r] = None
    BY DEF UsbInv, SetupOK
  <1>2. udev' \in [UDevs -> UsbDevice] /\ udev'[d] = u /\ \A e \in UDevs : e # d => udev'[e] = udev[e]
    BY <1>1
  <1>3. DeviceOK(u)
    BY <1>1 DEF DeviceOK, Same, Held, U!Roles
  <1>4. \A e \in UDevs : DeviceOK(udev'[e]) /\ Same(udev[e], udev'[e])
    BY <1>2, <1>3 DEF UsbInv, Same
  <1>5. SetupOK'
    <2>1. DOMAIN usetup' = {"dev", "step"} /\ usetup'.dev = d
      BY DEF UsbInv, SetupOK, U!Goto
    <2>2. QED
      BY <1>1, <1>2, <2>1 DEF SetupOK, Same
  <1>6. QED
    BY <1>2, <1>4, <1>5, PoolKept

\* usb_set_address, and the address command of xhci: an address no device
\* answers to.
LEMMA AddressSet ==
    ASSUME UsbInv, U!usb_set_address \/ U!XhciAddress
    PROVE  UsbInv'
  <1> DEFINE d == usetup.dev
  <1>1. usetup # None /\ d \in UDevs /\ udev[d] \in UsbDevice /\ udev \in [UDevs -> UsbDevice]
    BY DEF UsbInv, SetupOK, U!usb_set_address, U!XhciAddress, U!At
  <1>2. CASE /\ udev' = [udev EXCEPT ![d].addr = unextaddr] /\ ubus' = [ubus EXCEPT ![d] = unextaddr]
             /\ unextaddr' = unextaddr + 1 /\ U!Goto("descr") /\ UNCHANGED <<ulost, U!poolvars>>
    <2> DEFINE u == [udev[d] EXCEPT !.addr = unextaddr]
    <2>1. u \in UsbDevice /\ Same(udev[d], u) /\ udev' = [udev EXCEPT ![d] = u]
      BY <1>1, <1>2 DEF UsbInv, AddressesGiven, UsbDevice, Same
    <2>2. AddressesGiven'
      BY <1>1, <1>2, AddressTaken
    <2> HIDE DEF u
    <2>3. QED
      BY <1>1, <1>2, <2>1, <2>2, SetupGoesOn
  <1>3. CASE U!SetupFails /\ UNCHANGED <<ubus, ulost>>
    <2>1. AddressesGiven'
      BY <1>3 DEF UsbInv, AddressesGiven, U!AddressesDistinct, U!SetupFails
    <2>2. QED
      BY <1>1, <1>3, <2>1, SetupFailing
  <1>4. CASE U!SetupFails /\ ubus' = [ubus EXCEPT ![d] = unextaddr] /\ ulost' = TRUE
    <2>1. AddressesGiven'
      BY <1>1, <1>4, AddressTaken DEF U!SetupFails
    <2>2. QED
      BY <1>1, <1>4, <2>1, SetupFailing
  <1>5. QED
    BY <1>2, <1>3, <1>4 DEF U!usb_set_address, U!XhciAddress, U!AddressAfter, U!Dev

\* Reading the full descriptor, the configuration and the class of the device.
LEMMA ClassRead ==
    ASSUME UsbInv, U!usb_handle_device
    PROVE  UsbInv'
  <1> DEFINE d == usetup.dev
  <1>1. usetup # None /\ d \in UDevs /\ udev[d] \in UsbDevice /\ udev \in [UDevs -> UsbDevice]
    BY DEF UsbInv, SetupOK, U!usb_handle_device, U!At
  <1>2. PICK c \in {"keyboard", "mouse", "disk", "hub", "other"} :
             udev' = [udev EXCEPT ![d].class = c] /\ U!Goto("populate")
    BY DEF U!usb_handle_device, U!Dev
  <1> DEFINE u == [udev[d] EXCEPT !.class = c]
  <1>3. u \in UsbDevice /\ Same(udev[d], u) /\ udev' = [udev EXCEPT ![d] = u]
    BY <1>1, <1>2 DEF UsbDevice, UsbClasses, Same
  <1> HIDE DEF u
  <1>4. UNCHANGED <<ubus, ulost, unextaddr, U!poolvars>>
    BY DEF U!usb_handle_device
  <1>5. AddressesGiven'
    BY <1>4 DEF UsbInv, AddressesGiven, U!AddressesDistinct
  <1>6. QED
    BY <1>1, <1>2, <1>3, <1>4, <1>5, SetupGoesOn

\* The last step of a setup.
LEMMA Populated ==
    ASSUME UsbInv, U!usb_slof_populate_new_device
    PROVE  UsbInv'
  <1> DEFINE d == usetup.dev
  <1>1. /\ usetup # None /\ d \in UDevs /\ udev[d] \in UsbDevice /\ udev \in [UDevs -> UsbDevice]
        /\ UNCHANGED <<ubus, ulost, unextaddr, U!poolvars>> /\ usetup' = None
    BY DEF UsbInv, SetupOK, U!usb_slof_populate_new_device, U!At
  <1>2. AddressesGiven' /\ SetupOK'
    BY <1>1 DEF UsbInv, AddressesGiven, U!AddressesDistinct, SetupOK
  <1>3. CASE UNCHANGED udev
    BY <1>1, <1>2, <1>3, PoolKept DEF UsbInv, Same
  <1>4. CASE udev' = [udev EXCEPT ![d].class = "failed"]
    <2>1. /\ udev'[d] \in UsbDevice /\ Same(udev[d], udev'[d]) /\ udev' \in [UDevs -> UsbDevice]
          /\ \A e \in UDevs : e # d => udev'[e] = udev[e]
      BY <1>1, <1>4 DEF UsbDevice, UsbClasses, Same
    <2>2. DeviceOK(udev'[d])
      BY <1>1, <2>1 DEF UsbInv, SetupOK, DeviceOK, Same, Held, U!Roles
    <2>3. \A e \in UDevs : DeviceOK(udev'[e]) /\ Same(udev[e], udev'[e])
      BY <2>1, <2>2 DEF UsbInv, Same
    <2>4. QED
      BY <1>1, <1>2, <2>1, <2>3, PoolKept
  <1>5. QED
    BY <1>3, <1>4 DEF U!usb_slof_populate_new_device, U!Dev

-----------------------------------------------------------------------------
\* What the others hold after a pipe was given to d, or taken from it.
OthersKeep(q, d) ==
    \A e \in UDevs, r \in U!Roles :
        (e # d /\ Held(udev[e], r) /\ udev[e].pipe[r] # None) => q.owner[udev[e].pipe[r]] = e
OwnKept(q, d, R) ==
    \A r \in R : Held(udev[d], r) /\ udev[d].pipe[r] # None => q.owner[udev[d].pipe[r]] = d
OwnedBy(q, d, u) == \A r \in U!Roles : Held(u, r) /\ u.pipe[r] # None => q.owner[u.pipe[r]] = d

\* A device changes, and with it the pools: what the others hold stays theirs.
LEMMA DeviceChanges ==
    ASSUME UsbInv, NEW d \in UDevs, NEW q, PoolOK(q), U!SetPool(q), NEW u, DeviceOK(u),
           udev' = [udev EXCEPT ![d] = u],
           OthersKeep(q, d), OwnedBy(q, d, u), SetupOK', UNCHANGED <<ubus, ulost, unextaddr>>
    PROVE  UsbInv'
  <1>1. U!Pool' = q /\ uowner' = q.owner
    BY PoolSet
  <1>2. u \in UsbDevice /\ udev \in [UDevs -> UsbDevice]
    BY DEF DeviceOK, UsbInv
  <1>3. /\ udev' \in [UDevs -> UsbDevice] /\ udev'[d] = u
        /\ \A e \in UDevs : e # d => udev'[e] = udev[e]
    BY <1>2
  <1>4. \A e \in UDevs : DeviceOK(udev'[e])
    BY <1>3 DEF UsbInv
  <1>5. PipesOwned'
    BY <1>1, <1>3 DEF PipesOwned, OthersKeep, OwnedBy
  <1>6. AddressesGiven'
    BY DEF UsbInv, AddressesGiven, U!AddressesDistinct
  <1>7. PoolOK(U!Pool')
    BY <1>1
  <1>8. QED
    BY <1>3, <1>4, <1>5, <1>6, <1>7 DEF UsbInv

\* What a device holds is a pipe or nothing.
LEMMA HeldTyped ==
    ASSUME UsbInv, NEW e \in UDevs, NEW r \in U!Roles
    PROVE  udev[e].pipe[r] \in SomePipe
  BY DEF UsbInv, UsbDevice

\* get_pipe for device d takes nothing from the others and nothing from d.
LEMMA KeepAfterGet ==
    ASSUME UsbInv, NEW d \in UDevs, NEW q, PoolOK(q), OthersKeep(q, d), OwnKept(q, d, U!Roles)
    PROVE  LET g == U!usb_get_pipe(q, d) IN
           /\ PoolOK(g.pool) /\ g.pipe \in SomePipe
           /\ OthersKeep(g.pool, d) /\ OwnKept(g.pool, d, U!Roles)
           /\ g.pipe # None => g.pool.owner[g.pipe] = d /\ q.owner[g.pipe] = None
           /\ \A x \in U!Pipes : q.owner[x] = d => g.pool.owner[x] = d
  <1> DEFINE g == U!usb_get_pipe(q, d)
  <1>1. (g.pipe = None /\ g.pool = q) \/ Given(q, g.pool, g.pipe, d)
    BY GetsPipe
  <1> HIDE DEF g
  <1>2. q.owner \in [U!Pipes -> UDevs \cup {None}]
    BY PoolFields DEF PoolOK
  <1>3. CASE g.pipe = None /\ g.pool = q
    BY <1>3 DEF SomePipe, g
  <1>4. CASE Given(q, g.pool, g.pipe, d)
    <2>1. /\ PoolOK(g.pool) /\ g.pipe \in U!Pipes /\ q.owner[g.pipe] = None /\ d # None
          /\ g.pool.owner[g.pipe] = d
          /\ \A x \in U!Pipes : x # g.pipe => g.pool.owner[x] = q.owner[x]
      BY <1>2, <1>4, UsbConstants DEF Given, UCoreConstants
    <2>2. \A x \in U!Pipes : \A e \in UDevs : q.owner[x] = e => g.pool.owner[x] = e
      BY <2>1, UsbConstants DEF UCoreConstants
    <2>3. \A e \in UDevs : \A r \in U!Roles : udev[e].pipe[r] # None => udev[e].pipe[r] \in U!Pipes
      BY HeldTyped DEF SomePipe
    <2>4. OthersKeep(g.pool, d) /\ OwnKept(g.pool, d, U!Roles)
      BY <2>2, <2>3 DEF OthersKeep, OwnKept
    <2>5. QED
      BY <2>1, <2>2, <2>4 DEF SomePipe, g
  <1>5. QED
    BY <1>1, <1>3, <1>4

\* put_pipe of a pipe that d holds takes nothing from the others.
LEMMA KeepAfterPut ==
    ASSUME UsbInv, NEW d \in UDevs, NEW q, PoolOK(q), OthersKeep(q, d),
           NEW p \in SomePipe, p # None => q.owner[p] = d
    PROVE  LET r == U!usb_put_pipe(q, p) IN
           /\ PoolOK(r) /\ OthersKeep(r, d)
           /\ \A x \in U!Pipes : x # p => r.owner[x] = q.owner[x]
  <1> DEFINE r == U!usb_put_pipe(q, p)
  <1>1. PoolOK(r) /\ \A x \in U!Pipes : r.owner[x] = IF x = p THEN None ELSE q.owner[x]
    BY PutsPipe
  <1> HIDE DEF r
  <1>2. \A e \in UDevs : \A s \in U!Roles : udev[e].pipe[s] # None => udev[e].pipe[s] \in U!Pipes
    BY HeldTyped DEF SomePipe
  <1>3. OthersKeep(r, d)
    BY <1>1, <1>2 DEF OthersKeep
  <1>4. QED
    BY <1>1, <1>3 DEF r

\* Before a step every device holds its own.
LEMMA KeptNow ==
    ASSUME UsbInv, NEW d \in UDevs
    PROVE  PoolOK(U!Pool) /\ OthersKeep(U!Pool, d) /\ OwnKept(U!Pool, d, U!Roles)
  <1>1. U!Pool.owner = uowner
    BY DEF U!Pool
  <1>2. QED
    BY <1>1 DEF UsbInv, PipesOwned, OthersKeep, OwnKept

\* A device found on a port gets its control pipe (usb_devpool_get, get_pipe).
LEMMA SetupStarts ==
    ASSUME UsbInv, NEW d \in UDevs, U!StartSetup(d)
    PROVE  UsbInv'
  <1> DEFINE g == U!usb_get_pipe(U!Pool, d)
             u == [U!Blank EXCEPT !.class = "new", !.pipe["control"] = g.pipe]
  <1>1. PoolOK(U!Pool) /\ U!Pool.owner = uowner
    BY DEF UsbInv, U!Pool
  <1>2. \/ g.pipe = None /\ g.pool = U!Pool
        \/ Given(U!Pool, g.pool, g.pipe, d)
    BY <1>1, GetsPipe
  <1>3. /\ udev' = [udev EXCEPT ![d] = u] /\ U!SetPool(g.pool)
        /\ usetup' = [dev |-> d, step |-> "descr8"] /\ UNCHANGED <<ubus, ulost, unextaddr>>
    BY DEF U!StartSetup
  <1> HIDE DEF g
  <1>4. g.pipe \in SomePipe /\ PoolOK(g.pool)
    BY <1>1, <1>2 DEF Given, SomePipe
  <1>5. /\ u \in UsbDevice /\ u.class = "new" /\ ~u.open /\ u.pipe["control"] = g.pipe
        /\ \A r \in U!Roles \ {"control"} : u.pipe[r] = None
    BY <1>4 DEF UsbDevice, UsbClasses, U!Blank, U!Roles, SomePipe
  <1> HIDE DEF u
  <1>6. DeviceOK(u)
    BY <1>5 DEF DeviceOK, Held, U!Roles
  <1>7. OthersKeep(g.pool, d)
    BY KeptNow, KeepAfterGet DEF g
  <1>8. OwnedBy(g.pool, d, u)
    <2>1. uowner \in [U!Pipes -> UDevs \cup {None}]
      BY <1>1, PoolFields DEF PoolOK
    <2>2. g.pipe # None => g.pool.owner[g.pipe] = d
      BY <1>1, <1>2, <2>1 DEF Given
    <2>3. QED
      BY <1>5, <2>2 DEF Held, OwnedBy
  <1>9. SetupOK'
    <2>1. udev'[d] = u
      BY <1>3 DEF UsbInv
    <2>2. DOMAIN usetup' = {"dev", "step"} /\ usetup'.dev = d
      BY <1>3
    <2>3. QED
      BY <1>5, <2>1, <2>2 DEF SetupOK
  <1>10. QED
    BY <1>3, <1>4, <1>6, <1>7, <1>8, <1>9, DeviceChanges

\* usb_hid_init: one more pipe, different from the control pipe.
LEMMA KeyboardOpened ==
    ASSUME UsbInv, NEW d \in UDevs, U!usb_hid_init(d)
    PROVE  UsbInv'
  <1> DEFINE q == U!Pool
             g == U!usb_get_pipe(q, d)
             v == udev[d]
             u == [v EXCEPT !.open = TRUE, !.pipe["intr"] = g.pipe]
  <1>1. /\ usetup = None /\ v.class = "keyboard" /\ ~v.open /\ U!SetPool(g.pool)
        /\ UNCHANGED <<usetup, ubus, ulost, unextaddr>>
        /\ udev' = [udev EXCEPT ![d].open = TRUE, ![d].pipe["intr"] = g.pipe]
    BY DEF U!usb_hid_init, U!Idle
  <1>2. PoolOK(q) /\ OthersKeep(q, d) /\ OwnKept(q, d, U!Roles)
    BY KeptNow
  <1>3. /\ PoolOK(g.pool) /\ g.pipe \in SomePipe /\ OthersKeep(g.pool, d)
        /\ g.pipe # None => g.pool.owner[g.pipe] = d /\ q.owner[g.pipe] = None
        /\ \A x \in U!Pipes : q.owner[x] = d => g.pool.owner[x] = d
    BY <1>2, KeepAfterGet
  <1> HIDE DEF g, q
  <1>4. v \in UsbDevice /\ DeviceOK(v) /\ udev \in [UDevs -> UsbDevice]
    BY DEF UsbInv
  <1>5. udev' = [udev EXCEPT ![d] = u]
    BY <1>1, <1>4 DEF UsbDevice
  <1>6. /\ u \in UsbDevice /\ u.class = v.class /\ u.open /\ u.pipe["intr"] = g.pipe
        /\ \A r \in U!Roles : r # "intr" => u.pipe[r] = v.pipe[r]
    BY <1>3, <1>4 DEF UsbDevice, U!Roles
  <1> HIDE DEF u
  <1>7. v.pipe["bulk_in"] = None /\ v.pipe["bulk_out"] = None /\ v.pipe["control"] \in SomePipe
        /\ (v.pipe["control"] # None => q.owner[v.pipe["control"]] = d)
    BY <1>1, <1>2, <1>4, HeldTyped DEF DeviceOK, OwnKept, Held, U!Roles
  <1>8. v.pipe["control"] = g.pipe => g.pipe = None
    BY <1>3, <1>7, UsbConstants DEF UCoreConstants
  <1>9. DeviceOK(u)
    BY <1>1, <1>6, <1>7, <1>8 DEF DeviceOK, U!Roles
  <1>10. OwnedBy(g.pool, d, u)
    BY <1>3, <1>6, <1>7 DEF OwnedBy, U!Roles, SomePipe
  <1>11. SetupOK'
    BY <1>1 DEF SetupOK
  <1>12. QED
    BY <1>1, <1>3, <1>5, <1>9, <1>10, <1>11, DeviceChanges

\* usb_hid_exit returns it.
LEMMA KeyboardClosed ==
    ASSUME UsbInv, NEW d \in UDevs, U!usb_hid_exit(d)
    PROVE  UsbInv'
  <1> DEFINE q == U!Pool
             v == udev[d]
             p == v.pipe["intr"]
             t == U!usb_put_pipe(q, p)
             u == [v EXCEPT !.open = FALSE, !.pipe["intr"] = None]
  <1>1. /\ usetup = None /\ v.class = "keyboard" /\ v.open /\ U!SetPool(t)
        /\ UNCHANGED <<usetup, ubus, ulost, unextaddr>>
        /\ udev' = [udev EXCEPT ![d].open = FALSE, ![d].pipe["intr"] = None]
    BY DEF U!usb_hid_exit, U!Idle
  <1>2. PoolOK(q) /\ OthersKeep(q, d) /\ OwnKept(q, d, U!Roles)
    BY KeptNow
  <1>3. p \in SomePipe /\ (p # None => q.owner[p] = d)
    BY <1>1, <1>2, HeldTyped DEF OwnKept, Held, U!Roles
  <1>4. PoolOK(t) /\ OthersKeep(t, d) /\ \A x \in U!Pipes : x # p => t.owner[x] = q.owner[x]
    BY <1>2, <1>3, KeepAfterPut
  <1> HIDE DEF t, q
  <1>5. v \in UsbDevice /\ DeviceOK(v) /\ udev \in [UDevs -> UsbDevice]
    BY DEF UsbInv
  <1>6. udev' = [udev EXCEPT ![d] = u]
    BY <1>1, <1>5 DEF UsbDevice
  <1>7. /\ u \in UsbDevice /\ u.class = v.class /\ ~u.open /\ u.pipe["intr"] = None
        /\ \A r \in U!Roles : r # "intr" => u.pipe[r] = v.pipe[r]
    BY <1>5 DEF UsbDevice, U!Roles, SomePipe
  <1> HIDE DEF u
  <1>8. /\ v.pipe["control"] \in SomePipe /\ (v.pipe["control"] # None => q.owner[v.pipe["control"]] = d)
        /\ (v.pipe["control"] = p => p = None) /\ v.pipe["bulk_in"] = None /\ v.pipe["bulk_out"] = None
    BY <1>1, <1>2, <1>5, HeldTyped DEF DeviceOK, OwnKept, Held, U!Roles
  <1>9. DeviceOK(u)
    BY <1>1, <1>7, <1>8 DEF DeviceOK, Held, U!Roles
  <1>10. OwnedBy(t, d, u)
    BY <1>4, <1>7, <1>8 DEF OwnedBy, Held, U!Roles, SomePipe
  <1>11. SetupOK'
    BY <1>1 DEF SetupOK
  <1>12. QED
    BY <1>1, <1>4, <1>6, <1>9, <1>10, <1>11, DeviceChanges

\* usb_msc_init: two more pipes, different from each other and the control pipe.
LEMMA DiskOpened ==
    ASSUME UsbInv, NEW d \in UDevs, U!usb_msc_init(d)
    PROVE  UsbInv'
  <1> DEFINE q == U!Pool
             i == U!usb_get_pipe(q, d)
             o == U!usb_get_pipe(i.pool, d)
             v == udev[d]
             u == [v EXCEPT !.open = TRUE, !.pipe["bulk_in"] = i.pipe, !.pipe["bulk_out"] = o.pipe]
  <1>1. /\ usetup = None /\ v.class = "disk" /\ ~v.open /\ U!SetPool(o.pool)
        /\ UNCHANGED <<usetup, ubus, ulost, unextaddr>>
        /\ udev' = [udev EXCEPT ![d].open = TRUE, ![d].pipe["bulk_in"] = i.pipe, ![d].pipe["bulk_out"] = o.pipe]
    BY DEF U!usb_msc_init, U!Idle
  <1>2. PoolOK(q) /\ OthersKeep(q, d) /\ OwnKept(q, d, U!Roles)
    BY KeptNow
  <1>3. /\ PoolOK(i.pool) /\ i.pipe \in SomePipe /\ OthersKeep(i.pool, d) /\ OwnKept(i.pool, d, U!Roles)
        /\ i.pipe # None => i.pool.owner[i.pipe] = d /\ q.owner[i.pipe] = None
        /\ \A x \in U!Pipes : q.owner[x] = d => i.pool.owner[x] = d
    BY <1>2, KeepAfterGet
  <1>4. /\ PoolOK(o.pool) /\ o.pipe \in SomePipe /\ OthersKeep(o.pool, d)
        /\ o.pipe # None => o.pool.owner[o.pipe] = d /\ i.pool.owner[o.pipe] = None
        /\ \A x \in U!Pipes : i.pool.owner[x] = d => o.pool.owner[x] = d
    BY <1>3, KeepAfterGet
  <1> HIDE DEF i, o, q
  <1>5. v \in UsbDevice /\ DeviceOK(v) /\ udev \in [UDevs -> UsbDevice]
    BY DEF UsbInv
  <1>6. udev' = [udev EXCEPT ![d] = u]
    BY <1>1, <1>5 DEF UsbDevice
  <1>7. /\ u \in UsbDevice /\ u.class = v.class /\ u.open /\ u.pipe["bulk_in"] = i.pipe /\ u.pipe["bulk_out"] = o.pipe
        /\ \A r \in U!Roles : r \notin {"bulk_in", "bulk_out"} => u.pipe[r] = v.pipe[r]
    BY <1>3, <1>4, <1>5 DEF UsbDevice, U!Roles
  <1> HIDE DEF u
  <1>8. v.pipe["intr"] = None /\ v.pipe["control"] \in SomePipe
        /\ (v.pipe["control"] # None => q.owner[v.pipe["control"]] = d)
    BY <1>1, <1>2, <1>5, HeldTyped DEF DeviceOK, OwnKept, Held, U!Roles
  <1>9. /\ v.pipe["control"] = i.pipe => i.pipe = None
        /\ v.pipe["control"] = o.pipe => o.pipe = None
        /\ i.pipe = o.pipe => i.pipe = None
    BY <1>3, <1>4, <1>8, UsbConstants DEF UCoreConstants, SomePipe
  <1>10. DeviceOK(u)
    BY <1>1, <1>7, <1>8, <1>9 DEF DeviceOK, U!Roles
  <1>11. OwnedBy(o.pool, d, u)
    BY <1>3, <1>4, <1>7, <1>8 DEF OwnedBy, U!Roles, SomePipe
  <1>12. SetupOK'
    BY <1>1 DEF SetupOK
  <1>13. QED
    BY <1>1, <1>4, <1>6, <1>10, <1>11, <1>12, DeviceChanges

\* usb_msc_exit returns both, which are two.
LEMMA DiskClosed ==
    ASSUME UsbInv, NEW d \in UDevs, U!usb_msc_exit(d)
    PROVE  UsbInv'
  <1> DEFINE q == U!Pool
             v == udev[d]
             i == v.pipe["bulk_in"]
             o == v.pipe["bulk_out"]
             s == U!usb_put_pipe(q, i)
             t == U!usb_put_pipe(s, o)
             u == [v EXCEPT !.open = FALSE]
  <1>1. /\ usetup = None /\ v.class = "disk" /\ v.open /\ U!SetPool(t)
        /\ UNCHANGED <<usetup, ubus, ulost, unextaddr>>
        /\ udev' = [udev EXCEPT ![d].open = FALSE]
    BY DEF U!usb_msc_exit, U!Idle
  <1>2. PoolOK(q) /\ OthersKeep(q, d) /\ OwnKept(q, d, U!Roles)
    BY KeptNow
  <1>3. v \in UsbDevice /\ DeviceOK(v) /\ udev \in [UDevs -> UsbDevice]
    BY DEF UsbInv
  <1>4. /\ i \in SomePipe /\ (i # None => q.owner[i] = d)
        /\ o \in SomePipe /\ (o # None => q.owner[o] = d) /\ (i = o => i = None)
    BY <1>1, <1>2, <1>3, HeldTyped DEF OwnKept, Held, U!Roles, DeviceOK
  <1>5. PoolOK(s) /\ OthersKeep(s, d) /\ \A x \in U!Pipes : x # i => s.owner[x] = q.owner[x]
    BY <1>2, <1>4, KeepAfterPut
  <1> HIDE DEF s
  <1>6. o # None => s.owner[o] = d
    BY <1>4, <1>5 DEF SomePipe
  <1>7. PoolOK(t) /\ OthersKeep(t, d) /\ \A x \in U!Pipes : x # o => t.owner[x] = s.owner[x]
    BY <1>4, <1>5, <1>6, KeepAfterPut
  <1> HIDE DEF t, q
  <1>8. udev' = [udev EXCEPT ![d] = u]
    BY <1>1, <1>3 DEF UsbDevice
  <1>9. u \in UsbDevice /\ u.class = v.class /\ ~u.open /\ u.pipe = v.pipe
    BY <1>3 DEF UsbDevice
  <1> HIDE DEF u
  <1>10. /\ v.pipe["control"] \in SomePipe /\ (v.pipe["control"] # None => q.owner[v.pipe["control"]] = d)
         /\ (v.pipe["control"] = i => i = None) /\ (v.pipe["control"] = o => o = None) /\ v.pipe["intr"] = None
    BY <1>1, <1>2, <1>3, HeldTyped DEF DeviceOK, OwnKept, Held, U!Roles
  <1>11. DeviceOK(u)
    BY <1>1, <1>9, <1>10 DEF DeviceOK, Held, U!Roles
  <1>12. OwnedBy(t, d, u)
    BY <1>5, <1>7, <1>9, <1>10 DEF OwnedBy, Held, U!Roles, SomePipe
  <1>13. SetupOK'
    BY <1>1 DEF SetupOK
  <1>14. QED
    BY <1>1, <1>7, <1>8, <1>11, <1>12, <1>13, DeviceChanges

\* Every step of the USB core keeps the invariant.
LEMMA UsbStep == UsbInv /\ [U!Next]_uvars => UsbInv'
  <1> SUFFICES ASSUME UsbInv, [U!Next]_uvars PROVE UsbInv'
    OBVIOUS
  <1>1. ASSUME UNCHANGED <<usetup, udev, ubus, ulost, unextaddr, U!poolvars>> PROVE UsbInv'
    <2>1. SetupOK' /\ AddressesGiven'
      BY <1>1 DEF UsbInv, SetupOK, AddressesGiven, U!AddressesDistinct
    <2>2. QED
      BY <1>1, <2>1, PoolKept DEF UsbInv, Same
  <1>2. CASE UNCHANGED uvars
    BY <1>1, <1>2 DEF uvars, U!poolvars
  <1>3. CASE U!DeviceFound
    <2>1. PICK d \in UDevs : U!StartSetup(d)
      BY <1>3 DEF U!DeviceFound, U!ohci_hub_check_ports, U!ehci_hub_check_ports, U!xhci_port_scan, U!hub_check_port
    <2>2. QED
      BY <2>1, SetupStarts
  <1>4. CASE U!PortEmpty \/ U!ScanDone
    BY <1>1, <1>4 DEF U!PortEmpty, U!ScanDone, U!poolvars
  <1>5. CASE U!usb_setup_new_device
    BY <1>5, DescriptorRead, AddressSet, ClassRead, Populated
       DEF U!usb_setup_new_device, U!usb_get_config_descr, U!usb_set_config
  <1>6. CASE U!XhciAddress
    BY <1>6, AddressSet
  <1>7. CASE \E d \in UDevs : U!usb_hid_init(d) \/ U!usb_hid_exit(d) \/ U!usb_msc_init(d) \/ U!usb_msc_exit(d)
    BY <1>7, KeyboardOpened, KeyboardClosed, DiskOpened, DiskClosed
  <1>8. QED
    BY <1>2, <1>3, <1>4, <1>5, <1>6, <1>7 DEF U!Next

\* Whatever the number of devices, pools and pipes in a pool: no two devices answer
\* to one address unless the answer to a SET_ADDRESS was lost (usb_set_address), the
\* free list holds every pipe nobody uses exactly once and ends at its end pointer,
\* and no pipe an open device holds belongs to another (get_pipe, put_pipe), through
\* any order of scans, failed setups, and opening and closing of keyboards and disks.
THEOREM UsbDevicesApart == MCSpec => []DevicesApart
  <1>1. MCInit => UsbInv
    BY UsbInitially DEF MCInit
  <1>2. UsbInv /\ [MCNext]_<<part, vars, nicvars, usbvars>> => UsbInv'
    <2> SUFFICES ASSUME UsbInv, [MCNext]_<<part, vars, nicvars, usbvars>> PROVE UsbInv'
      OBVIOUS
    <2>1. [U!Next]_uvars
      BY DEF MCNext, usbvars
    <2>2. QED
      BY <2>1, UsbStep
  <1>3. UsbInv => DevicesApart
    BY PipesSoundFrom DEF DevicesApart, UsbInv, AddressesGiven
  <1>4. QED
    BY <1>1, <1>2, <1>3, PTL DEF MCSpec

-----------------------------------------------------------------------------
(* The USB host controllers: the keyboard and the transfers of OHCI.       *)

(* The inductive invariant of the keyboard's endpoint in UsbOhci. *)

OData == OReports \cup {None}
OKeyboards == [open : BOOLEAN, head : 0 .. (ORing - 1), tail : 0 .. (ORing - 1),
               data : [0 .. (ORing - 1) -> OData]]

\* The reports u lie in the ring from the descriptor after the dummy on, and the
\* controller is at the descriptor after them.
OhciHolds(kb, u) ==
    LET a == Wrap(kb.tail + 1, ORing) IN
    /\ Len(u) < ORing /\ kb.head = Wrap(a + Len(u), ORing)
    /\ RingHolds(kb.data, a, u, ORing)

OhciKbInv == okb \in OKeyboards /\ ounread \in Seq(OData) /\ (okb.open => OhciHolds(okb, ounread))

\* The assumptions on the sizes of the OHCI rings.
LEMMA OhciConstants == ORing \in Nat \ {0, 1} /\ OTds \in Nat \ {0}
  BY UsbAssumption DEF O!ConstantsOK

\* An endpoint that is just set up holds no report.
LEMMA OhciOpened ==
    ASSUME okb' = [O!NoKeyboard EXCEPT !.open = TRUE, !.tail = ORing - 1], ounread' = <<>>
    PROVE  OhciKbInv'
  <1>1. /\ okb' = [open |-> TRUE, head |-> 0, tail |-> ORing - 1,
                   data |-> [i \in 0 .. (ORing - 1) |-> None]]
        /\ 0 \in 0 .. (ORing - 1) /\ ORing - 1 \in 0 .. (ORing - 1)
    <2>1. 0 \in 0 .. (ORing - 1) /\ ORing - 1 \in 0 .. (ORing - 1)
      BY OhciConstants
    <2>2. QED
      BY <2>1 DEF O!NoKeyboard
  <1>2. okb' \in OKeyboards
    BY <1>1 DEF OKeyboards, OData
  <1>3. Wrap(okb'.tail + 1, ORing) = 0 /\ okb'.head = Wrap(0 + 0, ORing)
    <2>1. okb'.tail = ORing - 1 /\ okb'.head = 0
      BY <1>1
    <2>2. Wrap((ORing - 1) + 1, ORing) = 0 /\ 0 = Wrap(0 + 0, ORing)
      BY OhciConstants DEF Wrap
    <2>3. QED
      BY <2>1, <2>2
  <1>4. OhciHolds(okb', ounread')
    BY <1>3, RingEmpty, OhciConstants DEF OhciHolds
  <1>5. QED
    BY <1>2, <1>4 DEF OhciKbInv

\* One that is given back.
LEMMA OhciClosed ==
    ASSUME okb' = O!NoKeyboard, ounread' = <<>>
    PROVE  OhciKbInv'
  <1>1. okb' = [open |-> FALSE, head |-> 0, tail |-> 0, data |-> [i \in 0 .. (ORing - 1) |-> None]]
        /\ 0 \in 0 .. (ORing - 1)
    BY OhciConstants DEF O!NoKeyboard
  <1>2. okb' \in OKeyboards /\ ~okb'.open
    BY <1>1 DEF OKeyboards, OData
  <1>3. QED
    BY <1>2 DEF OhciKbInv

\* ohci_poll_intr takes the oldest report, if there is one.
LEMMA OhciPolled ==
    ASSUME OhciKbInv, O!ohci_poll_intr
    PROVE  OhciKbInv'
  <1> DEFINE a == Wrap(okb.tail + 1, ORing)
             u == ounread
  <1>1. okb \in OKeyboards /\ u \in Seq(OData) /\ OhciHolds(okb, u) /\ okb.open /\ Len(u) \in Nat
    BY DEF OhciKbInv, O!ohci_poll_intr
  <1>2. okb.tail \in 0 .. (ORing - 1) /\ okb.head \in 0 .. (ORing - 1)
    BY <1>1 DEF OKeyboards
  <1>3. O!Oldest(okb.tail) = a /\ a \in 0 .. (ORing - 1)
    BY <1>2, OhciConstants, WrapNext DEF O!Oldest
  <1>4. /\ okb' = [okb EXCEPT !.tail = a] /\ a # okb.head
        /\ ounread' = IF u = <<>> THEN u ELSE Tail(u)
    BY <1>3 DEF O!ohci_poll_intr
  <1>5. /\ okb' \in OKeyboards /\ okb'.tail = a /\ okb'.head = okb.head /\ okb'.data = okb.data
    BY <1>1, <1>3, <1>4 DEF OKeyboards
  <1>6. Len(u) < ORing /\ okb.head = Wrap(a + Len(u), ORing) /\ RingHolds(okb.data, a, u, ORing)
    BY <1>1 DEF OhciHolds
  <1> HIDE DEF a
  <1>7. Len(u) # 0
    BY <1>3, <1>4, <1>6, OhciConstants DEF Wrap
  <1>8. u # <<>> /\ Len(Tail(u)) = Len(u) - 1 /\ Tail(u) \in Seq(OData) /\ ounread' = Tail(u)
    BY <1>1, <1>4, <1>7
  <1>9. RingHolds(okb.data, Wrap(a + 1, ORing), Tail(u), ORing)
    BY <1>1, <1>3, <1>6, <1>8, RingTail, OhciConstants
  <1>10. okb.head = Wrap(Wrap(a + 1, ORing) + (Len(u) - 1), ORing)
    <2>1. Len(u) - 1 \in 0 .. (ORing - 1)
      BY <1>1, <1>6, <1>7, OhciConstants
    <2>2. Wrap(Wrap(a + 1, ORing) + (Len(u) - 1), ORing) = Wrap(a + ((Len(u) - 1) + 1), ORing)
      BY <1>3, <2>1, WrapFromNext, OhciConstants
    <2>3. (Len(u) - 1) + 1 = Len(u)
      BY <1>1
    <2>4. QED
      BY <1>6, <2>2, <2>3
  <1>11. OhciHolds(okb', ounread')
    BY <1>1, <1>5, <1>6, <1>7, <1>8, <1>9, <1>10, OhciConstants DEF OhciHolds
  <1>12. QED
    BY <1>5, <1>8, <1>11 DEF OhciKbInv

\* The controller stores a report, unless it is at the dummy descriptor.
LEMMA OhciReported ==
    ASSUME OhciKbInv, NEW r \in OReports, O!RetireReport(r)
    PROVE  OhciKbInv'
  <1> DEFINE a == Wrap(okb.tail + 1, ORing)
             u == ounread
             h == okb.head
  <1>1. okb \in OKeyboards /\ u \in Seq(OData) /\ OhciHolds(okb, u) /\ okb.open /\ Len(u) \in Nat
    BY DEF OhciKbInv, O!RetireReport
  <1>2. okb.tail \in 0 .. (ORing - 1) /\ h \in 0 .. (ORing - 1) /\ okb.data \in [0 .. (ORing - 1) -> OData]
    BY <1>1 DEF OKeyboards
  <1>3. a \in 0 .. (ORing - 1) /\ Wrap(a + ORing - 1, ORing) = okb.tail
    BY <1>2, OhciConstants, WrapBack, WrapNext
  <1>4. Len(u) < ORing /\ h = Wrap(a + Len(u), ORing) /\ RingHolds(okb.data, a, u, ORing)
    BY <1>1 DEF OhciHolds
  <1>5. h # okb.tail /\ ounread' = Append(u, r)
        /\ okb' = [okb EXCEPT !.data = [@ EXCEPT ![h] = r], !.head = (@ + 1) % ORing]
    BY DEF O!RetireReport
  <1>6. (h + 1) % ORing = Wrap(h + 1, ORing) /\ Wrap(h + 1, ORing) \in 0 .. (ORing - 1)
    BY <1>2, WrapNext, OhciConstants
  <1>7. r \in OData /\ [okb.data EXCEPT ![h] = r] \in [0 .. (ORing - 1) -> OData]
    BY <1>2 DEF OData
  <1>8. /\ okb' \in OKeyboards /\ okb'.tail = okb.tail /\ okb'.head = Wrap(h + 1, ORing)
        /\ okb'.data = [okb.data EXCEPT ![h] = r]
    BY <1>1, <1>5, <1>6, <1>7 DEF OKeyboards
  <1> HIDE DEF a, h
  <1>9. Len(u) + 1 < ORing
    <2>1. ASSUME Len(u) = ORing - 1 PROVE FALSE
      <3>1. a + Len(u) = a + ORing - 1
        BY <1>3, <2>1, OhciConstants
      <3>2. QED
        BY <1>3, <1>4, <1>5, <3>1
    <2>2. QED
      BY <1>1, <1>4, <2>1, OhciConstants
  <1>10. Append(u, r) \in Seq(OData) /\ Len(Append(u, r)) = Len(u) + 1
    BY <1>1, <1>7
  <1>11. RingHolds([okb.data EXCEPT ![h] = r], a, Append(u, r), ORing)
    BY <1>1, <1>2, <1>3, <1>4, <1>7, RingAppend, OhciConstants
  <1>12. Wrap(h + 1, ORing) = Wrap(a + (Len(u) + 1), ORing)
    <2>1. Len(u) \in 0 .. (ORing - 1)
      BY <1>1, <1>4, OhciConstants
    <2>2. QED
      BY <1>3, <1>4, <2>1, WrapThenNext, OhciConstants
  <1>13. OhciHolds(okb', ounread')
    BY <1>5, <1>8, <1>9, <1>10, <1>11, <1>12 DEF OhciHolds, a
  <1>14. QED
    BY <1>5, <1>8, <1>10, <1>13 DEF OhciKbInv

\* Every step keeps the reports in order.
LEMMA OhciKbStep == OhciKbInv /\ [O!Next]_ovars => OhciKbInv'
  <1> SUFFICES ASSUME OhciKbInv, [O!Next]_ovars PROVE OhciKbInv'
    OBVIOUS
  <1>1. CASE UNCHANGED <<okb, ounread>>
    BY <1>1 DEF OhciKbInv
  <1>2. CASE O!ohci_exit
    BY <1>2, OhciClosed DEF O!ohci_exit
  <1>3. CASE O!ohci_get_pipe_intr
    BY <1>3, OhciOpened DEF O!ohci_get_pipe_intr
  <1>4. CASE O!ohci_put_pipe_intr
    BY <1>4, OhciClosed DEF O!ohci_put_pipe_intr
  <1>5. CASE O!ohci_init \/ O!WaitEnds \/ O!ohci_process_done_head \/ O!ClaimTimeout \/ O!WriteBack
    BY <1>1, <1>5 DEF O!ohci_init, O!WaitEnds, O!ohci_process_done_head, O!ClaimTimeout, O!WriteBack
  <1>6. ASSUME NEW n \in 1 .. OTds, O!ohci_send_ctrl(n) \/ O!ohci_transfer_bulk(n) PROVE OhciKbInv'
    BY <1>1, <1>6 DEF O!ohci_send_ctrl, O!ohci_transfer_bulk
  <1>7. ASSUME NEW cc \in {0, 1, 4}, O!RetireTd(cc) PROVE OhciKbInv'
    BY <1>1, <1>7 DEF O!RetireTd
  <1>8. CASE UNCHANGED ovars
    BY <1>1, <1>8 DEF ovars
  <1>9. QED
    BY <1>2, <1>3, <1>4, <1>5, <1>6, <1>7, <1>8, OhciPolled, OhciReported DEF O!Next

\* The invariant in the words of the property.
LEMMA OhciKbRight == OhciKbInv => O!ReportsInOrder
  <1> SUFFICES ASSUME OhciKbInv, okb.open PROVE O!ReportsInOrder
    BY DEF O!ReportsInOrder
  <1> DEFINE a == Wrap(okb.tail + 1, ORing)
             u == ounread
             t == okb.tail
  <1>1. okb \in OKeyboards /\ u \in Seq(OData) /\ OhciHolds(okb, u) /\ Len(u) \in Nat
    BY DEF OhciKbInv
  <1>2. t \in 0 .. (ORing - 1) /\ okb.head \in 0 .. (ORing - 1)
    BY <1>1 DEF OKeyboards
  <1>3. a \in 0 .. (ORing - 1)
    BY <1>2, OhciConstants, WrapNext
  <1>4. Len(u) < ORing /\ okb.head = Wrap(a + Len(u), ORing) /\ RingHolds(okb.data, a, u, ORing)
    BY <1>1 DEF OhciHolds
  <1>5. Len(u) = (okb.head + ORing - t - 1) % ORing
    <2>1. okb.head + ORing - t - 1 \in 0 .. (2 * ORing - 1)
      BY <1>2, OhciConstants
    <2>2. (okb.head + ORing - t - 1) % ORing = Wrap(okb.head + ORing - t - 1, ORing)
      BY <2>1, OhciConstants, WrapMod
    <2>3. Wrap(okb.head + ORing - t - 1, ORing) = Len(u)
      <3> DEFINE n == Len(u)
                 h == okb.head
      <3>1. n \in Nat /\ n < ORing /\ t \in 0 .. (ORing - 1) /\ h = Wrap(Wrap(t + 1, ORing) + n, ORing)
        BY <1>1, <1>2, <1>4
      <3> HIDE DEF n, h, t
      <3>2. Wrap(h + ORing - t - 1, ORing) = n
        BY <3>1, OhciConstants, SMTT(30) DEF Wrap
      <3>3. QED
        BY <3>2 DEF n, h
    <2>4. QED
      BY <2>2, <2>3
  <1>6. ASSUME NEW k \in DOMAIN u PROVE okb.data[(t + k) % ORing] = u[k]
    <2>1. k \in 1 .. Len(u) /\ k - 1 \in 0 .. (Len(u) - 1) /\ (k - 1) + 1 = k /\ k - 1 \in 0 .. (ORing - 1)
      BY <1>1, <1>4, OhciConstants
    <2>2. okb.data[Wrap(a + (k - 1), ORing)] = u[(k - 1) + 1]
      BY <1>4, <2>1 DEF RingHolds
    <2>3. Wrap(a + (k - 1), ORing) = Wrap(t + ((k - 1) + 1), ORing)
      BY <1>2, <2>1, WrapFromNext, OhciConstants
    <2>4. (t + k) % ORing = Wrap(t + k, ORing)
      <3>1. t + k \in 0 .. (2 * ORing - 1)
        BY <1>2, <1>4, <2>1, OhciConstants
      <3>2. QED
        BY <3>1, WrapMod, OhciConstants
    <2>5. QED
      BY <2>1, <2>2, <2>3, <2>4
  <1>7. QED
    BY <1>5, <1>6 DEF O!ReportsInOrder

\* The function f starts with a and goes on from each value with F.
Iterated(f, A, a, F) ==
    f \in [Nat -> A] /\ f[0] = a /\ \A n \in Nat : f[n + 1] = F[<<f[n], n + 1>>]

\* A function that is defined from its value one before, on values of A.
LEMMA Iterates ==
    ASSUME NEW A, NEW a \in A, NEW F \in [A \X Nat -> A]
    PROVE  \E f : Iterated(f, A, a, F)
  <1> DEFINE Upto(g, m) == /\ g \in [0 .. m -> A] /\ g[0] = a
                           /\ \A n \in 0 .. (m - 1) : g[n + 1] = F[<<g[n], n + 1>>]
  <1>1. \A m \in Nat : \E g : Upto(g, m)
    <2> DEFINE S == {m \in Nat : \E g : Upto(g, m)}
    <2>1. 0 \in S
      <3>1. Upto([i \in 0 .. 0 |-> a], 0)
        OBVIOUS
      <3>2. QED
        BY <3>1
    <2>2. ASSUME NEW m \in S PROVE m + 1 \in S
      <3>1. PICK g : Upto(g, m)
        OBVIOUS
      <3> DEFINE h == [i \in 0 .. (m + 1) |-> IF i <= m THEN g[i] ELSE F[<<g[m], m + 1>>]]
      <3>2. m \in Nat /\ g[m] \in A /\ F[<<g[m], m + 1>>] \in A
        BY <3>1
      <3>3. h \in [0 .. (m + 1) -> A] /\ h[0] = a
        BY <3>1, <3>2
      <3>4. ASSUME NEW n \in 0 .. ((m + 1) - 1) PROVE h[n + 1] = F[<<h[n], n + 1>>]
        <4>1. n \in 0 .. m /\ n + 1 \in 0 .. (m + 1) /\ n \in 0 .. (m + 1) /\ n <= m /\ h[n] = g[n]
          BY <3>2
        <4>2. CASE n = m
          <5>1. ~(n + 1 <= m) /\ n + 1 = m + 1
            BY <3>2, <4>2
          <5>2. QED
            BY <4>1, <4>2, <5>1
        <4>3. CASE n # m
          <5>1. n \in 0 .. (m - 1) /\ n + 1 <= m
            BY <3>2, <4>1, <4>3
          <5>2. h[n + 1] = g[n + 1]
            BY <4>1, <5>1
          <5>3. QED
            BY <3>1, <4>1, <5>1, <5>2
        <4>4. QED
          BY <4>2, <4>3
      <3> HIDE DEF h
      <3>5. Upto(h, m + 1)
        BY <3>2, <3>3, <3>4
      <3>6. m + 1 \in Nat
        BY <3>2
      <3> HIDE DEF Upto
      <3>7. QED
        BY <3>5, <3>6
    <2> HIDE DEF Upto
    <2>3. S = Nat
      BY <2>1, <2>2, Inductively
    <2>4. QED
      BY <2>3
  <1>2. ASSUME NEW m \in Nat, NEW k \in Nat, NEW g, NEW h, Upto(g, m), Upto(h, k)
        PROVE  \A n \in Nat : n <= m /\ n <= k => g[n] = h[n]
    <2> DEFINE S == {n \in Nat : n <= m /\ n <= k => g[n] = h[n]}
    <2>1. 0 \in S
      BY <1>2
    <2>2. ASSUME NEW n \in S PROVE n + 1 \in S
      <3>1. CASE n + 1 <= m /\ n + 1 <= k
        <4>1. n \in 0 .. (m - 1) /\ n \in 0 .. (k - 1) /\ g[n] = h[n]
          BY <3>1
        <4>2. g[n + 1] = F[<<g[n], n + 1>>] /\ h[n + 1] = F[<<h[n], n + 1>>]
          BY <1>2, <4>1
        <4>3. QED
          BY <4>1, <4>2
      <3>2. QED
        BY <3>1
    <2>3. S = Nat
      BY <2>1, <2>2, Inductively
    <2>4. QED
      BY <2>3
  <1> DEFINE G == [n \in Nat |-> (CHOOSE g : Upto(g, n))[n]]
             At(n) == CHOOSE g : Upto(g, n)
  <1>3. \A n \in Nat : Upto(At(n), n) /\ G[n] = At(n)[n]
    <2> HIDE DEF Upto
    <2>1. QED
      BY <1>1
  <1> HIDE DEF At, G
  <1>4. ASSUME NEW n \in Nat PROVE G[n + 1] = F[<<G[n], n + 1>>] /\ G[n] \in A
    <2>1. Upto(At(n + 1), n + 1) /\ Upto(At(n), n) /\ G[n] = At(n)[n] /\ G[n + 1] = At(n + 1)[n + 1]
      BY <1>3
    <2>2. At(n + 1)[n + 1] = F[<<At(n + 1)[n], n + 1>>] /\ At(n)[n] \in A
      <3>1. n \in 0 .. ((n + 1) - 1) /\ n \in 0 .. n
        OBVIOUS
      <3>2. QED
        BY <2>1, <3>1
    <2>3. At(n + 1)[n] = At(n)[n]
      <3> HIDE DEF Upto
      <3>1. n \in Nat /\ n <= n + 1 /\ n <= n /\ n + 1 \in Nat
        OBVIOUS
      <3>2. QED
        BY <1>2, <2>1, <3>1
    <2>4. QED
      BY <2>1, <2>2, <2>3
  <1>5. G[0] = a
    BY <1>3
  <1>6. G \in [Nat -> A]
    BY <1>4 DEF G
  <1>7. QED
    BY <1>4, <1>5, <1>6 DEF Iterated

(* The inductive invariant of the transfers in UsbOhci. *)

Tds == [own : BOOLEAN, cc : {0, 1, 4}]
OXfers == [bulk : BOOLEAN, n : Nat, retired : Nat, cc : {0, 1, 4}, count : Nat, ret : {0, 1}]

\* How many of the first n descriptors of q are the transfer's, and how many of all.
OwnTo(q, n) == {i \in 1 .. n : q[i].own}
OwnTds(q) == Cardinality(OwnTo(q, Len(q)))
\* One of the first n is the transfer's and says that it failed.
StallTo(q, n) == \E i \in 1 .. n : q[i].own /\ q[i].cc > 3

\* No descriptor is counted that was not retired: those claimed and those that wait
\* to be claimed are at most the retired ones.
OhciCounted ==
    OwnTds(oqueue) + OwnTds(ohcca) + (oxfer.n - oxfer.count) <= oxfer.retired

\* A failure is known, waits to be claimed, or is lost with its descriptor.
OhciFailureKept ==
    oxfer.cc > 3 =>
        \/ oxfer.ret = 0
        \/ StallTo(oqueue, Len(oqueue)) \/ StallTo(ohcca, Len(ohcca))
        \/ OwnTds(oqueue) + OwnTds(ohcca) + (oxfer.n - oxfer.count) < oxfer.retired

OhciTypes ==
    /\ oxfer \in OXfers /\ oxfer.count <= oxfer.n /\ oxfer.retired <= oxfer.n
    /\ oqueue \in Seq(Tds) /\ ohcca \in Seq(Tds) /\ owd \in BOOLEAN /\ olate \in BOOLEAN
    /\ ~owd => ohcca = <<>>
    /\ opc \notin {"wait", "claim"} => oxfer = O!NoXfer

OhciInv == OhciTypes /\ (~olate => OhciCounted /\ OhciFailureKept) /\ O!ResultRight

-----------------------------------------------------------------------------
\* How many descriptors of a transfer are on a list.
LEMMA OwnToFinite ==
    ASSUME NEW q, NEW n \in Nat
    PROVE  IsFiniteSet(OwnTo(q, n)) /\ Cardinality(OwnTo(q, n)) \in Nat /\ Cardinality(OwnTo(q, n)) <= n
  <1>1. IsFiniteSet(1 .. n) /\ Cardinality(1 .. n) = n
    BY FS_Interval
  <1>2. OwnTo(q, n) \in SUBSET (1 .. n)
    BY DEF OwnTo
  <1>3. QED
    BY <1>1, <1>2, FS_Subset, FS_CardinalityType

\* One descriptor more.
LEMMA OwnToNext ==
    ASSUME NEW q, NEW n \in Nat, q[n + 1].own \in BOOLEAN
    PROVE  Cardinality(OwnTo(q, n + 1)) = Cardinality(OwnTo(q, n)) + (IF q[n + 1].own THEN 1 ELSE 0)
  <1>1. IsFiniteSet(OwnTo(q, n)) /\ Cardinality(OwnTo(q, n)) \in Nat
    BY OwnToFinite
  <1>2. n + 1 \notin OwnTo(q, n)
    BY DEF OwnTo
  <1>3. CASE q[n + 1].own
    <2>1. OwnTo(q, n + 1) = OwnTo(q, n) \cup {n + 1}
      BY <1>3 DEF OwnTo
    <2>2. QED
      BY <1>1, <1>2, <1>3, <2>1, FS_AddElement
  <1>4. CASE ~q[n + 1].own
    <2>1. OwnTo(q, n + 1) = OwnTo(q, n)
      BY <1>4 DEF OwnTo
    <2>2. QED
      BY <1>1, <1>4, <2>1
  <1>5. QED
    BY <1>3, <1>4

\* A set of numbers has as many elements as the same numbers one higher.
LEMMA ShiftedCardinality ==
    ASSUME NEW S \in SUBSET Nat, IsFiniteSet(S)
    PROVE  IsFiniteSet({i + 1 : i \in S}) /\ Cardinality({i + 1 : i \in S}) = Cardinality(S)
  <1> DEFINE T == {i + 1 : i \in S}
             f == [i \in S |-> i + 1]
  <1>1. f \in [S -> T] /\ (\A i, j \in S : f[i] = f[j] => i = j) /\ (\A t \in T : \E i \in S : f[i] = t)
    OBVIOUS
  <1>2. ExistsBijection(S, T)
    <2>1. f \in Injection(S, T) /\ f \in Surjection(S, T)
      BY <1>1, Zenon DEF Injection, Surjection, IsInjective
    <2>2. QED
      BY <2>1, Zenon DEF ExistsBijection, Bijection
  <1> HIDE DEF T, f
  <1>3. QED
    BY <1>2, FS_Bijection DEF T

\* The controller puts a descriptor in front of its list.
LEMMA OwnTdsPut ==
    ASSUME NEW q \in Seq(Tds), NEW x \in Tds
    PROVE  /\ <<x>> \o q \in Seq(Tds)
           /\ OwnTds(<<x>> \o q) = OwnTds(q) + (IF x.own THEN 1 ELSE 0)
           /\ StallTo(q, Len(q)) => StallTo(<<x>> \o q, Len(<<x>> \o q))
           /\ x.own /\ x.cc > 3 => StallTo(<<x>> \o q, Len(<<x>> \o q))
  <1> DEFINE p == <<x>> \o q
             S == OwnTo(q, Len(q))
             T == {i + 1 : i \in S}
  <1>1. /\ p \in Seq(Tds) /\ Len(p) = Len(q) + 1 /\ Len(q) \in Nat /\ p[1] = x
        /\ \A i \in 1 .. Len(q) : p[i + 1] = q[i]
    OBVIOUS
  <1>2. x.own \in BOOLEAN
    BY DEF Tds
  <1>3. IsFiniteSet(S) /\ S \in SUBSET Nat /\ Cardinality(S) \in Nat
    <2>1. S \in SUBSET Nat
      BY <1>1 DEF OwnTo
    <2> HIDE DEF S
    <2>2. QED
      BY <1>1, <2>1, OwnToFinite DEF S
  <1>4. IsFiniteSet(T) /\ Cardinality(T) = Cardinality(S)
    BY <1>3, ShiftedCardinality
  <1> HIDE DEF p
  <1>5. OwnTo(p, Len(p)) = T \cup (IF x.own THEN {1} ELSE {})
    <2>1. ASSUME NEW i \in OwnTo(p, Len(p)) PROVE i \in T \cup (IF x.own THEN {1} ELSE {})
      <3>1. i \in 1 .. Len(p) /\ p[i].own
        BY <2>1 DEF OwnTo
      <3>2. CASE i = 1
        BY <1>1, <3>1, <3>2
      <3>3. CASE i # 1
        <4>1. i - 1 \in 1 .. Len(q) /\ (i - 1) + 1 = i
          BY <1>1, <3>1, <3>3
        <4>2. p[(i - 1) + 1] = q[i - 1]
          BY <1>1, <4>1
        <4>3. i - 1 \in S
          BY <3>1, <4>1, <4>2 DEF OwnTo
        <4>4. QED
          BY <4>1, <4>3
      <3>4. QED
        BY <3>2, <3>3
    <2>2. ASSUME NEW i \in T PROVE i \in OwnTo(p, Len(p))
      <3>1. PICK j \in S : i = j + 1
        BY <2>2
      <3>2. j \in 1 .. Len(q) /\ q[j].own
        BY <3>1 DEF OwnTo
      <3>3. QED
        BY <1>1, <3>1, <3>2 DEF OwnTo
    <2>3. x.own => 1 \in OwnTo(p, Len(p))
      BY <1>1 DEF OwnTo
    <2> HIDE DEF T
    <2>4. QED
      BY <2>1, <2>2, <2>3
  <1>6. 1 \notin T
    BY <1>1 DEF OwnTo
  <1> HIDE DEF S, T
  <1>7. OwnTds(p) = OwnTds(q) + (IF x.own THEN 1 ELSE 0)
    <2>1. OwnTds(p) = Cardinality(OwnTo(p, Len(p))) /\ OwnTds(q) = Cardinality(S)
      BY DEF OwnTds, S
    <2>2. CASE x.own
      <3>1. OwnTo(p, Len(p)) = T \cup {1}
        BY <1>5, <2>2
      <3>2. Cardinality(T \cup {1}) = Cardinality(T) + 1
        BY <1>4, <1>6, FS_AddElement
      <3>3. QED
        BY <1>4, <2>1, <2>2, <3>1, <3>2
    <2>3. CASE ~x.own
      <3>1. OwnTo(p, Len(p)) = T
        BY <1>5, <2>3
      <3>2. QED
        BY <1>3, <1>4, <2>1, <2>3, <3>1
    <2>4. QED
      BY <1>2, <2>2, <2>3
  <1>8. StallTo(q, Len(q)) => StallTo(p, Len(p))
    <2> SUFFICES ASSUME StallTo(q, Len(q)) PROVE StallTo(p, Len(p))
      OBVIOUS
    <2>1. PICK i \in 1 .. Len(q) : q[i].own /\ q[i].cc > 3
      BY DEF StallTo
    <2>2. i + 1 \in 1 .. Len(p) /\ p[i + 1] = q[i]
      BY <1>1
    <2>3. QED
      BY <2>1, <2>2 DEF StallTo
  <1>9. x.own /\ x.cc > 3 => StallTo(p, Len(p))
    BY <1>1 DEF StallTo
  <1>10. QED
    BY <1>1, <1>7, <1>8, <1>9 DEF p

\* An empty list, and one without own descriptors.
LEMMA OwnTdsNone ==
    /\ OwnTds(<<>>) = 0 /\ ~StallTo(<<>>, Len(<<>>))
    /\ \A q \in Seq(Tds) : OwnTds(q) \in Nat /\ (OwnTds(q) = 0 => ~StallTo(q, Len(q)))
  <1>1. OwnTds(<<>>) = 0 /\ ~StallTo(<<>>, Len(<<>>))
    <2>1. OwnTo(<<>>, Len(<<>>)) = {} /\ 1 .. Len(<<>>) = {}
      BY DEF OwnTo
    <2>2. QED
      BY <2>1, FS_EmptySet DEF OwnTds, StallTo
  <1>2. ASSUME NEW q \in Seq(Tds) PROVE OwnTds(q) \in Nat /\ (OwnTds(q) = 0 => ~StallTo(q, Len(q)))
    <2>1. IsFiniteSet(OwnTo(q, Len(q))) /\ Cardinality(OwnTo(q, Len(q))) \in Nat
      BY OwnToFinite
    <2>2. OwnTds(q) = 0 => OwnTo(q, Len(q)) = {}
      BY <2>1, FS_EmptySet DEF OwnTds
    <2>3. QED
      BY <2>1, <2>2 DEF OwnTds, OwnTo, StallTo
  <1>3. QED
    BY <1>1, <1>2

-----------------------------------------------------------------------------
\* What the walk of ohci_process_done_head knows after n descriptors: it claimed no
\* more than are the transfer's, and if it saw a failure, that or one descriptor less.
WalkRight(s, n) ==
    LET claimed == oxfer.count - s.count IN
    /\ s \in [count : 0 .. oxfer.count, ret : {0, 1}, stop : BOOLEAN]
    /\ claimed <= Cardinality(OwnTo(ohcca, n))
    /\ oxfer.ret = 0 => s.ret = 0
    /\ StallTo(ohcca, n) => s.ret = 0 \/ claimed < Cardinality(OwnTo(ohcca, n))

Walks == [count : 0 .. oxfer.count, ret : {0, 1}, stop : BOOLEAN]

\* One descriptor of the walk.
LEMMA ClaimsOne ==
    ASSUME NEW s \in Walks, NEW td, oxfer \in OXfers
    PROVE  LET t == O!ClaimTd(s, td) IN
           /\ t \in Walks
           /\ s.ret = 0 => t.ret = 0
           /\ \/ t.count = s.count /\ t.ret = s.ret
              \/ t.count = s.count - 1 /\ td.own /\ (td.cc > 3 => t.ret = 0)
  <1> DEFINE t == O!ClaimTd(s, td)
  <1>1. s.count \in 0 .. oxfer.count /\ s.ret \in {0, 1} /\ s.stop \in BOOLEAN /\ oxfer.count \in Nat
    BY DEF Walks, OXfers
  <1>2. CASE s.stop \/ s.count = 0
    BY <1>2 DEF O!ClaimTd
  <1>3. CASE ~(s.stop \/ s.count = 0) /\ ~td.own
    <2>1. t = [s EXCEPT !.stop = TRUE]
      BY <1>3 DEF O!ClaimTd, O!ohci_get_td_virt, OBelow
    <2>2. t \in Walks /\ t.count = s.count /\ t.ret = s.ret
      BY <2>1 DEF Walks
    <2>3. QED
      BY <2>2
  <1>4. CASE ~(s.stop \/ s.count = 0) /\ td.own
    <2>1. t = [s EXCEPT !.count = @ - 1, !.ret = IF td.cc > 3 THEN 0 ELSE @]
      BY <1>4 DEF O!ClaimTd, O!ohci_get_td_virt
    <2>2. s.count - 1 \in 0 .. oxfer.count
      BY <1>1, <1>4
    <2>3. t \in Walks /\ t.count = s.count - 1 /\ t.ret = (IF td.cc > 3 THEN 0 ELSE s.ret)
      BY <1>1, <2>1, <2>2 DEF Walks
    <2>4. QED
      BY <1>4, <2>3
  <1>5. QED
    BY <1>1, <1>2, <1>3, <1>4
\* The walk after n descriptors.
LEMMA ClaimedIs ==
    ASSUME OhciTypes
    PROVE  \A n \in 0 .. Len(ohcca) : WalkRight(O!Claimed[n], n)
  <1> DEFINE a == [count |-> oxfer.count, ret |-> oxfer.ret, stop |-> FALSE]
             F == [p \in Walks \X Nat |-> O!ClaimTd(p[1], ohcca[p[2]])]
             Body(f, n) == IF n = 0 THEN a ELSE O!ClaimTd(f[n - 1], ohcca[n])
  <1>1. oxfer \in OXfers /\ oxfer.count \in Nat /\ ohcca \in Seq(Tds) /\ Len(ohcca) \in Nat
    BY DEF OhciTypes, OXfers
  <1>2. a \in Walks
    BY <1>1 DEF Walks, OXfers
  <1>3. F \in [Walks \X Nat -> Walks]
    <2>1. ASSUME NEW p \in Walks \X Nat PROVE O!ClaimTd(p[1], ohcca[p[2]]) \in Walks
      <3>1. p[1] \in Walks
        OBVIOUS
      <3>2. QED
        BY <1>1, <3>1, ClaimsOne
    <2>2. QED
      BY <2>1
  <1> HIDE DEF a
  <1>4. PICK f \in [Nat -> Walks] : f[0] = a /\ \A n \in Nat : f[n + 1] = F[<<f[n], n + 1>>]
    <2> HIDE DEF F, Body
    <2>1. PICK f : Iterated(f, Walks, a, F)
      BY <1>2, <1>3, Iterates
    <2>2. QED
      BY <2>1 DEF Iterated
  <1>5. \A n \in Nat : f[n + 1] = O!ClaimTd(f[n], ohcca[n + 1])
    <2> SUFFICES ASSUME NEW n \in Nat PROVE f[n + 1] = O!ClaimTd(f[n], ohcca[n + 1])
      OBVIOUS
    <2>1. <<f[n], n + 1>> \in Walks \X Nat
      BY <1>4
    <2>2. QED
      BY <1>4, <2>1
  <1> HIDE DEF F
  <1>6. f = [n \in Nat |-> Body(f, n)]
    <2>1. ASSUME NEW n \in Nat PROVE f[n] = Body(f, n)
      <3>1. CASE n = 0
        BY <1>4, <3>1
      <3>2. CASE n # 0
        <4>1. n - 1 \in Nat /\ (n - 1) + 1 = n
          BY <3>2
        <4>2. f[(n - 1) + 1] = O!ClaimTd(f[n - 1], ohcca[(n - 1) + 1])
          BY <1>5, <4>1
        <4>3. QED
          BY <3>2, <4>1, <4>2
      <3>3. QED
        BY <3>1, <3>2
    <2> HIDE DEF Body
    <2>2. QED
      BY <1>4, <2>1
  <1>7. O!Claimed = (CHOOSE g : g = [n \in Nat |-> Body(g, n)])
    BY DEF O!Claimed, a
  <1>8. O!Claimed = [n \in Nat |-> Body(O!Claimed, n)]
    <2> HIDE DEF Body
    <2>1. QED
      BY <1>6, <1>7, Zenon
  <1>9. /\ O!Claimed[0] = a
        /\ \A n \in Nat : O!Claimed[n + 1] = O!ClaimTd(O!Claimed[n], ohcca[n + 1])
    <2>1. \A n \in Nat : O!Claimed[n] = Body(O!Claimed, n)
      <3> HIDE DEF Body
      <3>1. QED
        BY <1>8
    <2>2. ASSUME NEW n \in Nat PROVE n + 1 # 0 /\ n + 1 \in Nat /\ (n + 1) - 1 = n
      OBVIOUS
    <2>3. QED
      BY <2>1, <2>2
  <1> DEFINE S == {n \in Nat : n <= Len(ohcca) => WalkRight(O!Claimed[n], n)}
  <1>10. 0 \in S
    <2>1. OwnTo(ohcca, 0) = {} /\ ~StallTo(ohcca, 0) /\ Cardinality(OwnTo(ohcca, 0)) = 0
      BY FS_EmptySet DEF OwnTo, StallTo
    <2>2. a.count = oxfer.count /\ a.ret = oxfer.ret
      BY DEF a
    <2>3. WalkRight(a, 0)
      BY <1>1, <1>2, <2>1, <2>2, SMTT(30) DEF WalkRight, Walks
    <2>4. QED
      BY <1>9, <2>3
  <1>11. ASSUME NEW n \in S PROVE n + 1 \in S
    <2> SUFFICES ASSUME n + 1 <= Len(ohcca) PROVE WalkRight(O!Claimed[n + 1], n + 1)
      OBVIOUS
    <2> DEFINE s == O!Claimed[n]
               t == O!Claimed[n + 1]
               td == ohcca[n + 1]
               c == Cardinality(OwnTo(ohcca, n))
               d == Cardinality(OwnTo(ohcca, n + 1))
    <2>1. n \in Nat /\ n + 1 \in 1 .. Len(ohcca) /\ WalkRight(s, n)
      BY <1>1
    <2>2. td \in Tds /\ td.own \in BOOLEAN
      <3>1. td \in Tds
        BY <1>1, <2>1
      <3>2. QED
        BY <3>1 DEF Tds
    <2>3. t = O!ClaimTd(s, td)
      BY <1>9, <2>1
    <2>4. d = c + (IF td.own THEN 1 ELSE 0) /\ c \in Nat
      BY <2>1, <2>2, OwnToNext, OwnToFinite
    <2>5. /\ s \in Walks /\ oxfer.count - s.count <= c /\ (oxfer.ret = 0 => s.ret = 0)
          /\ StallTo(ohcca, n) => s.ret = 0 \/ oxfer.count - s.count < c
      BY <2>1 DEF WalkRight, Walks
    <2> HIDE DEF s, t, td, c, d
    <2>6. /\ t \in Walks /\ (s.ret = 0 => t.ret = 0)
          /\ \/ t.count = s.count /\ t.ret = s.ret
             \/ t.count = s.count - 1 /\ td.own /\ (td.cc > 3 => t.ret = 0)
      BY <1>1, <2>3, <2>5, ClaimsOne
    <2>7. StallTo(ohcca, n + 1) => StallTo(ohcca, n) \/ (td.own /\ td.cc > 3)
      <3> SUFFICES ASSUME StallTo(ohcca, n + 1), ~(td.own /\ td.cc > 3) PROVE StallTo(ohcca, n)
        OBVIOUS
      <3>1. PICK i \in 1 .. (n + 1) : ohcca[i].own /\ ohcca[i].cc > 3
        BY DEF StallTo
      <3>2. i # n + 1
        BY <3>1 DEF td
      <3>3. i \in 1 .. n
        BY <2>1, <3>2
      <3>4. QED
        BY <3>1, <3>3 DEF StallTo
    <2>8. s.count \in Nat /\ t.count \in Nat /\ oxfer.count \in Nat
      BY <1>1, <2>5, <2>6 DEF Walks
    <2>9. oxfer.count - t.count <= d
      BY <2>2, <2>4, <2>5, <2>6, <2>8
    <2>10. StallTo(ohcca, n + 1) => t.ret = 0 \/ oxfer.count - t.count < d
      <3>1. CASE t.count = s.count /\ t.ret = s.ret
        BY <2>2, <2>4, <2>5, <2>7, <2>8, <3>1
      <3>2. CASE t.count = s.count - 1 /\ td.own /\ (td.cc > 3 => t.ret = 0)
        BY <2>2, <2>4, <2>5, <2>6, <2>7, <2>8, <3>2
      <3>3. QED
        BY <2>6, <3>1, <3>2
    <2>11. QED
      BY <2>5, <2>6, <2>9, <2>10 DEF WalkRight, Walks, t, d
  <1>12. S = Nat
    BY <1>10, <1>11, Inductively
  <1>13. QED
    BY <1>1, <1>12

\* The fields of a transfer.
LEMMA XferFields ==
    ASSUME NEW x \in OXfers
    PROVE  /\ x.bulk \in BOOLEAN /\ x.n \in Nat /\ x.retired \in Nat /\ x.cc \in {0, 1, 4}
           /\ x.count \in Nat /\ x.ret \in {0, 1}
  BY DEF OXfers

\* No transfer, and one whose descriptors were just linked.
LEMMA XferStarts ==
    /\ O!NoXfer \in OXfers /\ O!NoXfer.n = 0 /\ O!NoXfer.retired = 0 /\ O!NoXfer.count = 0 /\ O!NoXfer.cc = 0
    /\ \A b \in BOOLEAN, n \in Nat :
          LET x == O!ohci_fill_td(b, n) IN
          x \in OXfers /\ x.n = n /\ x.retired = 0 /\ x.count = n /\ x.cc = 0
  BY DEF O!NoXfer, O!ohci_fill_td, OXfers

\* Nothing of a transfer is in the lists.
OhciQuiet == OwnTds(oqueue) = 0 /\ OwnTds(ohcca) = 0

\* Between transfers no descriptor of one is on a list.
LEMMA IdleQuiet ==
    ASSUME OhciInv, ~olate, opc \notin {"wait", "claim"}
    PROVE  OhciQuiet
  <1>1. OwnTds(oqueue) \in Nat /\ OwnTds(ohcca) \in Nat
    BY OwnTdsNone DEF OhciInv, OhciTypes
  <1>2. oxfer.n = 0 /\ oxfer.count = 0 /\ oxfer.retired = 0
    BY XferStarts DEF OhciInv, OhciTypes
  <1>3. QED
    BY <1>1, <1>2 DEF OhciInv, OhciCounted, OhciQuiet

\* With quiet lists nothing is miscounted.
LEMMA QuietCounts ==
    ASSUME OhciQuiet, oxfer \in OXfers, oxfer.n = oxfer.count, oxfer.cc = 0
    PROVE  OhciCounted /\ OhciFailureKept
  BY XferFields DEF OhciQuiet, OhciCounted, OhciFailureKept

\* The result stands.
LEMMA ResultStays ==
    ASSUME O!ResultRight, UNCHANGED oresult, olate \in BOOLEAN, olate => olate'
    PROVE  O!ResultRight'
  BY DEF O!ResultRight

\* At the start.
LEMMA OhciInitially == O!Init => OhciInv
  <1> SUFFICES ASSUME O!Init PROVE OhciInv
    OBVIOUS
  <1>1. oxfer = O!NoXfer /\ oqueue = <<>> /\ ohcca = <<>> /\ owd = FALSE /\ olate = FALSE /\ oresult = None
    BY DEF O!Init
  <1>2. OhciTypes
    <2>1. oxfer \in OXfers /\ oxfer.count <= oxfer.n /\ oxfer.retired <= oxfer.n /\ <<>> \in Seq(Tds)
      BY <1>1, XferStarts
    <2>2. owd \in BOOLEAN /\ olate \in BOOLEAN
      BY <1>1
    <2>3. QED
      BY <1>1, <2>1, <2>2, Zenon DEF OhciTypes
  <1>3. OhciQuiet
    BY <1>1, OwnTdsNone DEF OhciQuiet
  <1>4. OhciCounted /\ OhciFailureKept
    BY <1>1, <1>3, XferStarts, QuietCounts
  <1>5. QED
    BY <1>1, <1>2, <1>4 DEF OhciInv, O!ResultRight

\* ohci_init and ohci_exit empty the lists.
LEMMA OhciReset ==
    ASSUME OhciInv, O!ohci_init \/ O!ohci_exit
    PROVE  OhciInv'
  <1>1. /\ oxfer' = O!NoXfer /\ oqueue' = <<>> /\ ohcca' = <<>> /\ owd' = FALSE
        /\ olate' \in BOOLEAN
    BY DEF OhciInv, OhciTypes, O!ohci_init, O!ohci_exit, O!ohci_hcd_reset, O!ohci_hcd_init
  <1>2. OhciTypes'
    <2>1. oxfer' \in OXfers /\ oxfer'.count <= oxfer'.n /\ oxfer'.retired <= oxfer'.n /\ <<>> \in Seq(Tds)
      BY <1>1, XferStarts
    <2>2. owd' \in BOOLEAN
      BY <1>1
    <2>3. QED
      BY <1>1, <2>1, <2>2, Zenon DEF OhciTypes
  <1>3. OhciQuiet'
    BY <1>1, OwnTdsNone DEF OhciQuiet
  <1>4. OhciCounted' /\ OhciFailureKept'
    <2>1. oxfer' \in OXfers /\ oxfer'.n = oxfer'.count /\ oxfer'.cc = 0
      BY <1>1, XferStarts
    <2>2. QED
      BY <1>3, <2>1, XferFields DEF OhciQuiet, OhciCounted, OhciFailureKept
  <1>5. O!ResultRight'
    BY DEF OhciInv, O!ResultRight, O!ohci_init, O!ohci_exit
  <1>6. QED
    BY <1>2, <1>4, <1>5 DEF OhciInv

\* A transfer starts, on lists that are quiet.
LEMMA OhciStarts ==
    ASSUME OhciInv, NEW n \in 1 .. OTds, O!ohci_send_ctrl(n) \/ O!ohci_transfer_bulk(n)
    PROVE  OhciInv'
  <1>1. PICK b \in BOOLEAN : oxfer' = O!ohci_fill_td(b, n)
    BY DEF O!ohci_send_ctrl, O!ohci_transfer_bulk
  <1>2. /\ opc = "idle" /\ ~olate /\ opc' = "wait"
        /\ UNCHANGED <<oresult, oqueue, ohcca, owd, olate>>
    BY DEF O!ohci_send_ctrl, O!ohci_transfer_bulk
  <1>3. n \in Nat
    BY OhciConstants
  <1>4. oxfer' \in OXfers /\ oxfer'.n = n /\ oxfer'.retired = 0 /\ oxfer'.count = n /\ oxfer'.cc = 0
    BY <1>1, <1>3, XferStarts
  <1>5. OhciTypes'
    BY <1>2, <1>3, <1>4 DEF OhciInv, OhciTypes
  <1>6. OhciQuiet'
    BY <1>2, IdleQuiet DEF OhciQuiet
  <1>7. OhciCounted' /\ OhciFailureKept'
    BY <1>3, <1>4, <1>6 DEF OhciQuiet, OhciCounted, OhciFailureKept
  <1>8. O!ResultRight'
    BY <1>2, ResultStays DEF OhciInv, OhciTypes
  <1>9. QED
    BY <1>5, <1>7, <1>8 DEF OhciInv

\* The controller retires a descriptor of the transfer.
LEMMA OhciRetires ==
    ASSUME OhciInv, NEW cc \in {0, 1, 4}, O!RetireTd(cc)
    PROVE  OhciInv'
  <1> DEFINE x == O!Td(cc)
  <1>1. /\ oxfer.retired < oxfer.n /\ oxfer' = [oxfer EXCEPT !.retired = @ + 1, !.cc = cc]
        /\ oqueue' = <<x>> \o oqueue /\ opc \in {"wait", "claim"}
        /\ UNCHANGED <<opc, oresult, ohcca, owd, olate>>
    BY DEF O!RetireTd
  <1>2. x \in Tds /\ x.own /\ x.cc = cc
    BY DEF O!Td, Tds
  <1>3. oxfer \in OXfers /\ oqueue \in Seq(Tds) /\ ohcca \in Seq(Tds)
    BY DEF OhciInv, OhciTypes
  <1>4. /\ oxfer' \in OXfers /\ oxfer'.n = oxfer.n /\ oxfer'.count = oxfer.count /\ oxfer'.ret = oxfer.ret
        /\ oxfer'.retired = oxfer.retired + 1 /\ oxfer'.cc = cc
    <2>1. oxfer.retired + 1 \in Nat
      BY <1>3, XferFields
    <2>2. QED
      BY <1>1, <1>3, <2>1 DEF OXfers
  <1>5. /\ oqueue' \in Seq(Tds) /\ OwnTds(oqueue') = OwnTds(oqueue) + 1
        /\ cc > 3 => StallTo(oqueue', Len(oqueue'))
    BY <1>1, <1>2, <1>3, OwnTdsPut
  <1> HIDE DEF x
  <1>6. OwnTds(oqueue) \in Nat /\ OwnTds(ohcca) \in Nat
    BY <1>3, OwnTdsNone
  <1>7. OhciTypes'
    BY <1>1, <1>3, <1>4, <1>5, XferFields DEF OhciInv, OhciTypes
  <1>8. ~olate => OhciCounted' /\ OhciFailureKept'
    <2>1. OwnTds(ohcca') = OwnTds(ohcca)
      BY <1>1
    <2>2. QED
      <3> SUFFICES ASSUME ~olate PROVE OhciCounted' /\ OhciFailureKept'
        OBVIOUS
      <3>1. OwnTds(oqueue) + OwnTds(ohcca) + (oxfer.n - oxfer.count) <= oxfer.retired
        BY DEF OhciInv, OhciCounted
      <3>2. (OwnTds(oqueue) + 1) + OwnTds(ohcca) + (oxfer.n - oxfer.count) <= oxfer.retired + 1
        <4>1. oxfer.n \in Nat /\ oxfer.count \in Nat /\ oxfer.retired \in Nat
          BY <1>3, XferFields
        <4>2. QED
          BY <1>6, <3>1, <4>1
      <3>3. QED
        BY <1>4, <1>5, <2>1, <3>2 DEF OhciCounted, OhciFailureKept
  <1>9. O!ResultRight'
    BY <1>1, ResultStays DEF OhciInv, OhciTypes
  <1>10. QED
    BY <1>1, <1>7, <1>8, <1>9 DEF OhciInv

\* It retires a report of the keyboard, or hands its list over.
LEMMA OhciReports ==
    ASSUME OhciInv, NEW r, O!RetireReport(r)
    PROVE  OhciInv'
  <1> DEFINE x == O!KbTd
  <1>1. oqueue' = <<x>> \o oqueue /\ UNCHANGED <<opc, oxfer, oresult, ohcca, owd, olate>>
    BY DEF O!RetireReport
  <1>2. x \in Tds /\ ~x.own
    BY DEF O!KbTd, Tds
  <1>3. oxfer \in OXfers /\ oqueue \in Seq(Tds) /\ ohcca \in Seq(Tds)
    BY DEF OhciInv, OhciTypes
  <1>4. /\ oqueue' \in Seq(Tds) /\ OwnTds(oqueue') = OwnTds(oqueue) + 0
        /\ StallTo(oqueue, Len(oqueue)) => StallTo(oqueue', Len(oqueue'))
    BY <1>1, <1>2, <1>3, OwnTdsPut
  <1> HIDE DEF x
  <1>5. OwnTds(oqueue') = OwnTds(oqueue)
    BY <1>3, <1>4, OwnTdsNone
  <1>6. OhciTypes'
    BY <1>1, <1>3, <1>4 DEF OhciInv, OhciTypes
  <1>7. ~olate => OhciCounted' /\ OhciFailureKept'
    BY <1>1, <1>4, <1>5 DEF OhciInv, OhciCounted, OhciFailureKept
  <1>8. O!ResultRight'
    BY <1>1, ResultStays DEF OhciInv, OhciTypes
  <1>9. QED
    BY <1>1, <1>6, <1>7, <1>8 DEF OhciInv

\* The controller hands the done queue over.
LEMMA OhciHandsOver ==
    ASSUME OhciInv, O!WriteBack
    PROVE  OhciInv'
  <1>1. ~owd /\ ohcca' = oqueue /\ owd' = TRUE /\ oqueue' = <<>> /\ UNCHANGED <<opc, oxfer, oresult, olate>>
    BY DEF O!WriteBack
  <1>2. oxfer \in OXfers /\ oqueue \in Seq(Tds) /\ ohcca = <<>>
    BY <1>1 DEF OhciInv, OhciTypes
  <1>3. OwnTds(ohcca) = 0 /\ OwnTds(oqueue') = 0 /\ OwnTds(oqueue) \in Nat /\ OwnTds(ohcca') = OwnTds(oqueue)
        /\ ~StallTo(ohcca, Len(ohcca))
    BY <1>1, <1>2, OwnTdsNone
  <1>4. OhciTypes'
    BY <1>1, <1>2 DEF OhciInv, OhciTypes
  <1>5. OwnTds(oqueue') + OwnTds(ohcca') = OwnTds(oqueue) + OwnTds(ohcca)
    BY <1>3
  <1>6. ~olate => OhciCounted' /\ OhciFailureKept'
    BY <1>1, <1>3, <1>5 DEF OhciInv, OhciCounted, OhciFailureKept
  <1>7. O!ResultRight'
    BY <1>1, ResultStays DEF OhciInv, OhciTypes
  <1>8. QED
    BY <1>1, <1>4, <1>6, <1>7 DEF OhciInv

\* The list has been walked over, and there is more to wait for.
LEMMA OhciWaitsOn ==
    ASSUME OhciInv, NEW s, WalkRight(s, Len(ohcca)),
           oxfer' = [oxfer EXCEPT !.count = s.count, !.ret = s.ret], ohcca' = <<>>, owd' = FALSE,
           opc = "claim", UNCHANGED <<opc, oresult, olate, oqueue>>
    PROVE  OhciInv'
  <1> DEFINE k == oxfer.count - s.count
  <1>1. oxfer \in OXfers /\ oqueue \in Seq(Tds) /\ ohcca \in Seq(Tds)
    BY DEF OhciInv, OhciTypes
  <1>2. /\ s.count \in 0 .. oxfer.count /\ s.ret \in {0, 1} /\ k <= OwnTds(ohcca)
        /\ oxfer.ret = 0 => s.ret = 0
        /\ StallTo(ohcca, Len(ohcca)) => s.ret = 0 \/ k < OwnTds(ohcca)
    BY DEF WalkRight, OwnTds
  <1>3. oxfer.count \in Nat /\ oxfer.n \in Nat /\ oxfer.retired \in Nat /\ s.count \in Nat
    BY <1>1, <1>2, XferFields
  <1>4. /\ oxfer' \in OXfers /\ oxfer'.n = oxfer.n /\ oxfer'.count = s.count /\ oxfer'.ret = s.ret
        /\ oxfer'.retired = oxfer.retired /\ oxfer'.cc = oxfer.cc
    BY <1>1, <1>2, <1>3 DEF OXfers
  <1>5. OwnTds(ohcca') = 0 /\ OwnTds(oqueue) \in Nat /\ OwnTds(ohcca) \in Nat /\ OwnTds(oqueue') = OwnTds(oqueue)
    BY <1>1, OwnTdsNone
  <1>6. OhciTypes'
    <2>1. oxfer'.count <= oxfer'.n /\ oxfer'.retired <= oxfer'.n /\ <<>> \in Seq(Tds)
      BY <1>2, <1>3, <1>4 DEF OhciInv, OhciTypes
    <2>2. QED
      BY <1>1, <1>4, <2>1 DEF OhciInv, OhciTypes
  <1>7. ASSUME ~olate PROVE OhciCounted' /\ OhciFailureKept'
    <2>1. OwnTds(oqueue) + OwnTds(ohcca) + (oxfer.n - oxfer.count) <= oxfer.retired
      BY <1>7 DEF OhciInv, OhciCounted
    <2>2. OwnTds(oqueue) + 0 + (oxfer.n - s.count) <= oxfer.retired
      BY <1>2, <1>3, <1>5, <2>1
    <2>3. k < OwnTds(ohcca) => OwnTds(oqueue) + 0 + (oxfer.n - s.count) < oxfer.retired
      BY <1>2, <1>3, <1>5, <2>1
    <2>4. OwnTds(oqueue) + OwnTds(ohcca) + (oxfer.n - oxfer.count) < oxfer.retired
          => OwnTds(oqueue) + 0 + (oxfer.n - s.count) < oxfer.retired
      BY <1>2, <1>3, <1>5
    <2>5. OhciCounted'
      BY <1>4, <1>5, <2>2 DEF OhciCounted
    <2>6. OhciFailureKept'
      BY <1>2, <1>4, <1>5, <1>7, <2>3, <2>4 DEF OhciInv, OhciFailureKept
    <2>7. QED
      BY <2>5, <2>6
  <1>8. O!ResultRight'
    BY ResultStays DEF OhciInv, OhciTypes
  <1>9. QED
    BY <1>6, <1>7, <1>8 DEF OhciInv

\* All descriptors were claimed: then all are retired, and a failure was seen.
LEMMA OhciAllClaimed ==
    ASSUME OhciInv, NEW s, WalkRight(s, Len(ohcca)), s.count = 0, ~olate
    PROVE  oxfer.retired = oxfer.n /\ OwnTds(oqueue) = 0 /\ (s.ret = 1 => oxfer.cc <= 3)
  <1> DEFINE k == oxfer.count - s.count
  <1>1. oxfer \in OXfers /\ oqueue \in Seq(Tds) /\ ohcca \in Seq(Tds) /\ oxfer.retired <= oxfer.n
    BY DEF OhciInv, OhciTypes
  <1>2. /\ k <= OwnTds(ohcca) /\ (oxfer.ret = 0 => s.ret = 0)
        /\ StallTo(ohcca, Len(ohcca)) => s.ret = 0 \/ k < OwnTds(ohcca)
    BY DEF WalkRight, OwnTds
  <1>3. oxfer.count \in Nat /\ oxfer.n \in Nat /\ oxfer.retired \in Nat /\ oxfer.cc \in {0, 1, 4}
    BY <1>1, XferFields
  <1>4. OwnTds(oqueue) \in Nat /\ OwnTds(ohcca) \in Nat
    BY <1>1, OwnTdsNone
  <1>5. OwnTds(oqueue) + OwnTds(ohcca) + (oxfer.n - oxfer.count) <= oxfer.retired
    BY DEF OhciInv, OhciCounted
  <1>6. /\ oxfer.retired = oxfer.n /\ OwnTds(oqueue) = 0 /\ ~(k < OwnTds(ohcca))
        /\ ~(OwnTds(oqueue) + OwnTds(ohcca) + (oxfer.n - oxfer.count) < oxfer.retired)
    BY <1>1, <1>2, <1>3, <1>4, <1>5
  <1>7. ~StallTo(oqueue, Len(oqueue))
    BY <1>1, <1>6, OwnTdsNone
  <1>8. oxfer.cc > 3 => s.ret = 0
    BY <1>2, <1>6, <1>7 DEF OhciInv, OhciFailureKept
  <1>9. QED
    BY <1>3, <1>6, <1>8

\* The end of a transfer: nothing of it is left, or it counts as late.
LEMMA OhciFinishes ==
    ASSUME OhciInv, NEW ret, NEW stalled, O!Finish(ret, stalled), olate' \in BOOLEAN, olate => olate',
           ohcca' = <<>>, owd' = FALSE, UNCHANGED oqueue,
           ~olate' => OwnTds(oqueue) = 0 /\ (ret => oxfer.retired = oxfer.n /\ oxfer.cc <= 3)
    PROVE  OhciInv'
  <1>1. /\ oxfer' = O!NoXfer /\ opc' = "idle"
        /\ oresult' = [ret |-> ret, done |-> oxfer.retired = oxfer.n /\ oxfer.cc <= 3]
    BY DEF O!Finish
  <1>2. oqueue' \in Seq(Tds)
    BY DEF OhciInv, OhciTypes
  <1>3. OhciTypes'
    <2>1. oxfer' \in OXfers /\ oxfer'.count <= oxfer'.n /\ oxfer'.retired <= oxfer'.n /\ <<>> \in Seq(Tds)
      BY <1>1, XferStarts
    <2>2. owd' \in BOOLEAN
      OBVIOUS
    <2>3. QED
      BY <1>1, <1>2, <2>1, <2>2, Zenon DEF OhciTypes
  <1>4. ~olate' => OhciCounted' /\ OhciFailureKept'
    <2> SUFFICES ASSUME ~olate' PROVE OhciCounted' /\ OhciFailureKept'
      OBVIOUS
    <2>1. OhciQuiet'
      BY OwnTdsNone DEF OhciQuiet
    <2>2. oxfer' \in OXfers /\ oxfer'.n = oxfer'.count /\ oxfer'.cc = 0
      BY <1>1, XferStarts
    <2>3. QED
      BY <2>1, <2>2, XferFields DEF OhciQuiet, OhciCounted, OhciFailureKept
  <1>5. O!ResultRight'
    BY <1>1 DEF O!ResultRight
  <1>6. QED
    BY <1>3, <1>4, <1>5 DEF OhciInv

\* ohci_process_done_head with a list, and without one within the timeout.
LEMMA OhciProcesses ==
    ASSUME OhciInv, O!ohci_process_done_head
    PROVE  OhciInv'
  <1> DEFINE s == O!Claimed[Len(ohcca)]
  <1>1. WalkRight(s, Len(ohcca))
    <2>1. Len(ohcca) \in 0 .. Len(ohcca)
      BY DEF OhciInv, OhciTypes
    <2>2. QED
      BY <2>1, ClaimedIs DEF OhciInv
  <1>2. /\ opc = "claim" /\ ohcca' = <<>> /\ owd' = FALSE /\ UNCHANGED oqueue
        /\ IF s.count = 0 THEN O!Finish(s.ret = 1, s.ret = 0) /\ olate' = (olate \/ oxfer.retired < oxfer.n)
           ELSE oxfer' = [oxfer EXCEPT !.count = s.count, !.ret = s.ret]
                /\ UNCHANGED <<opc, oresult, ohalted, olate, orecover>>
    BY DEF O!ohci_process_done_head
  <1> HIDE DEF s
  <1>3. CASE s.count = 0
    <2>1. O!Finish(s.ret = 1, s.ret = 0) /\ olate' = (olate \/ oxfer.retired < oxfer.n)
      BY <1>2, <1>3
    <2>2. olate' \in BOOLEAN /\ (olate => olate') /\ (~olate' => ~olate)
      BY <2>1, Zenon DEF OhciInv, OhciTypes
    <2>3. ~olate => oxfer.retired = oxfer.n /\ OwnTds(oqueue) = 0 /\ (s.ret = 1 => oxfer.cc <= 3)
      BY <1>1, <1>3, OhciAllClaimed
    <2>4. QED
      BY <1>2, <2>1, <2>2, <2>3, OhciFinishes
  <1>4. CASE s.count # 0
    BY <1>1, <1>2, <1>4, OhciWaitsOn
  <1>5. QED
    BY <1>3, <1>4

\* A transfer is given up.
LEMMA OhciTimesOut ==
    ASSUME OhciInv, O!ClaimTimeout
    PROVE  OhciInv'
  <1>1. /\ opc = "claim" /\ ~owd /\ O!Finish(FALSE, FALSE) /\ UNCHANGED <<oqueue, ohcca, owd>>
        /\ olate' = (olate \/ oxfer.retired < oxfer.n \/ oqueue # <<>>)
    BY DEF O!ClaimTimeout
  <1>2. olate' \in BOOLEAN /\ (olate => olate') /\ (~olate' => oqueue = <<>>)
    BY <1>1, Zenon DEF OhciInv, OhciTypes
  <1>3. ohcca' = <<>> /\ owd' = FALSE
    BY <1>1 DEF OhciInv, OhciTypes
  <1>4. QED
    BY <1>1, <1>2, <1>3, OhciFinishes, OwnTdsNone

\* Every step of the OHCI driver and its controller.
LEMMA OhciStep == OhciInv /\ [O!Next]_ovars => OhciInv'
  <1> SUFFICES ASSUME OhciInv, [O!Next]_ovars PROVE OhciInv'
    OBVIOUS
  <1>1. ASSUME UNCHANGED <<oxfer, oresult, oqueue, ohcca, owd, olate>>,
               opc' = opc \/ (opc = "wait" /\ opc' = "claim")
        PROVE  OhciInv'
    <2>1. OhciTypes'
      BY <1>1 DEF OhciInv, OhciTypes
    <2>2. OhciCounted' = OhciCounted /\ OhciFailureKept' = OhciFailureKept /\ O!ResultRight' = O!ResultRight
      BY <1>1 DEF OhciCounted, OhciFailureKept, O!ResultRight
    <2>3. QED
      BY <1>1, <2>1, <2>2 DEF OhciInv
  <1>2. CASE UNCHANGED ovars
    BY <1>1, <1>2 DEF ovars
  <1>3. CASE O!WaitEnds
    BY <1>1, <1>3 DEF O!WaitEnds
  <1>4. CASE O!ohci_get_pipe_intr
    BY <1>1, <1>4 DEF O!ohci_get_pipe_intr
  <1>5. CASE O!ohci_put_pipe_intr
    BY <1>1, <1>5 DEF O!ohci_put_pipe_intr
  <1>6. CASE O!ohci_poll_intr
    BY <1>1, <1>6 DEF O!ohci_poll_intr
  <1>7. QED
    BY <1>2, <1>3, <1>4, <1>5, <1>6, OhciReset, OhciStarts, OhciProcesses, OhciTimesOut, OhciRetires,
       OhciReports, OhciHandsOver DEF O!Next

-----------------------------------------------------------------------------
(* The descriptors of EHCI.                                                *)

\* A set of numbers that is not empty has a least one.
LEMMA Least ==
    ASSUME NEW S \in SUBSET Nat, S # {}
    PROVE  \E n \in S : \A m \in Nat : m < n => m \notin S
  <1> DEFINE A == {m \in Nat : \A k \in 0 .. m : k \notin S}
  <1> SUFFICES ASSUME ~\E n \in S : \A m \in Nat : m < n => m \notin S PROVE FALSE
    OBVIOUS
  <1>1. 0 \in A
    <2>1. 0 \notin S
      OBVIOUS
    <2>2. QED
      BY <2>1
  <1>2. ASSUME NEW m \in A PROVE m + 1 \in A
    <2>1. m \in Nat /\ \A k \in 0 .. m : k \notin S
      OBVIOUS
    <2>2. m + 1 \notin S
      <3> SUFFICES ASSUME m + 1 \in S PROVE FALSE
        OBVIOUS
      <3>1. \A k \in Nat : k < m + 1 => k \notin S
        BY <2>1
      <3>2. QED
        BY <3>1
    <2>3. QED
      BY <2>1, <2>2
  <1>3. A = Nat
    BY <1>1, <1>2, Inductively
  <1>4. \A m \in Nat : m \notin S
    <2> SUFFICES ASSUME NEW m \in Nat PROVE m \notin S
      OBVIOUS
    <2>1. m \in A
      BY <1>3
    <2>2. QED
      BY <2>1
  <1>5. QED
    BY <1>4

-----------------------------------------------------------------------------
(* The descriptors of an EHCI bulk transfer.                               *)

\* The bytes a descriptor can cover from the start of a page on.
HSpan == HBuffers * HPage

\* The assumptions on the sizes of EHCI pages and transfers.
LEMMA EhciConstants ==
    /\ HPage \in Nat \ {0} /\ HBuffers \in Nat \ {0} /\ NUM_BULK_QTDS \in Nat \ {0}
    /\ HSpan \in Nat \ {0} /\ HMaxTransfer \in Nat
    /\ NUM_BULK_QTDS * HSpan \in Nat /\ HMaxTransfer <= NUM_BULK_QTDS * HSpan - HPage
  <1>1. /\ HPage \in Nat \ {0} /\ HBuffers \in Nat \ {0} /\ NUM_BULK_QTDS \in Nat \ {0}
        /\ HMaxTransfer \in Nat /\ HMaxTransfer <= NUM_BULK_QTDS * HBuffers * HPage - HPage
    BY UsbAssumption DEF H!ConstantsOK
  <1>2. NUM_BULK_QTDS * HBuffers * HPage = NUM_BULK_QTDS * HSpan
    BY <1>1 DEF HSpan
  <1>3. QED
    BY <1>1, <1>2 DEF HSpan

\* Division by the size of a page.
LEMMA DivMultiple ==
    ASSUME NEW k \in Nat, NEW b \in Nat \ {0}
    PROVE  (k * b) \div b = k
  OBVIOUS

\* A position before a multiple lies in an earlier page.
LEMMA DivBelow ==
    ASSUME NEW k \in Nat, NEW b \in Nat \ {0}, NEW x \in Int, x < k * b
    PROVE  x \div b < k /\ x \div b \in Int
  OBVIOUS

\* A position in the first page.
LEMMA DivInside ==
    ASSUME NEW b \in Nat \ {0}, NEW x \in 0 .. (b - 1)
    PROVE  x \div b = 0
  OBVIOUS

\* A descriptor that starts in the first page, or at the k-th multiple of the span,
\* covers what lies before the next multiple.
LEMMA FilledUp ==
    ASSUME NEW k \in Nat, NEW at \in Nat, NEW size \in Nat,
           at = k * HSpan \/ (k = 0 /\ at \in 0 .. (HPage - 1))
    PROVE  H!fill_qtd_buff(at, size) =
             IF at + size > (k + 1) * HSpan THEN at + size - (k + 1) * HSpan ELSE 0
  <1>1. at \div HPage = k * HBuffers
    <2>1. CASE at = k * HSpan
      <3>1. at = (k * HBuffers) * HPage /\ k * HBuffers \in Nat
        BY <2>1, EhciConstants DEF HSpan
      <3>2. QED
        BY <3>1, DivMultiple, EhciConstants
    <2>2. CASE k = 0 /\ at \in 0 .. (HPage - 1)
      BY <2>2, DivInside, EhciConstants
    <2>3. QED
      BY <2>1, <2>2
  <1>2. (at + HPage) \div HPage = at \div HPage + 1
    BY EhciConstants
  <1>3. (k * HBuffers + 1) * HPage + (HBuffers - 1) * HPage = (k + 1) * HSpan
    BY EhciConstants DEF HSpan
  <1>4. QED
    BY <1>1, <1>2, <1>3 DEF H!fill_qtd_buff

\* Where the k-th descriptor ends.
HLeft(off, size, k) == IF k = 0 THEN size
                       ELSE IF off + size > k * HSpan THEN off + size - k * HSpan ELSE 0

\* What is left before each descriptor is what fill_qtd_buff leaves.
LEMMA HLeftNext ==
    ASSUME NEW off \in 0 .. (HPage - 1), NEW size \in Nat, NEW k \in Nat
    PROVE  /\ HLeft(off, size, k) \in Nat /\ HLeft(off, size, k) <= off + size
           /\ HLeft(off, size, k + 1) =
                H!fill_qtd_buff(off + size - HLeft(off, size, k), HLeft(off, size, k))
  <1> DEFINE x == HLeft(off, size, k)
             T == off + size
  <1>1. k * HSpan \in Nat /\ (k + 1) * HSpan = k * HSpan + HSpan /\ HSpan \in Nat \ {0} /\ HPage \in Nat
        /\ off \in Nat /\ HPage <= HSpan
    BY EhciConstants DEF HSpan
  <1>2. x \in Nat /\ x <= T /\ T - x \in Nat /\ (T - x) + x = T
    BY <1>1 DEF HLeft
  <1>3. HLeft(off, size, k + 1) = IF off + size > (k + 1) * HSpan
                                  THEN off + size - (k + 1) * HSpan ELSE 0
    <2>1. k + 1 # 0
      OBVIOUS
    <2>2. QED
      BY <2>1 DEF HLeft
  <1>4. CASE k = 0 \/ T > k * HSpan
    <2>1. T - x = k * HSpan \/ (k = 0 /\ T - x \in 0 .. (HPage - 1))
      BY <1>1, <1>4 DEF HLeft
    <2> HIDE DEF x, T
    <2>2. H!fill_qtd_buff(T - x, x) = IF (T - x) + x > (k + 1) * HSpan
                                      THEN (T - x) + x - (k + 1) * HSpan ELSE 0
      BY <1>2, <2>1, FilledUp
    <2>3. H!fill_qtd_buff(T - x, x) = HLeft(off, size, k + 1)
      <3>1. HLeft(off, size, k + 1) = IF T > (k + 1) * HSpan THEN T - (k + 1) * HSpan ELSE 0
        BY <1>1, <1>3 DEF T
      <3>2. QED
        <4>1. T \in Int /\ x \in Int /\ (k + 1) * HSpan \in Int
          BY <1>1, <1>2 DEF T
        <4>2. QED
          BY <1>2, <2>2, <3>1, <4>1
    <2>4. QED
      BY <1>2, <2>3 DEF x, T
  <1>5. CASE k # 0 /\ ~(T > k * HSpan)
    <2>1. x = 0 /\ T - x = T
      BY <1>1, <1>5 DEF HLeft
    <2>2. HLeft(off, size, k + 1) = 0
      BY <1>1, <1>3, <1>5
    <2>3. H!fill_qtd_buff(T, 0) = 0
      <3>1. T + HPage < ((T + HPage) \div HPage) * HPage + HPage
        BY <1>1, EhciConstants
      <3>2. (HBuffers - 1) * HPage \in Nat /\ ((T + HPage) \div HPage) * HPage \in Int
        BY EhciConstants, <1>1
      <3>3. ~(T + 0 > ((T + HPage) \div HPage) * HPage + (HBuffers - 1) * HPage)
        BY <1>1, <3>1, <3>2
      <3>4. QED
        BY <3>3 DEF H!fill_qtd_buff
    <2>4. QED
      BY <1>2, <2>1, <2>2, <2>3
  <1>6. QED
    BY <1>2, <1>4, <1>5

\* So that is what Left computes.
LEMMA LeftIs ==
    ASSUME NEW off \in 0 .. (HPage - 1), NEW size \in Nat
    PROVE  \A k \in 0 .. NUM_BULK_QTDS : H!Left(off, size)[k] = HLeft(off, size, k)
  <1> DEFINE N == 0 .. NUM_BULK_QTDS
             Step(f) == [k \in N |-> IF k = 0 THEN size
                                     ELSE H!fill_qtd_buff(off + size - f[k - 1], f[k - 1])]
             g == [k \in N |-> HLeft(off, size, k)]
             rem == CHOOSE f : f = Step(f)
  <1>1. H!Left(off, size) = rem
    BY DEF H!Left
  <1>2. g = Step(g)
    <2>1. ASSUME NEW k \in N PROVE g[k] = Step(g)[k]
      <3>1. CASE k = 0
        BY <3>1 DEF HLeft
      <3>2. CASE k # 0
        <4>1. k - 1 \in Nat /\ k - 1 \in N /\ (k - 1) + 1 = k
          BY <3>2, EhciConstants
        <4>2. HLeft(off, size, (k - 1) + 1) =
                H!fill_qtd_buff(off + size - HLeft(off, size, k - 1), HLeft(off, size, k - 1))
          BY <4>1, HLeftNext
        <4>3. g[k - 1] = HLeft(off, size, k - 1) /\ g[k] = HLeft(off, size, k)
          BY <4>1
        <4> HIDE DEF g
        <4>4. Step(g)[k] = H!fill_qtd_buff(off + size - g[k - 1], g[k - 1])
          BY <3>2
        <4>5. QED
          BY <4>1, <4>2, <4>3, <4>4
      <3>3. QED
        BY <3>1, <3>2
    <2>2. g = [k \in N |-> g[k]] /\ Step(g) = [k \in N |-> Step(g)[k]]
      OBVIOUS
    <2> HIDE DEF g, Step, N
    <2>3. QED
      BY <2>1, <2>2, Zenon
  <1> HIDE DEF g
  <1>3. rem = Step(rem)
    <2> HIDE DEF Step
    <2>1. QED
      BY <1>2
  <1> HIDE DEF rem
  <1> DEFINE S == {k \in Nat : k \in N => rem[k] = HLeft(off, size, k)}
  <1>4. 0 \in S
    <2>1. 0 \in N => rem[0] = size
      BY <1>3
    <2>2. QED
      BY <2>1 DEF HLeft
  <1>5. ASSUME NEW k \in S PROVE k + 1 \in S
    <2>1. k \in Nat /\ k + 1 \in Nat
      OBVIOUS
    <2> SUFFICES ASSUME k + 1 \in N PROVE rem[k + 1] = HLeft(off, size, k + 1)
      BY <2>1
    <2>2. k \in N /\ k + 1 # 0 /\ (k + 1) - 1 = k
      BY <2>1, EhciConstants
    <2>3. rem[k] = HLeft(off, size, k)
      BY <2>2
    <2>4. rem[k + 1] = H!fill_qtd_buff(off + size - rem[k], rem[k])
      <3>1. rem[k + 1] = H!fill_qtd_buff(off + size - rem[(k + 1) - 1], rem[(k + 1) - 1])
        BY <1>3, <2>2
      <3>2. QED
        BY <2>2, <3>1
    <2>5. QED
      BY <2>1, <2>3, <2>4, HLeftNext
  <1>6. S = Nat
    <2> HIDE DEF S
    <2>1. S \in SUBSET Nat
      BY DEF S
    <2>2. QED
      BY <1>4, <1>5, <2>1, Inductively
  <1>7. ASSUME NEW k \in N PROVE rem[k] = HLeft(off, size, k)
    <2>1. k \in Nat
      BY EhciConstants
    <2>2. k \in S
      BY <1>6, <2>1
    <2>3. QED
      BY <2>2
  <1>8. QED
    BY <1>1, <1>7

\* The number of descriptors: the last leaves nothing over, the others do.
LEMMA CountIs ==
    ASSUME NEW off \in 0 .. (HPage - 1), NEW size \in 1 .. HMaxTransfer
    PROVE  LET n == H!QtdCount(H!Left(off, size)) IN
           /\ n \in 1 .. NUM_BULK_QTDS /\ HLeft(off, size, n) = 0
           /\ \A j \in 0 .. (n - 1) : HLeft(off, size, j) # 0
  <1> DEFINE rem == H!Left(off, size)
             n == H!QtdCount(rem)
             N == NUM_BULK_QTDS
  <1>1. \A k \in 0 .. N : rem[k] = HLeft(off, size, k)
    BY LeftIs, EhciConstants
  <1>2. rem[N] = 0
    <2>1. N \in 0 .. N /\ N # 0
      BY EhciConstants
    <2>2. ~(off + size > N * HSpan)
      BY EhciConstants
    <2>3. HLeft(off, size, N) = 0
      BY <2>1, <2>2 DEF HLeft
    <2>4. QED
      BY <1>1, <2>1, <2>3
  <1> HIDE DEF rem
  <1> DEFINE S == {k \in 1 .. N : rem[k] = 0}
  <1>3. \E k \in 1 .. N : (rem[k] = 0 \/ k = N) /\ \A j \in 1 .. (k - 1) : rem[j] # 0
    <2>1. S \in SUBSET Nat /\ S # {}
      BY <1>2, EhciConstants
    <2>2. PICK k \in S : \A m \in Nat : m < k => m \notin S
      <3> HIDE DEF S
      <3>1. QED
        BY <2>1, Least
    <2>3. k \in 1 .. N /\ rem[k] = 0 /\ \A j \in 1 .. (k - 1) : j \in Nat /\ j < k /\ j \in 1 .. N
      BY <2>2, EhciConstants
    <2>4. QED
      BY <2>2, <2>3
  <1>4. n \in 1 .. N /\ (rem[n] = 0 \/ n = N) /\ \A j \in 1 .. (n - 1) : rem[j] # 0
    BY <1>3 DEF H!QtdCount
  <1> HIDE DEF n
  <1>5. n \in 0 .. N /\ \A j \in 1 .. (n - 1) : j \in 0 .. N
    BY <1>4, EhciConstants
  <1>6. HLeft(off, size, 0) # 0
    BY EhciConstants DEF HLeft
  <1>7. \A j \in 0 .. (n - 1) : j = 0 \/ j \in 1 .. (n - 1)
    BY <1>4, EhciConstants
  <1>8. QED
    BY <1>1, <1>2, <1>4, <1>5, <1>6, <1>7 DEF n, rem

QtdRecords == [from : Int, len : Int, active : BOOLEAN]

\* The descriptors q cover size bytes from off on.
QtdsCover(q, off, size) ==
    /\ q \in Seq(QtdRecords) /\ Len(q) \in Nat \ {0}
    /\ q[1].from = off
    /\ q[Len(q)].from + q[Len(q)].len = off + size
    /\ \A k \in 2 .. Len(q) : q[k].from = q[k - 1].from + q[k - 1].len
    /\ \A k \in 1 .. Len(q) : (q[k].from + q[k].len - 1) \div HPage - q[k].from \div HPage < HBuffers

\* The descriptors of a bulk transfer cover its data.
LEMMA QtdsRight ==
    ASSUME NEW off \in 0 .. (HPage - 1), NEW size \in 1 .. HMaxTransfer
    PROVE  QtdsCover(H!Qtds(off, size), off, size)
  <1> DEFINE rem == H!Left(off, size)
             n == H!QtdCount(rem)
             q == H!Qtds(off, size)
             L(k) == HLeft(off, size, k)
             T == off + size
  <1>1. off \in Nat /\ size \in Nat /\ T \in Nat
    BY EhciConstants
  <1>2. n \in 1 .. NUM_BULK_QTDS /\ L(n) = 0 /\ \A j \in 0 .. (n - 1) : L(j) # 0
    BY CountIs
  <1>3. \A k \in 0 .. n : L(k) \in Nat /\ rem[k] = L(k)
    <2> SUFFICES ASSUME NEW k \in 0 .. n PROVE L(k) \in Nat /\ rem[k] = L(k)
      OBVIOUS
    <2>1. k \in Nat /\ k \in 0 .. NUM_BULK_QTDS
      BY <1>2, EhciConstants
    <2>2. QED
      BY <1>1, <2>1, LeftIs, HLeftNext
  <1>4. q = [k \in 1 .. n |-> [from |-> off + size - rem[k - 1], len |-> rem[k - 1] - rem[k], active |-> TRUE]]
    BY DEF H!Qtds
  <1> HIDE DEF q, n, rem, L, T
  <1>5. n \in Nat \ {0}
    BY <1>2, EhciConstants
  <1>6. ASSUME NEW k \in 1 .. n
        PROVE  /\ q[k] \in QtdRecords /\ q[k].from = T - L(k - 1) /\ q[k].len = L(k - 1) - L(k)
               /\ L(k) \in Nat /\ L(k - 1) \in Nat /\ L(k - 1) # 0
    <2>1. k \in 0 .. n /\ k - 1 \in 0 .. n /\ k - 1 \in 0 .. (n - 1)
      BY <1>5
    <2>2. q[k] = [from |-> off + size - rem[k - 1], len |-> rem[k - 1] - rem[k], active |-> TRUE]
      BY <1>4
    <2>3. off + size - L(k - 1) = T - L(k - 1)
      BY <1>1, <1>3, <2>1 DEF T
    <2>4. rem[k] = L(k) /\ rem[k - 1] = L(k - 1)
      BY <1>3, <2>1
    <2>5. L(k) \in Nat /\ L(k - 1) \in Nat /\ L(k - 1) # 0
      BY <1>2, <1>3, <2>1
    <2>6. q[k] = [from |-> T - L(k - 1), len |-> L(k - 1) - L(k), active |-> TRUE]
      BY <2>2, <2>3, <2>4
    <2>7. T - L(k - 1) \in Int /\ L(k - 1) - L(k) \in Int
      BY <1>1, <2>5
    <2>8. QED
      BY <2>5, <2>6, <2>7 DEF QtdRecords
  <1>7. q \in Seq(QtdRecords) /\ Len(q) = n
    <2>1. \A k \in 1 .. n : q[k] \in QtdRecords
      BY <1>6
    <2>2. DOMAIN q = 1 .. n /\ q = [k \in 1 .. n |-> q[k]]
      BY <1>4
    <2>3. q \in [1 .. n -> QtdRecords]
      BY <2>1, <2>2
    <2>4. QED
      BY <1>5, <2>3
  <1>8. L(0) = size
    BY DEF L, HLeft
  <1>9. q[1].from = off
    <2>1. 1 \in 1 .. n /\ 1 - 1 = 0
      BY <1>5
    <2>2. q[1].from = T - L(0)
      BY <1>6, <2>1
    <2>3. QED
      BY <1>1, <1>8, <2>2 DEF T
  <1>10. q[n].from + q[n].len = T
    <2>1. n \in 1 .. n
      BY <1>5
    <2>2. q[n].from = T - L(n - 1) /\ q[n].len = L(n - 1) - L(n) /\ L(n - 1) \in Nat
      BY <1>6, <2>1
    <2>3. QED
      BY <1>1, <1>2, <2>2
  <1>11. ASSUME NEW k \in 2 .. n PROVE q[k].from = q[k - 1].from + q[k - 1].len
    <2>1. k \in 1 .. n /\ k - 1 \in 1 .. n
      BY <1>5
    <2>2. q[k].from = T - L(k - 1) /\ L(k - 1) \in Nat
      BY <1>6, <2>1
    <2>3. q[k - 1].from = T - L(k - 1 - 1) /\ q[k - 1].len = L(k - 1 - 1) - L(k - 1) /\ L(k - 1 - 1) \in Nat
      BY <1>6, <2>1
    <2>4. QED
      BY <1>1, <2>2, <2>3
  <1>12. ASSUME NEW k \in 1 .. n
         PROVE  (q[k].from + q[k].len - 1) \div HPage - q[k].from \div HPage < HBuffers
    <2>1. /\ q[k].from = T - L(k - 1) /\ q[k].len = L(k - 1) - L(k)
          /\ L(k) \in Nat /\ L(k - 1) \in Nat /\ L(k - 1) # 0
      BY <1>6
    <2>2. k \in Nat \ {0} /\ k - 1 \in Nat
      BY <1>5
    <2>3. q[k].from + q[k].len - 1 = T - L(k) - 1
      BY <1>1, <2>1
    <2>4. T - L(k) - 1 < (k * HBuffers) * HPage
      <3>1. T - L(k) <= k * HSpan
        BY <1>1, <2>2, EhciConstants DEF L, HLeft, T
      <3>2. k * HSpan = (k * HBuffers) * HPage /\ k * HSpan \in Nat
        BY <2>2, EhciConstants DEF HSpan
      <3>3. QED
        BY <1>1, <2>1, <3>1, <3>2
    <2>5. (T - L(k) - 1) \div HPage < k * HBuffers /\ (T - L(k) - 1) \div HPage \in Int
      <3>1. k * HBuffers \in Nat /\ T - L(k) - 1 \in Int
        BY <1>1, <2>1, <2>2, EhciConstants
      <3>2. QED
        BY <2>4, <3>1, DivBelow, EhciConstants
    <2>6. (T - L(k - 1)) \div HPage = (k - 1) * HBuffers
      <3>1. CASE k = 1
        <4>1. T - L(k - 1) = off /\ (k - 1) * HBuffers = 0
          BY <1>1, <1>8, <3>1, EhciConstants DEF T
        <4>2. QED
          BY <4>1, DivInside, EhciConstants
      <3>2. CASE k # 1
        <4>1. k - 1 # 0 /\ L(k - 1) = IF T > (k - 1) * HSpan THEN off + size - (k - 1) * HSpan ELSE 0
          BY <2>2, <3>2 DEF L, HLeft, T
        <4>2. (k - 1) * HSpan = ((k - 1) * HBuffers) * HPage /\ (k - 1) * HSpan \in Nat
              /\ (k - 1) * HBuffers \in Nat
          BY <2>2, EhciConstants DEF HSpan
        <4>3. T - L(k - 1) = ((k - 1) * HBuffers) * HPage
          BY <1>1, <2>1, <4>1, <4>2 DEF T
        <4>4. QED
          BY <4>2, <4>3, DivMultiple, EhciConstants
      <3>3. QED
        BY <3>1, <3>2
    <2>7. k * HBuffers = (k - 1) * HBuffers + HBuffers /\ (k - 1) * HBuffers \in Int /\ k * HBuffers \in Int
      BY <2>2, EhciConstants
    <2>8. QED
      BY <2>1, <2>3, <2>5, <2>6, <2>7, EhciConstants
  <1>13. QED
    BY <1>5, <1>7, <1>9, <1>10, <1>11, <1>12 DEF QtdsCover, q, T

\* The first k descriptors are done.
QtdsDone(k) == \A j \in 1 .. k : ~hqtd[j].active

EhciTypes ==
    /\ hpc \in {"off", "idle", "ctrl", "bulk", "detach"}
    /\ hqtd \in Seq(QtdRecords) /\ Len(hqtd) \in Nat
    /\ hstuck \in BOOLEAN /\ hret \in BOOLEAN /\ husing \in BOOLEAN

\* How far the driver has come: to hat while it waits, and over all but the last
\* descriptor when it takes the queue head out with success.
EhciProgress ==
    /\ hpc \in {"ctrl", "bulk"} => hat \in 1 .. Len(hqtd) /\ QtdsDone(hat - 1)
    /\ hpc = "ctrl" => hat < Len(hqtd)
    /\ (hpc = "detach" /\ hret) => QtdsDone(Len(hqtd) - 1)

EhciLinked ==
    /\ hlinked => hpc \in {"ctrl", "bulk"}
    /\ hpc \in {"ctrl", "bulk", "detach"} => hmapped
    /\ H!ReleasedFirst

EhciCovers == hdata # None => QtdsCover(hqtd, hdata.off, hdata.size)

EhciInv == EhciTypes /\ EhciProgress /\ EhciLinked /\ EhciCovers /\ H!DoneButLast

\* What follows from the invariant of EHCI.
LEMMA EhciRight == EhciInv => H!DoneButLast /\ H!BulkCovered /\ H!ReleasedFirst
  <1> SUFFICES ASSUME EhciInv PROVE H!DoneButLast /\ H!BulkCovered /\ H!ReleasedFirst
    OBVIOUS
  <1>1. hdata # None => DOMAIN hqtd = 1 .. Len(hqtd)
    BY DEF EhciInv, EhciTypes
  <1>2. H!BulkCovered
    BY <1>1 DEF EhciInv, EhciCovers, QtdsCover, H!BulkCovered
  <1>3. QED
    BY <1>2 DEF EhciInv, EhciLinked

\* At the start.
LEMMA EhciInitially == H!Init => EhciInv
  <1> SUFFICES ASSUME H!Init PROVE EhciInv
    OBVIOUS
  <1>1. EhciTypes
    <2>1. <<>> \in Seq(QtdRecords) /\ Len(<<>>) \in Nat
      OBVIOUS
    <2>2. QED
      BY <2>1, Zenon DEF H!Init, EhciTypes
  <1>2. EhciProgress /\ EhciLinked /\ EhciCovers /\ H!DoneButLast
    BY DEF H!Init, EhciProgress, EhciLinked, EhciCovers, H!DoneButLast, H!ReleasedFirst
  <1>3. QED
    BY <1>1, <1>2 DEF EhciInv

\* ehci_hcd_init and ehci_hcd_exit.
LEMMA EhciOnOff ==
    ASSUME EhciInv, H!ehci_hcd_init \/ H!ehci_hcd_exit
    PROVE  EhciInv'
  <1>1. CASE H!ehci_hcd_init
    <2>1. EhciTypes'
      BY <1>1 DEF H!ehci_hcd_init, EhciInv, EhciTypes
    <2>2. EhciProgress' /\ EhciLinked' /\ EhciCovers' /\ H!DoneButLast'
      BY <1>1 DEF H!ehci_hcd_init, EhciInv, EhciProgress, EhciLinked, EhciCovers, H!DoneButLast, H!ReleasedFirst
    <2>3. QED
      BY <2>1, <2>2 DEF EhciInv
  <1>2. CASE H!ehci_hcd_exit
    <2>1. EhciTypes'
      <3>1. <<>> \in Seq(QtdRecords) /\ Len(<<>>) \in Nat
        OBVIOUS
      <3>2. hqtd' = <<>> /\ hpc' = "off" /\ hstuck' = FALSE /\ husing' = FALSE /\ hret' = hret
        BY <1>2 DEF H!ehci_hcd_exit
      <3>3. QED
        BY <3>1, <3>2, Zenon DEF EhciInv, EhciTypes
    <2>2. EhciProgress' /\ EhciLinked' /\ EhciCovers' /\ H!DoneButLast'
      BY <1>2 DEF H!ehci_hcd_exit, EhciInv, EhciProgress, EhciLinked, EhciCovers, H!DoneButLast, H!ReleasedFirst
    <2>3. QED
      BY <2>1, <2>2 DEF EhciInv
  <1>3. QED
    BY <1>1, <1>2

\* A transfer is linked into the schedule.
LEMMA EhciLinks ==
    ASSUME EhciInv, ~hstuck, UNCHANGED <<husing, hresult, hstuck>>, NEW q \in Seq(QtdRecords), Len(q) \in Nat \ {0},
           H!Link(q, "bulk") \/ (H!Link(q, "ctrl") /\ Len(q) > 1),
           hdata' # None => QtdsCover(q, hdata'.off, hdata'.size)
    PROVE  EhciInv'
  <1>1. /\ hqtd' = q /\ hat' = 1 /\ hret' = TRUE /\ hmapped' = TRUE /\ hlinked' = TRUE
        /\ hpc' \in {"ctrl", "bulk"} /\ (hpc' = "ctrl" => Len(q) > 1)
    BY DEF H!Link
  <1>2. EhciTypes'
    BY <1>1 DEF EhciInv, EhciTypes
  <1>3. EhciProgress'
    <2>1. hat' \in 1 .. Len(hqtd') /\ QtdsDone(hat - 1)'
      BY <1>1 DEF QtdsDone
    <2>2. QED
      BY <1>1, <2>1 DEF EhciProgress
  <1>4. EhciLinked' /\ EhciCovers' /\ H!DoneButLast'
    BY <1>1 DEF EhciInv, EhciLinked, EhciCovers, H!DoneButLast, H!ReleasedFirst
  <1>5. QED
    BY <1>2, <1>3, <1>4 DEF EhciInv

\* A control transfer is linked.
LEMMA EhciCtrlStarts ==
    ASSUME EhciInv, NEW n \in {2, 3}, H!ehci_send_ctrl(n)
    PROVE  EhciInv'
  <1> DEFINE q == [k \in 1 .. n |-> [from |-> 0, len |-> 0, active |-> TRUE]]
  <1>1. q \in Seq(QtdRecords) /\ Len(q) = n /\ n \in Nat \ {0} /\ n > 1
    <2>1. q \in [1 .. n -> QtdRecords]
      BY DEF QtdRecords
    <2> HIDE DEF q
    <2>2. QED
      BY <2>1
  <1>2. H!Link(q, "ctrl") /\ hdata' = None /\ ~hstuck /\ UNCHANGED <<husing, hresult, hstuck>>
    BY DEF H!ehci_send_ctrl
  <1> HIDE DEF q
  <1>3. QED
    BY <1>1, <1>2, EhciLinks

\* A bulk transfer is linked.
LEMMA EhciBulkStarts ==
    ASSUME EhciInv, NEW off \in 0 .. (HPage - 1), NEW size \in 1 .. HMaxTransfer, H!ehci_transfer_bulk(off, size)
    PROVE  EhciInv'
  <1> DEFINE q == H!Qtds(off, size)
  <1>1. QtdsCover(q, off, size)
    BY QtdsRight
  <1>2. H!Link(q, "bulk") /\ hdata' = [off |-> off, size |-> size] /\ ~hstuck /\ UNCHANGED <<husing, hresult, hstuck>>
    BY DEF H!ehci_transfer_bulk
  <1> HIDE DEF q
  <1>3. hdata'.off = off /\ hdata'.size = size /\ q \in Seq(QtdRecords) /\ Len(q) \in Nat \ {0}
    BY <1>1, <1>2 DEF QtdsCover
  <1>4. QED
    BY <1>1, <1>2, <1>3, EhciLinks

\* The driver goes on to the next descriptor, or takes the queue head out.
LEMMA EhciWaits ==
    ASSUME EhciInv, H!CtrlStep \/ H!CtrlTimeout \/ H!BulkStep
    PROVE  EhciInv'
  <1>1. /\ hpc \in {"ctrl", "bulk"} /\ UNCHANGED <<hdata, hqtd, hmapped, husing, hresult, hstuck>>
        /\ hat \in 1 .. Len(hqtd) /\ QtdsDone(hat - 1) /\ Len(hqtd) \in Nat
        /\ hpc = "ctrl" => hat < Len(hqtd)
    BY DEF EhciInv, EhciTypes, EhciProgress, H!CtrlStep, H!CtrlTimeout, H!BulkStep
  <1>2. ~hqtd[hat].active => QtdsDone(hat)
    BY <1>1 DEF QtdsDone
  <1>3. \/ /\ hpc' = "detach" /\ hret' \in BOOLEAN /\ hlinked' = FALSE
           /\ hret' => QtdsDone(Len(hqtd) - 1)
        \/ /\ UNCHANGED <<hpc, hret, hlinked>> /\ hat' = hat + 1 /\ QtdsDone(hat)
           /\ hat' \in 1 .. Len(hqtd) /\ (hpc = "ctrl" => hat' < Len(hqtd))
    <2>1. CASE H!CtrlStep
      <3>1. hat' = hat + 1 /\ hat = hat' - 1
        BY <1>1, <2>1 DEF H!CtrlStep
      <3>2. CASE hat' = Len(hqtd)
        BY <1>1, <1>2, <2>1, <3>1, <3>2 DEF H!CtrlStep, H!Unlink
      <3>3. CASE hat' # Len(hqtd)
        <4>1. hat' \in 1 .. Len(hqtd) /\ hat' < Len(hqtd)
          BY <1>1, <2>1, <3>1, <3>3 DEF H!CtrlStep
        <4>2. QED
          BY <1>1, <1>2, <2>1, <3>1, <3>3, <4>1 DEF H!CtrlStep
      <3>4. QED
        BY <3>2, <3>3
    <2>2. CASE H!CtrlTimeout
      BY <2>2 DEF H!CtrlTimeout, H!Unlink
    <2>3. CASE H!BulkStep
      <3>1. CASE hat = Len(hqtd)
        BY <1>1, <2>3, <3>1 DEF H!BulkStep, H!Unlink
      <3>2. CASE hat # Len(hqtd) /\ ~hqtd[hat].active
        <4>1. hat + 1 \in 1 .. Len(hqtd)
          BY <1>1, <3>2
        <4>2. QED
          BY <1>1, <1>2, <2>3, <3>2, <4>1 DEF H!BulkStep, H!BulkMayGoOn
      <3>3. CASE hat # Len(hqtd) /\ hqtd[hat].active
        BY <1>1, <2>3, <3>3 DEF H!BulkStep, H!Unlink, H!BulkMayGoOn
      <3>4. QED
        BY <3>1, <3>2, <3>3
    <2>4. QED
      BY <2>1, <2>2, <2>3
  <1>4. EhciTypes'
    BY <1>1, <1>3 DEF EhciInv, EhciTypes
  <1>5. EhciProgress'
    <2>1. CASE hpc' = "detach" /\ (hret' => QtdsDone(Len(hqtd) - 1))
      BY <1>1, <2>1 DEF EhciProgress, QtdsDone
    <2>2. CASE /\ UNCHANGED <<hpc, hret, hlinked>> /\ hat' = hat + 1 /\ QtdsDone(hat)
               /\ hat' \in 1 .. Len(hqtd) /\ (hpc = "ctrl" => hat' < Len(hqtd))
      <3>1. hat' - 1 = hat
        BY <1>1, <2>2
      <3>2. QtdsDone(hat - 1)'
        BY <1>1, <2>2, <3>1 DEF QtdsDone
      <3>3. QED
        BY <1>1, <2>2, <3>2 DEF EhciProgress
    <2>3. QED
      BY <1>3, <2>1, <2>2
  <1>6. EhciLinked' /\ EhciCovers' /\ H!DoneButLast'
    BY <1>1, <1>3 DEF EhciInv, EhciLinked, EhciCovers, H!DoneButLast, H!ReleasedFirst
  <1>7. QED
    BY <1>4, <1>5, <1>6 DEF EhciInv

\* The transfer ends: the result is what the driver has seen.
LEMMA EhciEnds ==
    ASSUME EhciInv, H!Detached \/ H!HandshakeFails
    PROVE  EhciInv'
  <1>1. /\ hpc = "detach" /\ hpc' = "idle" /\ hmapped' = FALSE /\ hmapped
        /\ UNCHANGED <<hdata, hqtd, hat, hret, hlinked>> /\ hqtd \in Seq(QtdRecords) /\ Len(hqtd) \in Nat
    BY DEF H!Detached, H!HandshakeFails, H!Complete, EhciInv, EhciLinked, EhciTypes
  <1>2. hstuck' \in BOOLEAN /\ husing' \in BOOLEAN /\ (husing' => hstuck')
    <2>1. CASE H!Detached
      BY <2>1 DEF H!Detached, H!ehci_handshake, EhciInv, EhciTypes
    <2>2. CASE H!HandshakeFails
      BY <2>2, Zenon DEF H!HandshakeFails, EhciInv, EhciTypes
    <2>3. QED
      BY <2>1, <2>2
  <1>3. \E ret : /\ hresult' = [ret |-> ret, left |-> {k \in DOMAIN hqtd : hqtd[k].active}, n |-> Len(hqtd)]
                 /\ ret => hret
    BY DEF H!Detached, H!HandshakeFails, H!Complete
  <1>4. H!DoneButLast'
    <2> SUFFICES ASSUME hresult'.ret PROVE hresult'.left \subseteq {hresult'.n}
      BY DEF H!DoneButLast
    <2>1. PICK ret : /\ hresult' = [ret |-> ret, left |-> {k \in DOMAIN hqtd : hqtd[k].active}, n |-> Len(hqtd)]
                     /\ ret => hret
      BY <1>3
    <2>2. QtdsDone(Len(hqtd) - 1)
      BY <1>1, <2>1 DEF EhciInv, EhciProgress
    <2>3. \A k \in DOMAIN hqtd : hqtd[k].active => k = Len(hqtd)
      <3> SUFFICES ASSUME NEW k \in DOMAIN hqtd, hqtd[k].active, k # Len(hqtd) PROVE FALSE
        OBVIOUS
      <3>1. k \in 1 .. (Len(hqtd) - 1)
        BY <1>1
      <3>2. QED
        BY <2>2, <3>1 DEF QtdsDone
    <2>4. QED
      BY <2>1, <2>3
  <1>5. EhciTypes'
    BY <1>1, <1>2 DEF EhciInv, EhciTypes
  <1>6. EhciProgress' /\ EhciLinked' /\ EhciCovers'
    BY <1>1, <1>2 DEF EhciInv, EhciProgress, EhciLinked, EhciCovers, H!ReleasedFirst
  <1>7. QED
    BY <1>4, <1>5, <1>6 DEF EhciInv

\* The controller takes up the queue head, or finishes a descriptor.
LEMMA EhciWorks ==
    ASSUME EhciInv, H!FetchQueueHead \/ H!ExecuteQtd
    PROVE  EhciInv'
  <1>1. CASE H!FetchQueueHead
    <2>1. EhciTypes'
      BY <1>1 DEF H!FetchQueueHead, EhciInv, EhciTypes
    <2>2. EhciProgress'
      BY <1>1 DEF H!FetchQueueHead, EhciInv, EhciProgress, QtdsDone
    <2>3. EhciLinked' /\ EhciCovers' /\ H!DoneButLast'
      BY <1>1 DEF H!FetchQueueHead, EhciInv, EhciLinked, EhciCovers, H!DoneButLast, H!ReleasedFirst
    <2>4. QED
      BY <2>1, <2>2, <2>3 DEF EhciInv
  <1>2. CASE H!ExecuteQtd
    <2>1. PICK k \in DOMAIN hqtd : hqtd' = [hqtd EXCEPT ![k].active = FALSE]
      BY <1>2 DEF H!ExecuteQtd
    <2>2. UNCHANGED <<hpc, hdata, hat, hret, hmapped, hlinked, husing, hresult, hstuck>>
      BY <1>2 DEF H!ExecuteQtd
    <2>3. hqtd \in Seq(QtdRecords) /\ Len(hqtd) \in Nat /\ DOMAIN hqtd = 1 .. Len(hqtd)
      BY DEF EhciInv, EhciTypes
    <2>4. \A j \in DOMAIN hqtd : hqtd[j] \in QtdRecords
      BY <2>3
    <2>5. /\ hqtd' \in Seq(QtdRecords) /\ Len(hqtd') = Len(hqtd) /\ DOMAIN hqtd' = DOMAIN hqtd
          /\ \A j \in DOMAIN hqtd : /\ hqtd'[j].from = hqtd[j].from /\ hqtd'[j].len = hqtd[j].len
                                    /\ hqtd'[j].active => hqtd[j].active
      <3>1. \A j \in DOMAIN hqtd : /\ hqtd'[j] \in QtdRecords
                                   /\ hqtd'[j].from = hqtd[j].from /\ hqtd'[j].len = hqtd[j].len
                                   /\ hqtd'[j].active => hqtd[j].active
        BY <2>1, <2>4 DEF QtdRecords
      <3>2. DOMAIN hqtd' = 1 .. Len(hqtd) /\ hqtd' \in [1 .. Len(hqtd) -> QtdRecords]
        BY <2>1, <2>3, <3>1
      <3>3. hqtd' \in Seq(QtdRecords) /\ Len(hqtd') = Len(hqtd)
        BY <2>3, <3>2
      <3>4. QED
        BY <2>3, <3>1, <3>2, <3>3
    <2>6. EhciTypes'
      BY <2>2, <2>3, <2>5 DEF EhciInv, EhciTypes
    <2>7. EhciProgress'
      <3>1. ASSUME NEW m \in Int, m <= Len(hqtd), QtdsDone(m) PROVE \A j \in 1 .. m : ~hqtd'[j].active
        BY <2>3, <2>5, <3>1 DEF QtdsDone
      <3>2. hpc \in {"ctrl", "bulk"} => hat \in 1 .. Len(hqtd) /\ QtdsDone(hat - 1)
        BY DEF EhciInv, EhciProgress
      <3>3. hpc \in {"ctrl", "bulk"} => QtdsDone(hat - 1)'
        <4> SUFFICES ASSUME hpc \in {"ctrl", "bulk"} PROVE QtdsDone(hat - 1)'
          OBVIOUS
        <4>1. hat - 1 \in Int /\ hat - 1 <= Len(hqtd) /\ QtdsDone(hat - 1)
          BY <2>3, <3>2
        <4>2. QED
          BY <2>2, <3>1, <4>1 DEF QtdsDone
      <3>4. hpc = "detach" /\ hret => QtdsDone(Len(hqtd) - 1)'
        <4> SUFFICES ASSUME hpc = "detach", hret PROVE QtdsDone(Len(hqtd) - 1)'
          OBVIOUS
        <4>1. Len(hqtd) - 1 \in Int /\ Len(hqtd) - 1 <= Len(hqtd) /\ QtdsDone(Len(hqtd) - 1)
          BY <2>3 DEF EhciInv, EhciProgress
        <4>2. QED
          BY <2>5, <3>1, <4>1 DEF QtdsDone
      <3>5. QED
        BY <2>2, <2>5, <3>2, <3>3, <3>4 DEF EhciInv, EhciProgress
    <2>8. EhciCovers'
      <3> SUFFICES ASSUME hdata # None PROVE QtdsCover(hqtd', hdata.off, hdata.size)
        BY <2>2 DEF EhciCovers
      <3>1. QtdsCover(hqtd, hdata.off, hdata.size)
        BY DEF EhciInv, EhciCovers
      <3>2. /\ 1 \in DOMAIN hqtd /\ Len(hqtd) \in DOMAIN hqtd
            /\ \A j \in 2 .. Len(hqtd) : j \in DOMAIN hqtd /\ j - 1 \in DOMAIN hqtd
        BY <2>3, <3>1 DEF QtdsCover
      <3>3. QED
        BY <2>3, <2>5, <3>1, <3>2 DEF QtdsCover
    <2>9. EhciLinked' /\ H!DoneButLast'
      BY <2>2 DEF EhciInv, EhciLinked, H!DoneButLast, H!ReleasedFirst
    <2>10. QED
      BY <2>6, <2>7, <2>8, <2>9 DEF EhciInv
  <1>3. QED
    BY <1>1, <1>2

\* Every step of the EHCI driver and its controller.
LEMMA EhciStep == EhciInv /\ [H!Next]_hvars => EhciInv'
  <1> SUFFICES ASSUME EhciInv, [H!Next]_hvars PROVE EhciInv'
    OBVIOUS
  <1>1. CASE UNCHANGED hvars
    BY <1>1 DEF hvars, EhciInv, EhciTypes, EhciProgress, EhciLinked, EhciCovers, QtdsDone, QtdsCover,
                H!DoneButLast, H!ReleasedFirst
  <1>2. CASE H!Next
    BY <1>2, EhciOnOff, EhciCtrlStarts, EhciBulkStarts, EhciWaits, EhciEnds, EhciWorks DEF H!Next
  <1>3. QED
    BY <1>1, <1>2

-----------------------------------------------------------------------------
(* The key ring of the keyboard driver.                                    *)

KChars == {"a", "-", "A", "_", "^A", "\\", "ESC", "[", "1", "5", "~"}
KCells == KChars \cup {K!Nothing}
KPlaces == 0 .. (KeybufSize - 1)
KRings == [buf : [KPlaces -> KCells], w : KPlaces]

HidTypes ==
    /\ kcaps \in BOOLEAN /\ kwrapped \in BOOLEAN
    /\ kbuf \in [KPlaces -> KCells] /\ kr \in KPlaces /\ kw \in KPlaces
    /\ kdue \in Seq(KChars)

\* The unread characters lie in the ring, which is never quite full.
HidHolds(buf, w, due) ==
    Len(due) < KeybufSize /\ w = Wrap(kr + Len(due), KeybufSize) /\ RingHolds(buf, kr, due, KeybufSize)

HidInv ==
    /\ HidTypes
    /\ kdown = {klast[1], klast[2]} \ {K!Nothing}
    /\ ~kwrapped => HidHolds(kbuf, kw, kdue)

\* The assumptions on the key ring and the keys.
LEMMA HidConstants == KeybufSize \in Nat \ {0, 1} /\ Keys \subseteq {"a", "dash", "caps", "f5", "up"}
  BY UsbAssumption DEF K!ConstantsOK

\* What a key writes are characters.
LEMMA KeyWritesChars ==
    ASSUME NEW caps, NEW mod, NEW k \in Keys
    PROVE  K!KeyWrites(caps, mod, k) \in Seq(KChars)
  <1>1. CASE k = "caps"
    BY <1>1 DEF K!KeyWrites
  <1>2. CASE k = "f5"
    BY <1>2 DEF K!KeyWrites, KChars
  <1>3. CASE k = "up"
    BY <1>3 DEF K!KeyWrites, KChars
  <1>4. CASE k \in {"a", "dash"}
    <2>1. K!KeyWrites(caps, mod, k) = K!get_char(caps, mod, k)
      BY <1>4 DEF K!KeyWrites
    <2>2. \E c \in KCells : K!get_char(caps, mod, k) = IF c = K!Nothing THEN <<>> ELSE <<c>>
      <3>1. /\ K!keycodes_std_US[k] \in KCells /\ K!keycodes_shift_US[k] \in KCells
            /\ K!keycodes_ctrl[k] \in KCells /\ K!keycodes_alt_GR[k] \in KCells /\ K!Nothing \in KCells
        <4>1. CASE k = "a"
          BY <4>1 DEF K!keycodes_std_US, K!keycodes_shift_US, K!keycodes_ctrl, K!keycodes_alt_GR, KCells, KChars
        <4>2. CASE k = "dash"
          BY <4>2 DEF K!keycodes_std_US, K!keycodes_shift_US, K!keycodes_ctrl, K!keycodes_alt_GR, KCells, KChars
        <4>3. QED
          BY <1>4, <4>1, <4>2
      <3>2. QED
        BY <3>1 DEF K!get_char
    <2>3. PICK c \in KCells : K!get_char(caps, mod, k) = IF c = K!Nothing THEN <<>> ELSE <<c>>
      BY <2>2
    <2>4. CASE c = K!Nothing
      BY <2>1, <2>3, <2>4
    <2>5. CASE c # K!Nothing
      <3>1. c \in KChars
        BY <2>5 DEF KCells
      <3>2. QED
        BY <2>1, <2>3, <2>5, <3>1
    <2>6. QED
      BY <2>4, <2>5
  <1>5. QED
    BY <1>1, <1>2, <1>3, <1>4, HidConstants

\* One key of a report does what the reference says.
LEMMA PressIs ==
    ASSUME kdown = {klast[1], klast[2]} \ {K!Nothing},
           NEW c \in BOOLEAN, NEW o \in Seq(KChars), NEW mod, NEW k \in Keys \cup {K!Nothing}
    PROVE  /\ K!Types(c, mod, k) \in Seq(KChars)
           /\ K!Press([caps |-> c, out |-> o], mod, k) =
                [caps |-> IF K!Locks(k) THEN ~c ELSE c, out |-> o \o K!Types(c, mod, k)]
  <1> DEFINE s == [caps |-> c, out |-> o]
  <1>1. o \o <<>> = o /\ <<>> \in Seq(KChars)
    OBVIOUS
  <1>2. k # K!Nothing => ((\E j \in 1 .. 2 : klast[j] = k) <=> k \in kdown)
    <2>1. (\E j \in 1 .. 2 : klast[j] = k) <=> (klast[1] = k \/ klast[2] = k)
      OBVIOUS
    <2>2. QED
      BY <2>1
  <1>3. CASE k = K!Nothing \/ k \in kdown
    <2>1. K!Types(c, mod, k) = <<>> /\ ~K!Locks(k)
      BY <1>3 DEF K!Types, K!Locks, K!Nothing
    <2>2. K!Press(s, mod, k) = s
      BY <1>2, <1>3 DEF K!Press
    <2>3. QED
      BY <1>1, <2>1, <2>2
  <1>4. CASE k # K!Nothing /\ k \notin kdown
    <2>1. k \in Keys /\ K!Types(c, mod, k) = K!KeyWrites(c, mod, k) /\ K!KeyWrites(c, mod, k) \in Seq(KChars)
      BY <1>4, KeyWritesChars DEF K!Types
    <2>2. CASE k = "caps"
      <3>1. K!Press(s, mod, k) = [s EXCEPT !.caps = ~@] /\ K!Locks(k)
        BY <1>2, <1>4, <2>2 DEF K!Press, K!Locks
      <3>2. K!KeyWrites(c, mod, k) = <<>>
        BY <2>2 DEF K!KeyWrites
      <3>3. QED
        BY <1>1, <2>1, <3>1, <3>2
    <2>3. CASE k # "caps"
      <3>1. K!Press(s, mod, k) = [s EXCEPT !.out = @ \o K!KeyWrites(s.caps, mod, k)] /\ ~K!Locks(k)
        BY <1>2, <1>4, <2>3 DEF K!Press, K!Locks
      <3>2. QED
        BY <2>1, <3>1
    <2>4. QED
      BY <2>2, <2>3
  <1>5. QED
    BY <1>3, <1>4

\* So a report types what it should.
LEMMA PressedIs ==
    ASSUME HidInv, NEW r \in K!Reports
    PROVE  /\ K!Typed(r) \in Seq(KChars) /\ K!Pressed(r).out = K!Typed(r)
           /\ K!Pressed(r).caps \in BOOLEAN
  <1> DEFINE c == kcaps /\ "shift" \notin r.mod
             k1 == r.keys[1]
             k2 == r.keys[2]
             c1 == IF K!Locks(k1) THEN ~c ELSE c
             c2 == IF K!Locks(k2) THEN ~c1 ELSE c1
             o1 == K!Types(c, r.mod, k1)
             o2 == K!Types(c1, r.mod, k2)
  <1>1. k1 \in Keys \cup {K!Nothing} /\ k2 \in Keys \cup {K!Nothing}
    BY DEF K!Reports
  <1>2. c \in BOOLEAN /\ c1 \in BOOLEAN /\ c2 \in BOOLEAN
    BY Zenon
  <1>3. K!Typed(r) = o1 \o o2
    BY DEF K!Typed
  <1>4. K!Pressed(r) = K!Press(K!Press([caps |-> c, out |-> <<>>], r.mod, k1), r.mod, k2)
    BY DEF K!Pressed
  <1>5. kdown = {klast[1], klast[2]} \ {K!Nothing} /\ <<>> \in Seq(KChars)
    BY DEF HidInv
  <1> HIDE DEF c, k1, k2, o1, o2
  <1>6. o1 \in Seq(KChars) /\ K!Press([caps |-> c, out |-> <<>>], r.mod, k1) = [caps |-> c1, out |-> <<>> \o o1]
    <2>1. /\ K!Types(c, r.mod, k1) \in Seq(KChars)
          /\ K!Press([caps |-> c, out |-> <<>>], r.mod, k1) =
               [caps |-> IF K!Locks(k1) THEN ~c ELSE c, out |-> <<>> \o K!Types(c, r.mod, k1)]
      <3> DEFINE z == <<>>
      <3>1. z \in Seq(KChars) /\ c \in BOOLEAN /\ k1 \in Keys \cup {K!Nothing}
        BY <1>1, <1>2, <1>5
      <3> HIDE DEF z, c1, c2
      <3>2. /\ K!Types(c, r.mod, k1) \in Seq(KChars)
            /\ K!Press([caps |-> c, out |-> z], r.mod, k1) =
                 [caps |-> IF K!Locks(k1) THEN ~c ELSE c, out |-> z \o K!Types(c, r.mod, k1)]
        BY <1>5, <3>1, PressIs
      <3>3. QED
        BY <3>2 DEF z
    <2>2. QED
      BY <2>1 DEF o1
  <1>7. <<>> \o o1 = o1
    BY <1>6
  <1> HIDE DEF c1
  <1>8. o2 \in Seq(KChars) /\ K!Press([caps |-> c1, out |-> o1], r.mod, k2) = [caps |-> c2, out |-> o1 \o o2]
    <2>1. k2 \in Keys \cup {K!Nothing} /\ c1 \in BOOLEAN /\ o1 \in Seq(KChars)
          /\ kdown = {klast[1], klast[2]} \ {K!Nothing}
      BY <1>1, <1>2, <1>5, <1>6
    <2>2. QED
      BY <2>1, PressIs DEF o2
  <1>9. K!Pressed(r) = [caps |-> c2, out |-> o1 \o o2]
    BY <1>4, <1>6, <1>7, <1>8
  <1> HIDE DEF c2
  <1>10. o1 \o o2 \in Seq(KChars)
    BY <1>6, <1>8
  <1>11. QED
    BY <1>2, <1>3, <1>9, <1>10

\* f is the ring after each of the characters out.
Writing(f, out) ==
    /\ f[0] = [buf |-> kbuf, w |-> kw]
    /\ \A n \in 0 .. Len(out) : f[n] \in KRings
    /\ \A n \in 1 .. Len(out) : f[n] = K!write_key(f[n - 1], out[n])

\* write_key keeps the ring's type.
LEMMA WriteKeyRings ==
    ASSUME HidTypes, NEW r \in KRings, NEW x \in KChars
    PROVE  K!write_key(r, x) \in KRings
  <1>1. CASE K!RingFull(r.w, kr)
    BY <1>1 DEF K!write_key
  <1>2. CASE ~K!RingFull(r.w, kr)
    <2>1. r.w \in 0 .. (KeybufSize - 1) /\ r.buf \in [KPlaces -> KCells] /\ x \in KCells
      BY DEF KRings, KPlaces, KCells
    <2>2. (r.w + 1) % KeybufSize \in KPlaces
      BY <2>1, WrapNext, HidConstants DEF KPlaces
    <2>3. [r.buf EXCEPT ![r.w] = x] \in [KPlaces -> KCells]
      BY <2>1
    <2>4. K!write_key(r, x) = [buf |-> [r.buf EXCEPT ![r.w] = x], w |-> (r.w + 1) % KeybufSize]
      BY <1>2 DEF K!write_key
    <2>5. QED
      BY <2>2, <2>3, <2>4 DEF KRings
  <1>3. QED
    BY <1>1, <1>2

\* Written is the ring after each character.
LEMMA WrittenIs ==
    ASSUME HidTypes, NEW out \in Seq(KChars)
    PROVE  Writing(K!Written(out), out)
  <1> DEFINE N == 0 .. Len(out)
             start == [buf |-> kbuf, w |-> kw]
             Step(f) == [n \in N |-> IF n = 0 THEN start ELSE K!write_key(f[n - 1], out[n])]
             rem == CHOOSE f : f = Step(f)
             F == [p \in KRings \X Nat |-> IF p[2] \in 1 .. Len(out) THEN K!write_key(p[1], out[p[2]]) ELSE p[1]]
  <1>1. K!Written(out) = rem
    BY DEF K!Written
  <1>2. start \in KRings /\ Len(out) \in Nat
    BY DEF HidTypes, KRings
  <1>3. F \in [KRings \X Nat -> KRings]
    <2>1. ASSUME NEW p \in KRings \X Nat
          PROVE  (IF p[2] \in 1 .. Len(out) THEN K!write_key(p[1], out[p[2]]) ELSE p[1]) \in KRings
      <3>1. p[1] \in KRings
        OBVIOUS
      <3>2. CASE p[2] \in 1 .. Len(out)
        <4>1. out[p[2]] \in KChars
          BY <3>2
        <4>2. K!write_key(p[1], out[p[2]]) \in KRings
          BY <3>1, <4>1, WriteKeyRings
        <4>3. QED
          BY <3>2, <4>2
      <3>3. QED
        BY <3>1, <3>2
    <2>2. QED
      BY <2>1
  <1>4. \A r \in KRings, n \in 1 .. Len(out) : F[<<r, n>>] = K!write_key(r, out[n])
    <2> SUFFICES ASSUME NEW r \in KRings, NEW n \in 1 .. Len(out) PROVE F[<<r, n>>] = K!write_key(r, out[n])
      OBVIOUS
    <2>1. <<r, n>> \in KRings \X Nat /\ <<r, n>>[1] = r /\ <<r, n>>[2] = n
      BY <1>2
    <2>2. QED
      BY <2>1
  <1> HIDE DEF F, start
  <1>5. PICK f : Iterated(f, KRings, start, F)
    BY <1>2, <1>3, Iterates
  <1>6. f \in [Nat -> KRings] /\ f[0] = start /\ \A n \in Nat : f[n + 1] = F[<<f[n], n + 1>>]
    BY <1>5 DEF Iterated
  <1> DEFINE g == [n \in N |-> f[n]]
  <1>7. g = Step(g)
    <2>1. ASSUME NEW n \in N PROVE g[n] = IF n = 0 THEN start ELSE K!write_key(g[n - 1], out[n])
      <3>1. CASE n = 0
        BY <1>2, <1>6, <3>1
      <3>2. CASE n # 0
        <4>1. n - 1 \in Nat /\ n - 1 \in N /\ n \in 1 .. Len(out) /\ (n - 1) + 1 = n
          BY <1>2, <3>2
        <4>2. g[n - 1] = f[n - 1] /\ g[n] = f[n] /\ f[n - 1] \in KRings
          BY <1>6, <4>1
        <4>3. f[n] = F[<<f[n - 1], n>>]
          BY <1>6, <4>1
        <4>4. QED
          BY <1>4, <3>2, <4>1, <4>2, <4>3
      <3>3. QED
        BY <3>1, <3>2
    <2>2. g = [n \in N |-> g[n]]
      OBVIOUS
    <2> HIDE DEF g, N
    <2>3. [n \in N |-> g[n]] = [n \in N |-> IF n = 0 THEN start ELSE K!write_key(g[n - 1], out[n])]
      BY <2>1
    <2>4. QED
      BY <2>2, <2>3
  <1> HIDE DEF g
  <1>8. rem = Step(rem)
    <2> HIDE DEF Step
    <2>1. QED
      BY <1>7
  <1> HIDE DEF rem
  <1>9. rem[0] = start
    <2>1. 0 \in N
      BY <1>2
    <2>2. QED
      BY <1>8, <2>1
  <1>10. \A n \in 1 .. Len(out) : rem[n] = K!write_key(rem[n - 1], out[n])
    <2> SUFFICES ASSUME NEW n \in 1 .. Len(out) PROVE rem[n] = K!write_key(rem[n - 1], out[n])
      OBVIOUS
    <2>1. n \in N /\ n # 0
      BY <1>2
    <2>2. QED
      BY <1>8, <2>1
  <1> DEFINE S == {n \in Nat : n <= Len(out) => rem[n] \in KRings}
  <1>11. S = Nat
    <2>1. 0 \in S
      BY <1>2, <1>9
    <2>2. ASSUME NEW n \in S PROVE n + 1 \in S
      <3>1. n \in Nat /\ n + 1 \in Nat
        OBVIOUS
      <3> SUFFICES ASSUME n + 1 <= Len(out) PROVE rem[n + 1] \in KRings
        BY <3>1
      <3>2. n + 1 \in 1 .. Len(out) /\ (n + 1) - 1 = n /\ rem[n] \in KRings /\ out[n + 1] \in KChars
        BY <1>2, <3>1
      <3>3. QED
        BY <1>10, <3>2, WriteKeyRings
    <2>3. S \in SUBSET Nat
      OBVIOUS
    <2> HIDE DEF S
    <2>4. QED
      BY <2>1, <2>2, <2>3, Inductively
  <1>12. \A n \in 0 .. Len(out) : rem[n] \in KRings
    <2> SUFFICES ASSUME NEW n \in 0 .. Len(out) PROVE rem[n] \in KRings
      OBVIOUS
    <2>1. n \in Nat /\ n <= Len(out)
      BY <1>2
    <2>2. n \in S
      BY <1>11, <2>1
    <2>3. QED
      BY <2>1, <2>2
  <1>13. QED
    BY <1>1, <1>9, <1>10, <1>12 DEF Writing, start

\* How many of n more characters have room behind the unread ones, and what is then
\* unread.
KRoom(n) == IF Len(kdue) + n < KeybufSize THEN n ELSE KeybufSize - 1 - Len(kdue)
KDue(out, n) == kdue \o SubSeq(out, 1, KRoom(n))

\* How many of n characters still have room.
LEMMA KRoomFacts ==
    ASSUME HidTypes, HidHolds(kbuf, kw, kdue), NEW n \in Nat
    PROVE  /\ KRoom(n) \in 0 .. n /\ Len(kdue) + KRoom(n) \in 0 .. (KeybufSize - 1)
           /\ KRoom(0) = 0
           /\ KRoom(n + 1) = IF Len(kdue) + KRoom(n) = KeybufSize - 1 THEN KRoom(n) ELSE KRoom(n) + 1
           /\ Len(kdue) + KRoom(n) # KeybufSize - 1 => KRoom(n) = n
  <1>1. Len(kdue) \in Nat /\ Len(kdue) < KeybufSize
    BY DEF HidTypes, HidHolds
  <1>2. QED
    BY <1>1, HidConstants DEF KRoom

\* A character that has room is appended.
LEMMA KDueNext ==
    ASSUME HidTypes, HidHolds(kbuf, kw, kdue), NEW out \in Seq(KChars), NEW n \in Nat, n < Len(out)
    PROVE  /\ KDue(out, n) \in Seq(KChars) /\ Len(KDue(out, n)) = Len(kdue) + KRoom(n)
           /\ KDue(out, n + 1) = IF Len(KDue(out, n)) = KeybufSize - 1 THEN KDue(out, n)
                                 ELSE Append(KDue(out, n), out[n + 1])
  <1> DEFINE m == KRoom(n)
  <1>1. m \in 0 .. n /\ m <= Len(out) /\ Len(out) \in Nat /\ kdue \in Seq(KChars) /\ m \in Nat
    <2>1. m \in 0 .. n /\ Len(out) \in Nat
      BY KRoomFacts
    <2>2. kdue \in Seq(KChars)
      BY DEF HidTypes
    <2> HIDE DEF m
    <2>3. QED
      BY <2>1, <2>2
  <1>2. KRoom(n + 1) = IF Len(kdue) + m = KeybufSize - 1 THEN m ELSE m + 1
    BY KRoomFacts
  <1>3. Len(kdue) + m # KeybufSize - 1 => m = n
    BY KRoomFacts
  <1> HIDE DEF m
  <1>4. SubSeq(out, 1, m) \in Seq(KChars) /\ Len(SubSeq(out, 1, m)) = m
    BY <1>1
  <1>5. KDue(out, n) = kdue \o SubSeq(out, 1, m) /\ KDue(out, n) \in Seq(KChars) /\ Len(KDue(out, n)) = Len(kdue) + m
    BY <1>1, <1>4 DEF KDue, m
  <1>6. CASE Len(kdue) + m = KeybufSize - 1
    BY <1>2, <1>5, <1>6 DEF KDue, m
  <1>7. CASE Len(kdue) + m # KeybufSize - 1
    <2>1. m = n /\ KRoom(n + 1) = n + 1 /\ n + 1 \in 1 .. Len(out)
      BY <1>1, <1>2, <1>3, <1>7
    <2>2. SubSeq(out, 1, n + 1) = Append(SubSeq(out, 1, n), out[n + 1])
      <3>1. /\ SubSeq(out, 1, n + 1) \in Seq(KChars) /\ Len(SubSeq(out, 1, n + 1)) = n + 1
            /\ SubSeq(out, 1, n) \in Seq(KChars) /\ Len(SubSeq(out, 1, n)) = n
            /\ \A i \in 1 .. (n + 1) : SubSeq(out, 1, n + 1)[i] = out[i]
            /\ \A i \in 1 .. n : SubSeq(out, 1, n)[i] = out[i]
            /\ out[n + 1] \in KChars
        BY <1>1, <2>1
      <3>2. QED
        BY <3>1
    <2>3. kdue \o Append(SubSeq(out, 1, n), out[n + 1]) = Append(kdue \o SubSeq(out, 1, n), out[n + 1])
      <3>1. out[n + 1] \in KChars
        BY <2>1
      <3>2. QED
        BY <1>1, <1>4, <2>1, <3>1
    <2>4. QED
      BY <1>5, <1>7, <2>1, <2>2, <2>3 DEF KDue, m
  <1>8. QED
    BY <1>5, <1>6, <1>7 DEF m

\* write_key keeps the unread characters in order and drops what has no room.
LEMMA WriteKeyHolds ==
    ASSUME HidTypes, NEW r \in KRings, NEW x \in KChars, NEW d \in Seq(KChars), HidHolds(r.buf, r.w, d),
           kr # 0 \/ Len(d) + 1 < KeybufSize
    PROVE  LET s == K!write_key(r, x) IN
           HidHolds(s.buf, s.w, IF Len(d) = KeybufSize - 1 THEN d ELSE Append(d, x))
  <1>1. /\ r.w \in 0 .. (KeybufSize - 1) /\ r.buf \in [0 .. (KeybufSize - 1) -> KCells] /\ x \in KCells
        /\ kr \in 0 .. (KeybufSize - 1) /\ d \in Seq(KCells)
        /\ KeybufSize \in Nat \ {0} /\ Len(d) \in Nat
    BY HidConstants DEF HidTypes, KRings, KPlaces, KCells
  <1>2. Len(d) < KeybufSize /\ r.w = Wrap(kr + Len(d), KeybufSize) /\ RingHolds(r.buf, kr, d, KeybufSize)
    BY DEF HidHolds
  <1>3. K!RingFull(r.w, kr) <=> Len(d) = KeybufSize - 1
    <2>1. r.w + 1 = kr <=> Len(d) = KeybufSize - 1
      BY <1>1, <1>2 DEF Wrap
    <2>2. QED
      BY <2>1 DEF K!RingFull
  <1>4. CASE Len(d) = KeybufSize - 1
    BY <1>3, <1>4 DEF K!write_key
  <1>5. CASE Len(d) # KeybufSize - 1
    <2>1. K!write_key(r, x) = [buf |-> [r.buf EXCEPT ![r.w] = x], w |-> (r.w + 1) % KeybufSize]
      BY <1>3, <1>5 DEF K!write_key
    <2>2. RingHolds([r.buf EXCEPT ![r.w] = x], kr, Append(d, x), KeybufSize)
      BY <1>1, <1>2, RingAppend
    <2>3. Len(Append(d, x)) = Len(d) + 1 /\ Len(d) + 1 < KeybufSize
      BY <1>1, <1>2, <1>5
    <2>4. (r.w + 1) % KeybufSize = Wrap(kr + (Len(d) + 1), KeybufSize)
      <3>1. (r.w + 1) % KeybufSize = Wrap(r.w + 1, KeybufSize) /\ Len(d) \in 0 .. (KeybufSize - 1)
        BY <1>1, <1>2, WrapNext
      <3>2. QED
        BY <1>1, <1>2, <3>1, WrapThenNext
    <2>5. QED
      BY <1>5, <2>1, <2>2, <2>3, <2>4 DEF HidHolds
  <1>6. QED
    BY <1>4, <1>5

\* The characters that have room are written in order.
LEMMA WritesHold ==
    ASSUME HidTypes, HidHolds(kbuf, kw, kdue), NEW out \in Seq(KChars),
           kr # 0 \/ Len(kdue) + Len(out) < KeybufSize
    PROVE  LET ring == K!Written(out)[Len(out)] IN
           /\ HidHolds(ring.buf, ring.w, KDue(out, Len(out)))
           /\ KDue(out, Len(out)) \in Seq(KChars)
  <1> DEFINE f == K!Written(out)
             P(n) == KDue(out, n) \in Seq(KChars) /\ HidHolds(f[n].buf, f[n].w, KDue(out, n))
             S == {n \in Nat : n <= Len(out) => P(n)}
  <1>1. Writing(f, out)
    BY WrittenIs
  <1> HIDE DEF f
  <1>2. Len(out) \in Nat /\ kdue \in Seq(KChars)
    BY DEF HidTypes
  <1>3. 0 \in S
    <2>1. KDue(out, 0) = kdue
      <3>1. KRoom(0) = 0
        BY KRoomFacts
      <3>2. SubSeq(out, 1, 0) = <<>> /\ kdue \o <<>> = kdue
        BY <1>2
      <3>3. QED
        BY <3>1, <3>2 DEF KDue
    <2>2. f[0].buf = kbuf /\ f[0].w = kw
      BY <1>1 DEF Writing
    <2>3. QED
      BY <1>2, <2>1, <2>2
  <1>4. ASSUME NEW n \in S PROVE n + 1 \in S
    <2>1. n \in Nat /\ n + 1 \in Nat
      OBVIOUS
    <2> SUFFICES ASSUME n + 1 <= Len(out) PROVE P(n + 1)
      BY <2>1
    <2>2. n < Len(out) /\ n <= Len(out) /\ n + 1 \in 1 .. Len(out) /\ n \in 0 .. Len(out) /\ (n + 1) - 1 = n
      BY <1>2, <2>1
    <2>3. P(n)
      BY <2>2
    <2>4. f[n] \in KRings /\ f[n + 1] = K!write_key(f[n], out[n + 1]) /\ out[n + 1] \in KChars
      BY <1>1, <2>2 DEF Writing
    <2>5. /\ Len(KDue(out, n)) = Len(kdue) + KRoom(n) /\ KRoom(n) \in 0 .. n
          /\ KDue(out, n + 1) = IF Len(KDue(out, n)) = KeybufSize - 1 THEN KDue(out, n)
                                ELSE Append(KDue(out, n), out[n + 1])
      BY <2>1, <2>2, KDueNext, KRoomFacts
    <2>6. kr # 0 \/ Len(KDue(out, n)) + 1 < KeybufSize
      BY <1>2, <2>1, <2>2, <2>5, HidConstants
    <2>7. HidHolds(f[n + 1].buf, f[n + 1].w, KDue(out, n + 1))
      BY <2>3, <2>4, <2>5, <2>6, WriteKeyHolds
    <2>8. KDue(out, n + 1) \in Seq(KChars)
      <3>1. Append(KDue(out, n), out[n + 1]) \in Seq(KChars)
        BY <2>3, <2>4
      <3>2. QED
        BY <2>3, <2>5, <3>1
    <2>9. QED
      BY <2>7, <2>8
  <1>5. S = Nat
    <2>1. S \in SUBSET Nat
      OBVIOUS
    <2> HIDE DEF S
    <2>2. QED
      BY <1>3, <1>4, <2>1, Inductively
  <1>6. P(Len(out))
    <2>1. Len(out) \in S /\ Len(out) <= Len(out)
      BY <1>2, <1>5
    <2> HIDE DEF P
    <2>2. QED
      BY <2>1
  <1>7. QED
    BY <1>6 DEF f

\* A report is polled.
LEMMA HidPolled ==
    ASSUME HidInv, NEW r \in K!Reports, K!usb_poll_key(r)
    PROVE  HidInv'
  <1> DEFINE out == K!Typed(r)
             ring == K!Written(out)[Len(out)]
  <1>1. ~kwrapped /\ HidTypes /\ HidHolds(kbuf, kw, kdue)
    BY DEF HidInv, K!usb_poll_key
  <1>2. out \in Seq(KChars) /\ K!Pressed(r).out = out /\ K!Pressed(r).caps \in BOOLEAN
    BY PressedIs
  <1>3. /\ kcaps' = K!Pressed(r).caps /\ klast' = r.keys /\ kbuf' = ring.buf /\ kw' = ring.w
        /\ kr' = kr /\ kdown' = {r.keys[i] : i \in 1 .. 2} \ {K!Nothing}
    BY <1>2 DEF K!usb_poll_key, K!check_key_code, K!CopyLast
  <1>4. /\ kwrapped' = (kwrapped \/ (kr = 0 /\ Len(kdue) + Len(out) >= KeybufSize))
        /\ kdue' = kdue \o K!RoomFor(out)
    BY DEF K!usb_poll_key
  <1>5. kdue' = KDue(out, Len(out))
    BY <1>4 DEF KDue, KRoom, K!RoomFor
  <1> HIDE DEF out
  <1>6. ring \in KRings
    <2>1. Writing(K!Written(out), out) /\ Len(out) \in Nat
      BY <1>1, <1>2, WrittenIs
    <2>2. Len(out) \in 0 .. Len(out)
      BY <2>1
    <2>3. QED
      BY <2>1, <2>2 DEF Writing
  <1>7. ~kwrapped' => HidHolds(ring.buf, ring.w, kdue')
    <2> SUFFICES ASSUME ~kwrapped' PROVE HidHolds(ring.buf, ring.w, kdue')
      OBVIOUS
    <2>1. Len(out) \in Nat /\ Len(kdue) \in Nat
      BY <1>1, <1>2 DEF HidTypes
    <2>2. kr # 0 \/ Len(kdue) + Len(out) < KeybufSize
      <3>1. ~(kr = 0 /\ Len(kdue) + Len(out) >= KeybufSize)
        BY <1>4, Zenon
      <3>2. QED
        BY <2>1, <3>1, HidConstants
    <2>3. QED
      BY <1>1, <1>2, <1>5, <2>2, WritesHold
  <1>8. kdue' \in Seq(KChars)
    <2>1. KRoom(Len(out)) \in 0 .. Len(out) /\ Len(out) \in Nat
      BY <1>1, <1>2, KRoomFacts
    <2>2. SubSeq(out, 1, KRoom(Len(out))) \in Seq(KChars)
      BY <1>2, <2>1
    <2>3. QED
      BY <1>1, <1>5, <2>2 DEF KDue, HidTypes
  <1> HIDE DEF ring
  <1>9. HidTypes'
    <2>1. kbuf' \in [KPlaces -> KCells] /\ kw' \in KPlaces
      BY <1>3, <1>6 DEF KRings
    <2>2. kwrapped' \in BOOLEAN
      BY <1>1, <1>4, Zenon
    <2>3. QED
      BY <1>1, <1>2, <1>3, <1>8, <2>1, <2>2, Zenon DEF HidTypes, KPlaces
  <1>10. kdown' = {klast'[1], klast'[2]} \ {K!Nothing}
    <2>1. {r.keys[i] : i \in 1 .. 2} = {r.keys[1], r.keys[2]}
      OBVIOUS
    <2>2. QED
      BY <1>3, <2>1
  <1>11. HidHolds(ring.buf, ring.w, kdue') => HidHolds(kbuf, kw, kdue)'
    BY <1>3 DEF HidHolds
  <1>12. QED
    BY <1>7, <1>9, <1>10, <1>11 DEF HidInv

\* read_key takes the oldest character.
LEMMA HidRead ==
    ASSUME HidInv, K!read_key
    PROVE  HidInv'
  <1>1. /\ kr # kw /\ kr' = (kr + 1) % KeybufSize
        /\ kdue' = IF kdue = <<>> THEN kdue ELSE Tail(kdue)
        /\ UNCHANGED <<kcaps, klast, kbuf, kw, kdown, kwrapped>>
    BY DEF K!read_key
  <1>2. kr \in 0 .. (KeybufSize - 1) /\ KeybufSize \in Nat \ {0} /\ kdue \in Seq(KChars) /\ Len(kdue) \in Nat
    BY HidConstants DEF HidInv, HidTypes, KPlaces
  <1>3. kr' = Wrap(kr + 1, KeybufSize) /\ kr' \in KPlaces
    BY <1>1, <1>2, WrapNext DEF KPlaces
  <1>4. kdue' \in Seq(KChars)
    BY <1>1, <1>2
  <1>5. HidTypes'
    BY <1>1, <1>3, <1>4, Zenon DEF HidInv, HidTypes, KPlaces
  <1>6. ~kwrapped => HidHolds(kbuf, kw, kdue)'
    <2> SUFFICES ASSUME ~kwrapped PROVE HidHolds(kbuf, kw, kdue)'
      OBVIOUS
    <2> DEFINE d == Tail(kdue)
    <2>1. Len(kdue) < KeybufSize /\ kw = Wrap(kr + Len(kdue), KeybufSize) /\ RingHolds(kbuf, kr, kdue, KeybufSize)
      BY DEF HidInv, HidHolds
    <2>2. Len(kdue) # 0
      BY <1>1, <1>2, <2>1 DEF Wrap
    <2>3. kdue # <<>> /\ kdue' = d /\ Len(d) = Len(kdue) - 1
      BY <1>1, <1>2, <2>2
    <2>4. RingHolds(kbuf, kr', d, KeybufSize)
      BY <1>2, <1>3, <2>1, <2>3, RingTail
    <2>5. kw = Wrap(kr' + (Len(kdue) - 1), KeybufSize)
      <3>1. Len(kdue) - 1 \in 0 .. (KeybufSize - 1) /\ (Len(kdue) - 1) + 1 = Len(kdue)
        BY <1>2, <2>1, <2>2
      <3>2. Wrap(Wrap(kr + 1, KeybufSize) + (Len(kdue) - 1), KeybufSize) = Wrap(kr + ((Len(kdue) - 1) + 1), KeybufSize)
        BY <1>2, <3>1, WrapFromNext
      <3>3. QED
        BY <1>3, <2>1, <3>1, <3>2
    <2> HIDE DEF d
    <2>6. Len(d) < KeybufSize /\ kw = Wrap(kr' + Len(d), KeybufSize)
      BY <1>2, <2>1, <2>3, <2>5
    <2>7. kbuf' = kbuf /\ kw' = kw /\ kdue' = d
      BY <1>1, <2>3
    <2>8. QED
      BY <2>4, <2>6, <2>7, Zenon DEF HidHolds
  <1>7. QED
    BY <1>1, <1>5, <1>6 DEF HidInv

\* At the start.
LEMMA HidInitially == K!Init => HidInv
  <1> SUFFICES ASSUME K!Init PROVE HidInv
    OBVIOUS
  <1>1. /\ kcaps = FALSE /\ klast = <<K!Nothing, K!Nothing>> /\ kbuf = [i \in KPlaces |-> K!Nothing]
        /\ kr = 0 /\ kw = 0 /\ kdue = <<>> /\ kdown = {} /\ kwrapped = FALSE
    BY DEF K!Init, KPlaces
  <1>2. 0 \in KPlaces /\ 0 = Wrap(0 + 0, KeybufSize) /\ 0 < KeybufSize
    BY HidConstants DEF KPlaces, Wrap
  <1>3. HidTypes
    <2>1. <<>> \in Seq(KChars) /\ kbuf \in [KPlaces -> KCells]
      BY <1>1 DEF KCells
    <2>2. QED
      BY <1>1, <1>2, <2>1, Zenon DEF HidTypes
  <1>4. HidHolds(kbuf, kw, kdue)
    <2>1. Len(<<>>) = 0
      OBVIOUS
    <2>2. QED
      BY <1>1, <1>2, <2>1, RingEmpty DEF HidHolds
  <1>5. QED
    BY <1>1, <1>3, <1>4 DEF HidInv

\* Every step of the keyboard driver.
LEMMA HidStep == HidInv /\ [K!Next]_kvars => HidInv'
  <1> SUFFICES ASSUME HidInv, [K!Next]_kvars PROVE HidInv'
    OBVIOUS
  <1>1. CASE UNCHANGED kvars
    BY <1>1 DEF kvars, HidInv, HidTypes, HidHolds
  <1>2. CASE K!Next
    <2>1. UNCHANGED K!kvars => UNCHANGED kvars
      BY DEF K!kvars, kvars
    <2>2. QED
      BY <1>1, <1>2, <2>1, HidPolled, HidRead DEF K!Next, K!usb_hid_kbd_init, K!usb_read_keyb
  <1>3. QED
    BY <1>1, <1>2

\* What follows from the invariant of the key ring.
LEMMA HidRight == HidInv => K!KeysFifo
  <1> SUFFICES ASSUME HidInv, ~kwrapped PROVE K!KeysFifo
    BY DEF K!KeysFifo
  <1>1. kr \in 0 .. (KeybufSize - 1) /\ KeybufSize \in Nat \ {0} /\ kdue \in Seq(KChars) /\ Len(kdue) \in Nat
    BY HidConstants DEF HidInv, HidTypes, KPlaces
  <1>2. Len(kdue) < KeybufSize /\ kw = Wrap(kr + Len(kdue), KeybufSize) /\ RingHolds(kbuf, kr, kdue, KeybufSize)
    BY DEF HidInv, HidHolds
  <1>3. \A i \in DOMAIN kdue : kbuf[(kr + i - 1) % KeybufSize] = kdue[i]
    BY <1>1, <1>2, RingRead
  <1>4. (kw + KeybufSize - kr) % KeybufSize = Len(kdue)
    <2>1. Len(kdue) \in 0 .. (KeybufSize - 1)
      BY <1>1, <1>2
    <2>2. QED
      BY <1>1, <1>2, <2>1, RingLength
  <1>5. kw - kr + KeybufSize = kw + KeybufSize - kr
    <2>1. kw \in Int
      BY <1>1 DEF HidInv, HidTypes, KPlaces
    <2>2. QED
      BY <1>1, <2>1
  <1>6. QED
    BY <1>3, <1>4, <1>5 DEF K!KeysFifo

-----------------------------------------------------------------------------
(* The event ring of xHCI.                                                 *)

\* Commands and control transfers, bulk transfers, and reports.
XCmdKinds == {"reset", "enable", "address", "config", "setup", "ctrl", "config ep"}
XPlaces == 0 .. (XEvents - 1)
XTrbPlaces == 0 .. (XTrbs - 1)
XCmds == [kind : XCmdKinds, slot : Nat]
XBulks == [kind : {"bulk"}, slot : XTrbPlaces]
XReports == {[kind |-> "report", slot |-> 0]}
XEvts == XCmds \cup XBulks \cup XReports

\* The cycle bit of the k-th entry from xdeq on, once it is new.
XLap(d, c, k) == IF d + k < XEvents THEN c ELSE 1 - c

\* The events not yet taken lie in the ring from xdeq on; their cycle bits are those
\* of the driver's lap and the others are not.
XRingTypes ==
    /\ xdeq \in XPlaces /\ xenq \in XPlaces /\ xerdp = xdeq /\ xcycle \in {0, 1}
    /\ xqueue \in Seq(XEvts) /\ Len(xqueue) \in XPlaces
    /\ xring = [i \in XPlaces |-> xring[i]]
XRingEnds ==
    xenq = Wrap(xdeq + Len(xqueue), XEvents) /\ xpcs = XLap(xdeq, xcycle, Len(xqueue))
XRingLaps == \A k \in XPlaces :
    xring[Wrap(xdeq + k, XEvents)].cycle =
        IF k < Len(xqueue) THEN XLap(xdeq, xcycle, k) ELSE 1 - XLap(xdeq, xcycle, k)
XRingHolds == \A k \in 0 .. (Len(xqueue) - 1) : xring[Wrap(xdeq + k, XEvents)].ev = xqueue[k + 1]

XRingInv == XRingTypes /\ XRingEnds /\ XRingLaps /\ XRingHolds

\* The assumptions on ports, slots and rings of xHCI.
LEMMA XhciConstants ==
    /\ XPorts \in Nat \ {0} /\ XSlots \in Nat \ {0} /\ XEvents \in Nat \ {0, 1} /\ XTrbs \in Nat \ {0, 1}
    /\ None \notin Nat
  BY UsbAssumption DEF X!ConstantsOK, U!ConstantsOK

\* A ring that was just set up.
LEMMA XRingFresh ==
    ASSUME X!xhci_hcd_reset, X!xhci_init_seg
    PROVE  XRingInv' /\ xqueue' = <<>>
  <1>1. /\ xenq' = 0 /\ xpcs' = 1 /\ xdeq' = 0 /\ xcycle' = 1 /\ xerdp' = 0 /\ xqueue' = <<>>
        /\ xring' = [i \in XPlaces |-> [cycle |-> 0, ev |-> None]]
    BY DEF X!xhci_hcd_reset, X!xhci_init_seg, XPlaces
  <1>2. Len(xqueue') = 0 /\ 0 \in XPlaces /\ xqueue' \in Seq(XEvts)
    BY <1>1, XhciConstants DEF XPlaces
  <1>3. XRingTypes'
    BY <1>1, <1>2 DEF XRingTypes
  <1>4. XRingEnds'
    BY <1>1, <1>2, XhciConstants DEF XRingEnds, XLap, Wrap
  <1>5. XRingLaps'
    <2> SUFFICES ASSUME NEW k \in XPlaces
                 PROVE  xring'[Wrap(0 + k, XEvents)].cycle =
                          IF k < 0 THEN XLap(0, 1, k) ELSE 1 - XLap(0, 1, k)
      BY <1>1, <1>2 DEF XRingLaps
    <2>1. Wrap(0 + k, XEvents) = k /\ XLap(0, 1, k) = 1 /\ ~(k < 0)
      BY XhciConstants DEF XPlaces, XLap, Wrap
    <2>2. xring'[k].cycle = 0
      BY <1>1
    <2>3. QED
      BY <2>1, <2>2
  <1>6. XRingHolds'
    BY <1>2 DEF XRingHolds
  <1>7. QED
    BY <1>1, <1>3, <1>4, <1>5, <1>6 DEF XRingInv

\* There is something to take exactly if the queue is not empty.
LEMMA XReadyIs ==
    ASSUME XRingInv
    PROVE  /\ X!Ready <=> xqueue # <<>>
           /\ xqueue # <<>> => X!Event = xqueue[1]
  <1>1. /\ xdeq \in 0 .. (XEvents - 1) /\ xcycle \in {0, 1} /\ Len(xqueue) \in Nat /\ xqueue \in Seq(XEvts)
    BY XhciConstants DEF XRingInv, XRingTypes, XPlaces
  <1>2. 0 \in XPlaces /\ Wrap(xdeq + 0, XEvents) = xdeq /\ XLap(xdeq, xcycle, 0) = xcycle
    BY <1>1, XhciConstants DEF XPlaces, Wrap, XLap
  <1>3. xring[xdeq].cycle = IF 0 < Len(xqueue) THEN xcycle ELSE 1 - xcycle
    <2>1. xring[Wrap(xdeq + 0, XEvents)].cycle =
            IF 0 < Len(xqueue) THEN XLap(xdeq, xcycle, 0) ELSE 1 - XLap(xdeq, xcycle, 0)
      BY <1>2 DEF XRingInv, XRingLaps
    <2>2. QED
      BY <1>2, <2>1
  <1>4. X!Ready <=> xqueue # <<>>
    BY <1>1, <1>3 DEF X!Ready
  <1>5. xqueue # <<>> => xring[xdeq].ev = xqueue[1]
    <2> SUFFICES ASSUME xqueue # <<>> PROVE xring[xdeq].ev = xqueue[1]
      OBVIOUS
    <2>1. 0 \in 0 .. (Len(xqueue) - 1) /\ 0 + 1 = 1
      BY <1>1
    <2>2. xring[Wrap(xdeq + 0, XEvents)].ev = xqueue[0 + 1]
      BY <2>1 DEF XRingInv, XRingHolds
    <2>3. QED
      BY <1>2, <2>1, <2>2
  <1>6. QED
    BY <1>4, <1>5 DEF X!Event

\* The driver takes the oldest event.
LEMMA XTaken ==
    ASSUME XRingInv, X!Take
    PROVE  /\ XRingInv' /\ xqueue # <<>> /\ X!Event = xqueue[1] /\ xqueue' = Tail(xqueue)
           /\ xqueue[1] \in XEvts
  <1> DEFINE q == xqueue
             n == Len(q)
             d == xdeq
             c == xcycle
             d2 == Wrap(d + 1, XEvents)
             c2 == IF d = XEvents - 1 THEN 1 - c ELSE c
  <1>1. /\ d \in 0 .. (XEvents - 1) /\ c \in {0, 1} /\ n \in 0 .. (XEvents - 1) /\ n \in Nat /\ q \in Seq(XEvts)
        /\ XEvents \in Nat \ {0} /\ xenq \in XPlaces
    BY XhciConstants DEF XRingInv, XRingTypes, XPlaces
  <1>2. q # <<>> /\ X!Event = q[1]
    BY XReadyIs DEF X!Take
  <1>3. n > 0 /\ Len(Tail(q)) = n - 1 /\ Tail(q) \in Seq(XEvts) /\ q[1] \in XEvts
        /\ \A k \in 1 .. (n - 1) : Tail(q)[k] = q[k + 1]
    BY <1>1, <1>2
  <1>4. /\ xring' = [xring EXCEPT ![d] = [cycle |-> c, ev |-> None]]
        /\ xdeq' = d2 /\ xcycle' = c2 /\ xerdp' = d2 /\ xqueue' = Tail(q) /\ xenq' = xenq /\ xpcs' = xpcs
        /\ d2 \in 0 .. (XEvents - 1) /\ c2 \in {0, 1}
    BY <1>1, <1>2, WrapNext DEF X!Take, X!NextCycle
  <1>5. \A k \in 0 .. (XEvents - 1) : Wrap(d2 + k, XEvents) = Wrap(d + (k + 1), XEvents)
    BY <1>1, WrapFromNext
  <1>6. \A k \in 0 .. (XEvents - 2) : XLap(d2, c2, k) = XLap(d, c, k + 1)
    BY <1>1 DEF XLap, Wrap
  <1>7. XLap(d2, c2, XEvents - 1) = 1 - c
    BY <1>1 DEF XLap, Wrap
  <1>8. \A i \in XPlaces : i # d => xring'[i] = xring[i]
    BY <1>4 DEF XRingInv, XRingTypes
  <1>9. xring'[d].cycle = c
    BY <1>1, <1>4 DEF XRingInv, XRingTypes, XPlaces
  <1>10. \A k \in 0 .. (XEvents - 2) : Wrap(d + (k + 1), XEvents) \in XPlaces /\ Wrap(d + (k + 1), XEvents) # d
    BY <1>1 DEF Wrap, XPlaces
  <1> HIDE DEF d2, c2, n
  <1>11. XRingTypes'
    <2>1. Len(xqueue') \in XPlaces
      BY <1>1, <1>3, <1>4 DEF XPlaces, n
    <2>2. xring' = [i \in XPlaces |-> xring'[i]]
      BY <1>4 DEF XRingInv, XRingTypes
    <2>3. QED
      BY <1>1, <1>3, <1>4, <2>1, <2>2 DEF XRingTypes, XPlaces
  <1>12. XRingEnds'
    <2>1. n - 1 \in 0 .. (XEvents - 1) /\ n - 1 \in 0 .. (XEvents - 2) /\ (n - 1) + 1 = n
      BY <1>1, <1>3
    <2>2. Wrap(d2 + (n - 1), XEvents) = Wrap(d + n, XEvents) /\ XLap(d2, c2, n - 1) = XLap(d, c, n)
      BY <1>5, <1>6, <2>1
    <2>3. xenq = Wrap(d + n, XEvents) /\ xpcs = XLap(d, c, n)
      BY DEF XRingInv, XRingEnds, n
    <2>4. QED
      BY <1>3, <1>4, <2>2, <2>3 DEF XRingEnds
  <1>13. XRingLaps'
    <2> SUFFICES ASSUME NEW k \in XPlaces
                 PROVE  xring'[Wrap(d2 + k, XEvents)].cycle =
                          IF k < n - 1 THEN XLap(d2, c2, k) ELSE 1 - XLap(d2, c2, k)
      BY <1>3, <1>4 DEF XRingLaps
    <2>1. k \in 0 .. (XEvents - 1)
      BY DEF XPlaces
    <2>2. CASE k = XEvents - 1
      <3>1. Wrap(d2 + k, XEvents) = d
        BY <1>1, <1>5, <2>1, <2>2 DEF Wrap
      <3>2. ~(k < n - 1) /\ 1 - (1 - c) = c
        BY <1>1, <2>2
      <3>3. QED
        BY <1>7, <1>9, <2>2, <3>1, <3>2
    <2>3. CASE k # XEvents - 1
      <3>1. k \in 0 .. (XEvents - 2) /\ k + 1 \in XPlaces
        BY <1>1, <2>1, <2>3 DEF XPlaces
      <3>2. xring'[Wrap(d2 + k, XEvents)] = xring[Wrap(d + (k + 1), XEvents)]
        BY <1>5, <1>8, <1>10, <2>1, <3>1
      <3>3. xring[Wrap(d + (k + 1), XEvents)].cycle =
              IF k + 1 < n THEN XLap(d, c, k + 1) ELSE 1 - XLap(d, c, k + 1)
        BY <3>1 DEF XRingInv, XRingLaps, n
      <3>4. XLap(d, c, k + 1) = XLap(d2, c2, k) /\ (k + 1 < n <=> k < n - 1)
        BY <1>1, <1>6, <3>1
      <3>5. QED
        BY <3>2, <3>3, <3>4
    <2>4. QED
      BY <2>2, <2>3
  <1>14. XRingHolds'
    <2> SUFFICES ASSUME NEW k \in 0 .. (n - 2) PROVE xring'[Wrap(d2 + k, XEvents)].ev = Tail(q)[k + 1]
      <3>1. \A k : k \in 0 .. (Len(xqueue') - 1) => k \in 0 .. (n - 2)
        BY <1>1, <1>3, <1>4
      <3>2. QED
        BY <1>4, <3>1 DEF XRingHolds
    <2>1. k \in 0 .. (XEvents - 2) /\ k \in 0 .. (XEvents - 1) /\ k + 1 \in 0 .. (n - 1) /\ k + 1 \in 1 .. (n - 1)
      BY <1>1, <1>3
    <2>2. xring'[Wrap(d2 + k, XEvents)] = xring[Wrap(d + (k + 1), XEvents)]
      BY <1>5, <1>8, <1>10, <2>1
    <2>3. xring[Wrap(d + (k + 1), XEvents)].ev = q[(k + 1) + 1]
      BY <2>1 DEF XRingInv, XRingHolds, n
    <2>4. QED
      BY <1>3, <2>1, <2>2, <2>3
  <1>15. QED
    BY <1>2, <1>3, <1>4, <1>11, <1>12, <1>13, <1>14 DEF XRingInv

\* The controller posts an event.
LEMMA XPosted ==
    ASSUME XRingInv, NEW e \in XEvts, X!PutEvent(e)
    PROVE  XRingInv' /\ xqueue' = Append(xqueue, e)
  <1> DEFINE q == xqueue
             n == Len(q)
             d == xdeq
             c == xcycle
             w == Wrap(d + n, XEvents)
  <1>1. /\ d \in 0 .. (XEvents - 1) /\ c \in {0, 1} /\ n \in 0 .. (XEvents - 1) /\ n \in Nat /\ q \in Seq(XEvts)
        /\ XEvents \in Nat \ {0} /\ xenq = w /\ xpcs = XLap(d, c, n) /\ xerdp = d /\ w \in XPlaces
    BY XhciConstants, WrapIn DEF XRingInv, XRingTypes, XRingEnds, XPlaces
  <1>2. /\ (xenq + 1) % XEvents # d
        /\ xring' = [xring EXCEPT ![w] = [cycle |-> xpcs, ev |-> e]]
        /\ xenq' = (w + 1) % XEvents /\ xpcs' = (IF w = XEvents - 1 THEN 1 - xpcs ELSE xpcs)
        /\ xqueue' = Append(q, e) /\ xdeq' = d /\ xcycle' = c /\ xerdp' = d
    BY <1>1 DEF X!PutEvent, X!EventRoom
  <1>3. (w + 1) % XEvents = Wrap(d + (n + 1), XEvents) /\ Wrap(d + (n + 1), XEvents) \in XPlaces
    <2>1. (w + 1) % XEvents = Wrap(w + 1, XEvents) /\ Wrap(w + 1, XEvents) \in XPlaces
      <3>1. w \in 0 .. (XEvents - 1)
        BY <1>1 DEF XPlaces
      <3> HIDE DEF w
      <3>2. QED
        BY <1>1, <3>1, WrapNext DEF XPlaces
    <2>2. QED
      BY <1>1, <2>1, WrapThenNext
  <1>4. n + 1 \in 0 .. (XEvents - 1)
    <2>1. Wrap(d + (n + 1), XEvents) # d
      BY <1>1, <1>2, <1>3, Zenon
    <2> HIDE DEF w, n
    <2>2. n # XEvents - 1
      BY <1>1, <2>1 DEF Wrap
    <2>3. QED
      BY <1>1, <2>2
  <1>5. Append(q, e) \in Seq(XEvts) /\ Len(Append(q, e)) = n + 1 /\ Append(q, e)[n + 1] = e
        /\ \A k \in 1 .. n : Append(q, e)[k] = q[k]
    BY <1>1
  <1>6. \A k \in 0 .. (XEvents - 1) : Wrap(d + k, XEvents) \in XPlaces /\ (Wrap(d + k, XEvents) = w => k = n)
    BY <1>1, WrapPlaces DEF XPlaces
  <1>7. (IF w = XEvents - 1 THEN 1 - XLap(d, c, n) ELSE XLap(d, c, n)) = XLap(d, c, n + 1)
    BY <1>1, <1>4 DEF Wrap, XLap
  <1>8. \A i \in XPlaces : i # w => xring'[i] = xring[i]
    BY <1>2 DEF XRingInv, XRingTypes
  <1>9. xring'[w].cycle = xpcs /\ xring'[w].ev = e
    BY <1>1, <1>2 DEF XRingInv, XRingTypes
  <1> HIDE DEF n, w
  <1>10. XRingTypes'
    <2>1. Len(xqueue') \in XPlaces
      BY <1>2, <1>4, <1>5 DEF XPlaces
    <2>2. xring' = [i \in XPlaces |-> xring'[i]]
      BY <1>2 DEF XRingInv, XRingTypes
    <2>3. QED
      BY <1>1, <1>2, <1>3, <1>5, <2>1, <2>2 DEF XRingTypes, XPlaces
  <1>11. XRingEnds'
    BY <1>1, <1>2, <1>3, <1>5, <1>7 DEF XRingEnds
  <1>12. XRingLaps'
    <2> SUFFICES ASSUME NEW k \in XPlaces
                 PROVE  xring'[Wrap(d + k, XEvents)].cycle =
                          IF k < n + 1 THEN XLap(d, c, k) ELSE 1 - XLap(d, c, k)
      BY <1>2, <1>5 DEF XRingLaps
    <2>1. k \in 0 .. (XEvents - 1) /\ k \in Int
      BY <1>1 DEF XPlaces
    <2>2. CASE k = n
      <3>1. Wrap(d + k, XEvents) = w /\ k < n + 1
        BY <1>1, <2>2 DEF w
      <3>2. QED
        BY <1>1, <1>9, <2>2, <3>1
    <2>3. CASE k # n
      <3>1. xring'[Wrap(d + k, XEvents)] = xring[Wrap(d + k, XEvents)]
        BY <1>6, <1>8, <2>1, <2>3
      <3>2. xring[Wrap(d + k, XEvents)].cycle = IF k < n THEN XLap(d, c, k) ELSE 1 - XLap(d, c, k)
        BY DEF XRingInv, XRingLaps, n
      <3>3. k < n <=> k < n + 1
        BY <1>1, <2>1, <2>3
      <3>4. QED
        BY <3>1, <3>2, <3>3
    <2>4. QED
      BY <2>2, <2>3
  <1>13. XRingHolds'
    <2> SUFFICES ASSUME NEW k \in 0 .. n PROVE xring'[Wrap(d + k, XEvents)].ev = Append(q, e)[k + 1]
      <3>1. \A k : k \in 0 .. (Len(xqueue') - 1) => k \in 0 .. n
        BY <1>1, <1>2, <1>5
      <3>2. QED
        BY <1>2, <3>1 DEF XRingHolds
    <2>1. CASE k = n
      <3>1. Wrap(d + k, XEvents) = w
        BY <2>1 DEF w
      <3>2. QED
        BY <1>5, <1>9, <2>1, <3>1
    <2>2. CASE k # n
      <3>1. k \in 0 .. (n - 1) /\ k \in 0 .. (XEvents - 1) /\ k + 1 \in 1 .. n
        BY <1>1, <2>2
      <3>2. xring'[Wrap(d + k, XEvents)] = xring[Wrap(d + k, XEvents)]
        BY <1>6, <1>8, <2>2, <3>1
      <3>3. xring[Wrap(d + k, XEvents)].ev = q[k + 1]
        BY <3>1 DEF XRingInv, XRingHolds, n
      <3>4. QED
        BY <1>5, <3>1, <3>2, <3>3
    <2>3. QED
      BY <2>1, <2>2
  <1>14. QED
    BY <1>2, <1>10, <1>11, <1>12, <1>13 DEF XRingInv

\* What the ring's invariant says of the events.
LEMMA XRingRight == XRingInv => X!EventsInOrder
  <1> SUFFICES ASSUME XRingInv PROVE X!EventsInOrder
    OBVIOUS
  <1>1. xdeq \in 0 .. (XEvents - 1) /\ Len(xqueue) \in 0 .. (XEvents - 1) /\ XEvents \in Nat \ {0}
    BY XhciConstants DEF XRingInv, XRingTypes, XPlaces
  <1>2. ASSUME NEW k \in 0 .. (Len(xqueue) - 1) PROVE xring[(xdeq + k) % XEvents].ev = xqueue[k + 1]
    <2>1. xdeq + k \in 0 .. (2 * XEvents - 1)
      BY <1>1
    <2>2. (xdeq + k) % XEvents = Wrap(xdeq + k, XEvents)
      BY <1>1, <2>1, WrapMod
    <2>3. QED
      BY <2>2 DEF XRingInv, XRingHolds
  <1>3. QED
    BY <1>2, XReadyIs DEF X!EventsInOrder

-----------------------------------------------------------------------------
(* The endpoint rings of xHCI.                                             *)

\* A bulk or interrupt ring.
XTrbRing(r) ==
    /\ DOMAIN r = {"open", "cycle", "enq", "deq", "at", "busy"}
    /\ r.cycle \in [XTrbPlaces -> {0, 1}]
    /\ r.enq \in XTrbPlaces /\ r.deq \in XTrbPlaces /\ r.at \in XTrbPlaces

\* A command with the slot it is about.
XCmdOk(o) == o \in XCmds /\ (o.kind \in {"address", "config", "setup"} => o.slot \in 1 .. XSlots)

XTypes ==
    /\ xpc \in {"off", "failed", "scan", "idle", "wait"} /\ xport \in Nat
    /\ xpc = "wait" => XCmdOk(xop) \/ xop \in XBulks
    /\ xjobs \in Seq(XCmds)
    /\ XTrbRing(xbulk) /\ XTrbRing(xkb)
    /\ xdevs \in [1 .. XSlots -> Nat \cup {None}]

\* The place after one in an endpoint ring.
LEMMA TrbPlace == \A i \in XTrbPlaces : (i + 1) % XTrbs = Wrap(i + 1, XTrbs) /\ Wrap(i + 1, XTrbs) \in XTrbPlaces
  BY WrapNext, XhciConstants DEF XTrbPlaces

\* An endpoint ring nobody uses.
LEMMA NoRingIs ==
    LET r == X!NoRing IN
    /\ XTrbRing(r) /\ ~r.open /\ ~r.busy /\ r.enq = 0 /\ r.deq = 0 /\ r.at = 0
    /\ \A i \in XTrbPlaces : r.cycle[i] = 0
  <1>1. 0 \in XTrbPlaces
    BY XhciConstants DEF XTrbPlaces
  <1>2. QED
    BY <1>1 DEF X!NoRing, XTrbRing, XTrbPlaces

\* One that is just set up.
LEMMA OpenedIs ==
    LET r == [X!NoRing EXCEPT !.open = TRUE] IN
    /\ XTrbRing(r) /\ r.open /\ ~r.busy /\ r.enq = 0 /\ r.deq = 0 /\ r.at = 0
    /\ \A i \in XTrbPlaces : r.cycle[i] = 0
  <1> DEFINE n == X!NoRing
  <1>1. XTrbRing(n) /\ ~n.busy /\ n.enq = 0 /\ n.deq = 0 /\ n.at = 0 /\ \A i \in XTrbPlaces : n.cycle[i] = 0
    BY NoRingIs
  <1> HIDE DEF n
  <1>2. QED
    BY <1>1 DEF XTrbRing, n

\* A TRB is filled and the next one is up.
LEMMA PostIs ==
    ASSUME NEW r, XTrbRing(r)
    PROVE  LET p == X!Post(r) IN
           /\ XTrbRing(p) /\ p.open = r.open /\ p.deq = r.deq /\ p.at = r.at /\ p.busy = r.busy
           /\ p.enq = Wrap(r.enq + 1, XTrbs)
           /\ p.cycle = [r.cycle EXCEPT ![r.enq] = 1 - r.cycle[r.enq]]
  <1> DEFINE f == [r EXCEPT !.cycle[r.enq] = 1 - @]
             p == [f EXCEPT !.enq = (f.enq + 1) % XTrbs]
  <1>1. X!Post(r) = p
    BY DEF X!Post, X!fill_trb_buff, X!xhci_get_trb
  <1>2. /\ DOMAIN f = DOMAIN r /\ f.open = r.open /\ f.deq = r.deq /\ f.at = r.at /\ f.busy = r.busy /\ f.enq = r.enq
        /\ f.cycle = [r.cycle EXCEPT ![r.enq] = 1 - r.cycle[r.enq]]
    BY DEF XTrbRing
  <1>3. r.enq \in XTrbPlaces /\ r.cycle \in [XTrbPlaces -> {0, 1}] /\ 1 - r.cycle[r.enq] \in {0, 1}
    BY DEF XTrbRing
  <1>4. [r.cycle EXCEPT ![r.enq] = 1 - r.cycle[r.enq]] \in [XTrbPlaces -> {0, 1}]
    BY <1>3
  <1>5. (r.enq + 1) % XTrbs = Wrap(r.enq + 1, XTrbs) /\ Wrap(r.enq + 1, XTrbs) \in XTrbPlaces
    BY <1>3, TrbPlace
  <1> HIDE DEF f
  <1>6. /\ DOMAIN p = DOMAIN f /\ p.open = f.open /\ p.deq = f.deq /\ p.at = f.at /\ p.busy = f.busy
        /\ p.enq = Wrap(r.enq + 1, XTrbs) /\ p.cycle = f.cycle
    BY <1>2, <1>5 DEF XTrbRing
  <1> HIDE DEF p
  <1>7. QED
    BY <1>1, <1>2, <1>4, <1>5, <1>6 DEF XTrbRing

\* The driver goes on to the next TRB to read.
LEMMA DeqIs ==
    ASSUME NEW r, XTrbRing(r)
    PROVE  LET p == X!xhci_get_trb_deq(r) IN
           /\ XTrbRing(p) /\ p.open = r.open /\ p.enq = r.enq /\ p.at = r.at /\ p.busy = r.busy
           /\ p.deq = Wrap(r.deq + 1, XTrbs) /\ p.cycle = r.cycle
  <1>1. (r.deq + 1) % XTrbs = Wrap(r.deq + 1, XTrbs) /\ Wrap(r.deq + 1, XTrbs) \in XTrbPlaces
    BY TrbPlace DEF XTrbRing
  <1>2. QED
    BY <1>1 DEF XTrbRing, X!xhci_get_trb_deq

\* The controller looks at the TRB it is at.
LEMMA DoorbellIs ==
    ASSUME NEW r, XTrbRing(r)
    PROVE  LET p == X!Doorbell(r) IN
           /\ XTrbRing(p) /\ p.open = r.open /\ p.enq = r.enq /\ p.at = r.at /\ p.deq = r.deq
           /\ p.busy <=> r.busy \/ r.cycle[r.at] = 1
           /\ p.cycle = r.cycle
  BY DEF XTrbRing, X!Doorbell

\* The controller goes on to the next TRB.
LEMMA AdvanceIs ==
    ASSUME NEW r, XTrbRing(r)
    PROVE  LET p == X!Advance(r) IN
           /\ XTrbRing(p) /\ p.open = r.open /\ p.enq = r.enq /\ p.deq = r.deq /\ p.cycle = r.cycle
           /\ p.at = Wrap(r.at + 1, XTrbs)
           /\ p.busy <=> r.cycle[Wrap(r.at + 1, XTrbs)] = 1
  <1>1. (r.at + 1) % XTrbs = Wrap(r.at + 1, XTrbs) /\ Wrap(r.at + 1, XTrbs) \in XTrbPlaces
    BY TrbPlace DEF XTrbRing
  <1>2. QED
    BY <1>1 DEF XTrbRing, X!Advance

\* A TRB is cleared after its transfer.
LEMMA ClearIs ==
    ASSUME NEW r, XTrbRing(r), NEW i \in XTrbPlaces
    PROVE  LET p == X!ClearTrb(r, i) IN
           /\ XTrbRing(p) /\ p.open = r.open /\ p.enq = r.enq /\ p.deq = r.deq /\ p.at = r.at /\ p.busy = r.busy
           /\ p.cycle = [r.cycle EXCEPT ![i] = 0]
  <1>1. [r.cycle EXCEPT ![i] = 0] \in [XTrbPlaces -> {0, 1}]
    BY DEF XTrbRing
  <1>2. QED
    BY <1>1 DEF XTrbRing, X!ClearTrb

\* A TRB is read and the next one posted.
LEMMA RefillIs ==
    ASSUME NEW r, XTrbRing(r)
    PROVE  LET p == X!Refill(r) IN
           /\ XTrbRing(p) /\ p.open = r.open /\ p.at = r.at /\ p.busy = r.busy
           /\ p.enq = Wrap(r.enq + 1, XTrbs) /\ p.deq = Wrap(r.deq + 1, XTrbs)
           /\ p.cycle = [r.cycle EXCEPT ![r.enq] = 1 - r.cycle[r.enq]]
  <1> DEFINE s == X!xhci_get_trb_deq(r)
  <1>1. /\ XTrbRing(s) /\ s.open = r.open /\ s.enq = r.enq /\ s.at = r.at /\ s.busy = r.busy
        /\ s.deq = Wrap(r.deq + 1, XTrbs) /\ s.cycle = r.cycle
    BY DeqIs
  <1>2. X!Refill(r) = X!Post(s)
    BY DEF X!Refill
  <1> HIDE DEF s
  <1>3. QED
    BY <1>1, <1>2, PostIs

\* What the callers of xhci_poll_event do next.
LEMMA DevInitIs ==
    ASSUME XTypes, xpc = "wait", xop.kind # "bulk", NEW s, NEW got, X!usb3_dev_init(s, got)
    PROVE  /\ \/ xpc' = "wait" /\ XCmdOk(xop') /\ xjobs' = Append(xjobs, xop')
              \/ xpc' \in {"scan", "idle"} /\ xop' = xop /\ xjobs' = xjobs
           /\ xport' \in Nat /\ xdevs' \in [1 .. XSlots -> Nat \cup {None}]
  <1>1. XCmdOk(xop) /\ xport \in Nat /\ xport + 1 \in Nat /\ xdevs \in [1 .. XSlots -> Nat \cup {None}]
    BY DEF XTypes, XBulks
  <1>2. xop.kind \in XCmdKinds /\ xop.slot \in Nat
    BY <1>1 DEF XCmdOk, XCmds
  <1>3. /\ XCmdOk([kind |-> "enable", slot |-> 0])
        /\ xop.kind \in {"address", "config"} =>
             XCmdOk([kind |-> "config", slot |-> xop.slot]) /\ XCmdOk([kind |-> "setup", slot |-> xop.slot])
        /\ X!Slotted(s) => XCmdOk([kind |-> "address", slot |-> s])
    <2>1. \A n \in Nat, k \in XCmdKinds : [kind |-> k, slot |-> n] \in XCmds
      BY DEF XCmds
    <2>2. ASSUME NEW n \in 1 .. XSlots, NEW k \in XCmdKinds PROVE XCmdOk([kind |-> k, slot |-> n])
      <3>1. n \in Nat
        BY XhciConstants
      <3>2. QED
        BY <2>1, <3>1 DEF XCmdOk
    <2>3. {"enable", "address", "config", "setup"} \subseteq XCmdKinds
      BY DEF XCmdKinds
    <2>4. XCmdOk([kind |-> "enable", slot |-> 0])
      BY <2>1, <2>3 DEF XCmdOk
    <2>5. xop.kind \in {"address", "config"} => xop.slot \in 1 .. XSlots
      BY <1>1 DEF XCmdOk
    <2>6. QED
      BY <2>2, <2>3, <2>4, <2>5 DEF X!Slotted
  <1>4. CASE xop.kind = "reset"
    BY <1>1, <1>3, <1>4 DEF X!usb3_dev_init, X!Await
  <1>5. CASE xop.kind = "enable"
    <2>1. CASE s = 0
      BY <1>1, <1>5, <2>1 DEF X!usb3_dev_init
    <2>2. CASE s # 0
      BY <1>1, <1>3, <1>5, <2>2 DEF X!usb3_dev_init, X!xhci_alloc_dev, X!Await
    <2>3. QED
      BY <2>1, <2>2
  <1>6. CASE xop.kind = "address"
    BY <1>1, <1>3, <1>6 DEF X!usb3_dev_init, X!Await
  <1>7. CASE xop.kind = "config"
    BY <1>1, <1>3, <1>7 DEF X!usb3_dev_init, X!DeviceFound, X!Await
  <1>8. CASE xop.kind = "setup"
    BY <1>1, <1>8 DEF X!usb3_dev_init, X!SetUpDone
  <1>9. CASE xop.kind \in {"ctrl", "config ep"}
    BY <1>1, <1>9 DEF X!usb3_dev_init
  <1>10. QED
    BY <1>2, <1>4, <1>5, <1>6, <1>7, <1>8, <1>9 DEF XCmdKinds

\* At the start, the types and the ring.
LEMMA XTypesInitially == X!Init => XTypes /\ XRingInv
  <1> SUFFICES ASSUME X!Init PROVE XTypes /\ XRingInv
    OBVIOUS
  <1>1. XTypes
    <2>1. <<>> \in Seq(XCmds) /\ 1 \in Nat /\ xdevs \in [1 .. XSlots -> Nat \cup {None}]
      BY DEF X!Init
    <2>2. QED
      BY <2>1, NoRingIs DEF X!Init, XTypes
  <1>2. XRingInv
    <2>1. /\ xenq = 0 /\ xpcs = 1 /\ xdeq = 0 /\ xcycle = 1 /\ xerdp = 0 /\ xqueue = <<>>
          /\ xring = [i \in XPlaces |-> [cycle |-> 0, ev |-> None]]
      BY DEF X!Init, XPlaces
    <2>2. Len(xqueue) = 0 /\ 0 \in XPlaces /\ xqueue \in Seq(XEvts)
      BY <2>1, XhciConstants DEF XPlaces
    <2>3. XRingTypes
      BY <2>1, <2>2 DEF XRingTypes
    <2>4. XRingEnds
      BY <2>1, <2>2, XhciConstants DEF XRingEnds, XLap, Wrap
    <2>5. XRingLaps
      <3> SUFFICES ASSUME NEW k \in XPlaces
                   PROVE  xring[Wrap(0 + k, XEvents)].cycle =
                            IF k < 0 THEN XLap(0, 1, k) ELSE 1 - XLap(0, 1, k)
        BY <2>1, <2>2 DEF XRingLaps
      <3>1. Wrap(0 + k, XEvents) = k /\ XLap(0, 1, k) = 1 /\ ~(k < 0)
        BY XhciConstants DEF XPlaces, XLap, Wrap
      <3>2. xring[k].cycle = 0
        BY <2>1
      <3>3. QED
        BY <3>1, <3>2
    <2>6. XRingHolds
      BY <2>2 DEF XRingHolds
    <2>7. QED
      BY <2>3, <2>4, <2>5, <2>6 DEF XRingInv
  <1>3. QED
    BY <1>1, <1>2

-----------------------------------------------------------------------------
(* The invariant of xHCI, and its steps.                                   *)

\* No event in a set, and exactly one.
NoneIn(q, A) == \A k \in 1 .. Len(q) : q[k] \notin A
OneIn(q, A) == \E k \in 1 .. Len(q) : q[k] \in A /\ \A j \in 1 .. Len(q) : j # k => q[j] \notin A

XOn == xpc \notin {"off", "failed"}
XWaitsBulk == xpc = "wait" /\ xop.kind = "bulk"
XWaitsCmd == xpc = "wait" /\ xop.kind # "bulk"

\* Before the keyboard is opened there is no report; it is closed only with xshared set.
XKbHistory ==
    /\ ~XOn => xbulk = X!NoRing /\ xkb = X!NoRing /\ ~xlate /\ ~xstarted
    /\ ~xstarted => xkb = X!NoRing
    /\ xstarted /\ ~xshared => xkb.open
    /\ ~xstarted /\ ~xshared /\ ~xlate => ~usb_kb
    /\ ~xstarted /\ XOn => NoneIn(xqueue, XReports)

\* A command or control request is with the controller or its event in the queue.
XForeign == {e \in XCmds : ~X!Own(e)}
XCmdDone == OneIn(xqueue, XCmds) /\ NoneIn(xqueue, XForeign)
XCmdInv ==
    XOn /\ ~xlate /\ (~xshared \/ ~xstarted) =>
        \/ XWaitsCmd /\ xjobs = <<xop>> /\ NoneIn(xqueue, XCmds)
        \/ XWaitsCmd /\ xjobs = <<>> /\ XCmdDone
        \/ ~XWaitsCmd /\ xjobs = <<>> /\ NoneIn(xqueue, XCmds)

\* So is a bulk transfer, and its TRB is the only one whose cycle bit is set.
XBulkDone == OneIn(xqueue, XBulks) /\ NoneIn(xqueue, XBulks \ {xop})
XBulkIdle ==
    /\ NoneIn(xqueue, XBulks) /\ ~xbulk.busy /\ xbulk.at = xbulk.enq
    /\ \A i \in XTrbPlaces : xbulk.cycle[i] = 0
XBulkBusy ==
    /\ xop \in XBulks /\ xbulk.enq = Wrap(xop.slot + 1, XTrbs)
    /\ \A i \in XTrbPlaces : xbulk.cycle[i] = IF i = xop.slot THEN 1 ELSE 0
    /\ \/ xbulk.busy /\ xbulk.at = xop.slot /\ NoneIn(xqueue, XBulks)
       \/ ~xbulk.busy /\ xbulk.at = xbulk.enq /\ XBulkDone
XBulkInv == XOn /\ ~xlate => IF XWaitsBulk THEN XBulkBusy ELSE XBulkIdle

\* The keyboard's ring in its first lap: one TRB is posted.
XKbRing ==
    /\ xkb.deq + 1 = xkb.enq
    /\ \A i \in XTrbPlaces : xkb.cycle[i] = IF i < xkb.enq THEN 1 ELSE 0
XKbEvent ==
    \/ xkb.at = xkb.deq /\ ~usb_kb /\ NoneIn(xqueue, XReports)
    \/ /\ xkb.at = xkb.enq /\ ~xkb.busy
       /\ \/ usb_kb /\ NoneIn(xqueue, XReports)
          \/ ~usb_kb /\ OneIn(xqueue, XReports)
XKbInv == xkb.open /\ ~xlate /\ ~xshared /\ ~xlap => XKbRing /\ XKbEvent

\* The last operation that ended took its own event.
XOwnInv == ~xlate => /\ (xop # None /\ xop.kind = "bulk" /\ xpc # "wait") => xown
                     /\ ~xstarted => xown

\* The memory of a slot is its device's, or of one that is being set up.
XMemInv ==
    /\ xmem \subseteq X!Rings \cup X!xhci_free_dev(1 .. XSlots) \cup {<<"reports", 0>>}
    /\ XOn => \A s \in 1 .. (XSlots - 1) : <<"slot", s>> \in xmem =>
          xdevs[s] # None \/ (xpc = "wait" /\ xop.kind \in {"address", "config"} /\ xop.slot = s)
    /\ ~XOn => xmem \subseteq X!xhci_free_dev({XSlots}) \cup {<<"reports", 0>>}

XInv == XTypes /\ XRingInv /\ XKbHistory /\ XCmdInv /\ XBulkInv /\ XKbInv /\ XOwnInv /\ XMemInv

\* The kinds of events.
LEMMA EventKinds ==
    \A e \in XEvts : /\ e \in XCmds <=> e.kind \in XCmdKinds
                     /\ e \in XBulks <=> e.kind = "bulk"
                     /\ e \in XReports <=> e.kind = "report"
  <1>1. \A e \in XCmds : e.kind \in XCmdKinds
    BY DEF XCmds
  <1>2. \A e \in XBulks : e.kind = "bulk"
    BY DEF XBulks
  <1>3. \A e \in XReports : e.kind = "report"
    BY DEF XReports
  <1>4. "bulk" \notin XCmdKinds /\ "report" \notin XCmdKinds /\ "bulk" # "report"
    BY DEF XCmdKinds
  <1>5. QED
    BY <1>1, <1>2, <1>3, <1>4 DEF XEvts

\* An event is of one of three kinds.
LEMMA KindsApart ==
    \A e \in XEvts : /\ e \in XCmds => e \notin XBulks /\ e \notin XReports
                     /\ e \in XBulks => e \notin XCmds /\ e \notin XReports
                     /\ e \in XReports => e \notin XCmds /\ e \notin XBulks
                     /\ e \in XCmds \/ e \in XBulks \/ e \in XReports
  <1>1. \A e \in XEvts : e \in XCmds \/ e \in XBulks \/ e \in XReports
    BY DEF XEvts
  <1>2. QED
    BY <1>1, EventKinds DEF XCmdKinds

\* What an event more or less does to a queue.
LEMMA NoneYet == \A A : NoneIn(<<>>, A)
  BY DEF NoneIn

\* An event is put at the end.
LEMMA QueueLonger ==
    ASSUME NEW q \in Seq(XEvts), NEW e \in XEvts, NEW A
    PROVE  /\ NoneIn(q, A) /\ e \notin A => NoneIn(Append(q, e), A)
           /\ OneIn(q, A) /\ e \notin A => OneIn(Append(q, e), A)
           /\ NoneIn(q, A) /\ e \in A => OneIn(Append(q, e), A)
  <1> DEFINE p == Append(q, e)
             n == Len(q)
  <1>1. n \in Nat /\ Len(p) = n + 1 /\ p[n + 1] = e /\ \A k \in 1 .. n : p[k] = q[k]
    OBVIOUS
  <1> HIDE DEF p, n
  <1>2. \A k : k \in 1 .. (n + 1) <=> k \in 1 .. n \/ k = n + 1
    BY <1>1
  <1>3. n + 1 \notin 1 .. n
    BY <1>1
  <1>4. NoneIn(q, A) /\ e \notin A => NoneIn(p, A)
    BY <1>1, <1>2 DEF NoneIn, n
  <1>5. ASSUME OneIn(q, A), e \notin A PROVE OneIn(p, A)
    <2>1. PICK k \in 1 .. n : q[k] \in A /\ \A j \in 1 .. n : j # k => q[j] \notin A
      BY <1>5 DEF OneIn, n
    <2>2. k \in 1 .. (n + 1) /\ p[k] \in A /\ \A j \in 1 .. (n + 1) : j # k => p[j] \notin A
      BY <1>1, <1>2, <1>5, <2>1
    <2>3. QED
      BY <1>1, <2>2 DEF OneIn
  <1>6. ASSUME NoneIn(q, A), e \in A PROVE OneIn(p, A)
    <2>1. \A j \in 1 .. n : q[j] \notin A
      BY <1>6 DEF NoneIn, n
    <2>2. n + 1 \in 1 .. (n + 1) /\ p[n + 1] \in A /\ \A j \in 1 .. (n + 1) : j # n + 1 => p[j] \notin A
      BY <1>1, <1>2, <1>6, <2>1
    <2>3. QED
      BY <1>1, <2>2 DEF OneIn
  <1>7. QED
    BY <1>4, <1>5, <1>6 DEF p

\* The oldest event is taken.
LEMMA QueueShorter ==
    ASSUME NEW q \in Seq(XEvts), q # <<>>, NEW A
    PROVE  /\ NoneIn(q, A) => q[1] \notin A /\ NoneIn(Tail(q), A)
           /\ OneIn(q, A) /\ q[1] \in A => NoneIn(Tail(q), A)
           /\ OneIn(q, A) /\ q[1] \notin A => OneIn(Tail(q), A)
  <1> DEFINE p == Tail(q)
             n == Len(q)
  <1>1. n \in Nat \ {0} /\ Len(p) = n - 1 /\ \A k \in 1 .. (n - 1) : p[k] = q[k + 1]
    OBVIOUS
  <1> HIDE DEF p, n
  <1>2. 1 \in 1 .. n /\ \A k \in 1 .. (n - 1) : k + 1 \in 1 .. n /\ k + 1 # 1
    BY <1>1
  <1>3. NoneIn(q, A) => q[1] \notin A /\ NoneIn(p, A)
    BY <1>1, <1>2 DEF NoneIn, n
  <1>4. ASSUME OneIn(q, A), q[1] \in A PROVE NoneIn(p, A)
    <2>1. PICK k \in 1 .. n : q[k] \in A /\ \A j \in 1 .. n : j # k => q[j] \notin A
      BY <1>4 DEF OneIn, n
    <2>2. k = 1
      BY <1>2, <1>4, <2>1
    <2>3. QED
      BY <1>1, <1>2, <2>1, <2>2 DEF NoneIn
  <1>5. ASSUME OneIn(q, A), q[1] \notin A PROVE OneIn(p, A)
    <2>1. PICK k \in 1 .. n : q[k] \in A /\ \A j \in 1 .. n : j # k => q[j] \notin A
      BY <1>5 DEF OneIn, n
    <2>2. k # 1
      BY <1>5, <2>1
    <2>3. k - 1 \in 1 .. (n - 1) /\ (k - 1) + 1 = k
      BY <1>1, <2>1, <2>2
    <2>4. p[k - 1] \in A
      BY <1>1, <2>1, <2>3
    <2>5. ASSUME NEW j \in 1 .. (n - 1), j # k - 1 PROVE p[j] \notin A
      <3>1. j + 1 \in 1 .. n /\ j + 1 # k
        BY <1>1, <2>3, <2>5
      <3>2. QED
        BY <1>1, <2>1, <3>1
    <2>6. QED
      BY <1>1, <2>3, <2>4, <2>5 DEF OneIn
  <1>6. QED
    BY <1>3, <1>4, <1>5 DEF p

\* A step that leaves the event ring alone.
LEMMA XSteady ==
    ASSUME XRingInv, UNCHANGED X!ring
    PROVE  XRingInv' /\ xqueue' = xqueue
  BY DEF XRingInv, XRingTypes, XRingEnds, XRingLaps, XRingHolds, X!ring

\* The parts of the invariant.
LEMMA XParts ==
    ASSUME XInv
    PROVE  XTypes /\ XRingInv /\ XKbHistory /\ XCmdInv /\ XBulkInv /\ XKbInv /\ XOwnInv /\ XMemInv
  BY DEF XInv

\* The ports are scanned.
LEMMA XhciHubCheckPorts == XInv /\ X!xhci_hub_check_ports => XInv'
  <1> SUFFICES ASSUME XInv, X!xhci_hub_check_ports PROVE XInv'
    OBVIOUS
  <1>1. XTypes /\ XRingInv /\ XKbHistory /\ XCmdInv /\ XBulkInv /\ XKbInv /\ XOwnInv /\ XMemInv
    BY XParts
  <1>2. XRingInv' /\ xqueue' = xqueue
    BY <1>1, XSteady DEF X!xhci_hub_check_ports
  <1>3. XTypes'
    BY <1>1, <1>2 DEF XTypes, X!xhci_hub_check_ports
  <1>4. XKbHistory'
    BY <1>1, <1>2 DEF XKbHistory, XOn, X!xhci_hub_check_ports
  <1>5. XCmdInv'
    BY <1>1, <1>2 DEF XCmdInv, XCmdDone, XForeign, X!Own, XOn, XWaitsCmd, XWaitsBulk, X!xhci_hub_check_ports
  <1>6. XBulkInv'
    BY <1>1, <1>2 DEF XBulkInv, XBulkIdle, XBulkBusy, XBulkDone, XOn, XWaitsCmd, XWaitsBulk, X!xhci_hub_check_ports
  <1>7. XKbInv'
    BY <1>1, <1>2 DEF XKbInv, XKbRing, XKbEvent, X!xhci_hub_check_ports
  <1>8. XOwnInv'
    BY <1>1, <1>2 DEF XOwnInv, X!xhci_hub_check_ports
  <1>9. XMemInv'
    BY <1>1, <1>2 DEF XMemInv, XOn, X!xhci_hub_check_ports
  <1>10. QED
    BY <1>2, <1>3, <1>4, <1>5, <1>6, <1>7, <1>8, <1>9 DEF XInv

\* A list of jobs with one more, from nothing.
LEMMA FirstJob == \A o \in XCmds : Append(<<>>, o) = <<o>>
  OBVIOUS

\* A list of jobs with one more.
LEMMA JobsTyped == \A o \in XCmds, s \in Seq(XCmds) : Append(s, o) \in Seq(XCmds)
  OBVIOUS

\* A control request.
LEMMA XhciSendCtrl == XInv /\ X!xhci_send_ctrl => XInv'
  <1> SUFFICES ASSUME XInv, X!xhci_send_ctrl PROVE XInv'
    OBVIOUS
  <1>1. XTypes /\ XRingInv /\ XKbHistory /\ XCmdInv /\ XBulkInv /\ XKbInv /\ XOwnInv /\ XMemInv
    BY XParts
  <1>2. XRingInv' /\ xqueue' = xqueue
    BY <1>1, XSteady DEF X!xhci_send_ctrl
  <1> DEFINE o == [kind |-> "ctrl", slot |-> 0]
  <1>3. XCmdOk(o) /\ o \in XCmds /\ o.kind # "bulk" /\ o.kind \notin {"address", "config"} /\ Append(<<>>, o) = <<o>>
    BY XhciConstants, FirstJob DEF XCmdOk, XCmds, XCmdKinds
  <1>4. /\ xpc \in {"scan", "idle"} /\ xop' = o /\ xpc' = "wait" /\ xjobs' = Append(xjobs, o)
        /\ UNCHANGED <<xport, xslot, xdevs, usb_kb, xown, xlate, xshared>>
    BY DEF X!xhci_send_ctrl, X!Await, X!ring
  <1>5. xjobs' \in Seq(XCmds)
    BY <1>1, <1>3, <1>4, JobsTyped DEF XTypes
  <1> HIDE DEF o
  <1>6. XTypes'
    BY <1>1, <1>2, <1>3, <1>4, <1>5 DEF XTypes, X!xhci_send_ctrl
  <1>7. XKbHistory'
    BY <1>1, <1>2, <1>3, <1>4, <1>5 DEF XKbHistory, XOn, X!xhci_send_ctrl
  <1>8. XCmdInv'
    BY <1>1, <1>2, <1>3, <1>4, <1>5 DEF XCmdInv, XCmdDone, XForeign, X!Own, XOn, XWaitsCmd, XWaitsBulk, X!xhci_send_ctrl
  <1>9. XBulkInv'
    BY <1>1, <1>2, <1>3, <1>4, <1>5 DEF XBulkInv, XBulkIdle, XBulkBusy, XBulkDone, XOn, XWaitsCmd, XWaitsBulk, X!xhci_send_ctrl
  <1>10. XKbInv'
    BY <1>1, <1>2, <1>3, <1>4, <1>5 DEF XKbInv, XKbRing, XKbEvent, X!xhci_send_ctrl
  <1>11. XOwnInv'
    BY <1>1, <1>2, <1>3, <1>4, <1>5 DEF XOwnInv, X!xhci_send_ctrl
  <1>12. XMemInv'
    BY <1>1, <1>2, <1>3, <1>4, <1>5 DEF XMemInv, XOn, X!xhci_send_ctrl
  <1>13. QED
    BY <1>2, <1>6, <1>7, <1>8, <1>9, <1>10, <1>11, <1>12 DEF XInv

\* The bulk endpoint is set up.
LEMMA XhciInitBulk == XInv /\ X!xhci_init_bulk_ep => XInv'
  <1> SUFFICES ASSUME XInv, X!xhci_init_bulk_ep PROVE XInv'
    OBVIOUS
  <1>1. XTypes /\ XRingInv /\ XKbHistory /\ XCmdInv /\ XBulkInv /\ XKbInv /\ XOwnInv /\ XMemInv
    BY XParts
  <1>2. XRingInv' /\ xqueue' = xqueue
    BY <1>1, XSteady DEF X!xhci_init_bulk_ep
  <1> DEFINE o == [kind |-> "config ep", slot |-> 1]
  <1>3. XCmdOk(o) /\ o \in XCmds /\ o.kind # "bulk" /\ o.kind \notin {"address", "config"} /\ Append(<<>>, o) = <<o>>
    BY XhciConstants, FirstJob DEF XCmdOk, XCmds, XCmdKinds
  <1>4. /\ xpc \in {"scan", "idle"} /\ xop' = o /\ xpc' = "wait" /\ xjobs' = Append(xjobs, o)
        /\ UNCHANGED <<xport, xslot, xdevs, usb_kb, xown, xlate, xshared>>
    BY DEF X!xhci_init_bulk_ep, X!Await, X!xhci_configure_ep
  <1>5. xjobs' \in Seq(XCmds)
    BY <1>1, <1>3, <1>4, JobsTyped DEF XTypes
  <1> HIDE DEF o
  <1>6. LET r == xbulk' IN
        /\ XTrbRing(r) /\ r.open /\ ~r.busy /\ r.enq = 0 /\ r.deq = 0 /\ r.at = 0
        /\ \A i \in XTrbPlaces : r.cycle[i] = 0
    BY OpenedIs DEF X!xhci_init_bulk_ep
  <1>7. XTypes'
    BY <1>1, <1>2, <1>3, <1>4, <1>5, <1>6 DEF XTypes, X!xhci_init_bulk_ep
  <1>8. XKbHistory'
    BY <1>1, <1>2, <1>3, <1>4, <1>5, <1>6 DEF XKbHistory, XOn, X!xhci_init_bulk_ep
  <1>9. XCmdInv'
    BY <1>1, <1>2, <1>3, <1>4, <1>5, <1>6 DEF XCmdInv, XCmdDone, XForeign, X!Own, XOn, XWaitsCmd, XWaitsBulk, X!xhci_init_bulk_ep
  <1>10. XBulkInv'
    BY <1>1, <1>2, <1>3, <1>4, <1>5, <1>6 DEF XBulkInv, XBulkIdle, XBulkBusy, XBulkDone, XOn, XWaitsCmd, XWaitsBulk, X!xhci_init_bulk_ep
  <1>11. XKbInv'
    BY <1>1, <1>2, <1>3, <1>4, <1>5, <1>6 DEF XKbInv, XKbRing, XKbEvent, X!xhci_init_bulk_ep
  <1>12. XOwnInv'
    BY <1>1, <1>2, <1>3, <1>4, <1>5, <1>6 DEF XOwnInv, X!xhci_init_bulk_ep
  <1>13. XMemInv'
    BY <1>1, <1>2, <1>3, <1>4, <1>5, <1>6 DEF XMemInv, XOn, X!xhci_init_bulk_ep
  <1>14. QED
    BY <1>2, <1>7, <1>8, <1>9, <1>10, <1>11, <1>12, <1>13 DEF XInv

\* The keyboard is opened.
LEMMA XhciGetPipeIntr == XInv /\ X!xhci_get_pipe_intr => XInv'
  <1> SUFFICES ASSUME XInv, X!xhci_get_pipe_intr PROVE XInv'
    OBVIOUS
  <1>1. XTypes /\ XRingInv /\ XKbHistory /\ XCmdInv /\ XBulkInv /\ XKbInv /\ XOwnInv /\ XMemInv
    BY XParts
  <1>2. XRingInv' /\ xqueue' = xqueue
    BY <1>1, XSteady DEF X!xhci_get_pipe_intr
  <1> DEFINE o == [kind |-> "config ep", slot |-> 1]
  <1>3. XCmdOk(o) /\ o \in XCmds /\ o.kind # "bulk" /\ o.kind \notin {"address", "config"} /\ Append(<<>>, o) = <<o>>
    BY XhciConstants, FirstJob DEF XCmdOk, XCmds, XCmdKinds
  <1>4. /\ xpc \in {"scan", "idle"} /\ xop' = o /\ xpc' = "wait" /\ xjobs' = Append(xjobs, o)
        /\ UNCHANGED <<xport, xslot, xdevs, usb_kb, xown, xlate, xshared>>
    BY DEF X!xhci_get_pipe_intr, X!Await, X!xhci_configure_ep
  <1>5. xjobs' \in Seq(XCmds)
    BY <1>1, <1>3, <1>4, JobsTyped DEF XTypes
  <1> HIDE DEF o
  <1>6. /\ XTrbRing(xkb') /\ xkb'.open /\ ~xkb'.busy /\ xkb'.enq = 1 /\ xkb'.deq = 0 /\ xkb'.at = 0
        /\ \A i \in XTrbPlaces : xkb'.cycle[i] = IF i < 1 THEN 1 ELSE 0
    <2> DEFINE n == [X!NoRing EXCEPT !.open = TRUE]
    <2>1. /\ XTrbRing(n) /\ n.open /\ ~n.busy /\ n.enq = 0 /\ n.deq = 0 /\ n.at = 0
          /\ \A i \in XTrbPlaces : n.cycle[i] = 0
      BY OpenedIs
    <2>2. xkb' = X!Post(n)
      BY DEF X!xhci_get_pipe_intr
    <2> HIDE DEF n
    <2>3. /\ XTrbRing(xkb') /\ xkb'.open = n.open /\ xkb'.deq = n.deq /\ xkb'.at = n.at /\ xkb'.busy = n.busy
          /\ xkb'.enq = Wrap(n.enq + 1, XTrbs) /\ xkb'.cycle = [n.cycle EXCEPT ![n.enq] = 1 - n.cycle[n.enq]]
      BY <2>1, <2>2, PostIs
    <2>4. Wrap(0 + 1, XTrbs) = 1 /\ 0 \in XTrbPlaces
      BY XhciConstants DEF Wrap, XTrbPlaces
    <2>5. \A i \in XTrbPlaces : xkb'.cycle[i] = IF i < 1 THEN 1 ELSE 0
      <3>1. n.cycle \in [XTrbPlaces -> {0, 1}]
        BY <2>1 DEF XTrbRing
      <3>2. \A i \in XTrbPlaces : i < 1 <=> i = 0
        BY XhciConstants DEF XTrbPlaces
      <3>3. QED
        BY <2>1, <2>3, <2>4, <3>1, <3>2
    <2>6. QED
      BY <2>1, <2>3, <2>4, <2>5
  <1>7. XTypes'
    BY <1>1, <1>2, <1>3, <1>4, <1>5, <1>6 DEF XTypes, X!xhci_get_pipe_intr
  <1>8. XKbHistory'
    BY <1>1, <1>2, <1>3, <1>4, <1>5, <1>6 DEF XKbHistory, XOn, X!xhci_get_pipe_intr
  <1>9. XCmdInv'
    BY <1>1, <1>2, <1>3, <1>4, <1>5, <1>6 DEF XCmdInv, XCmdDone, XForeign, X!Own, XOn, XWaitsCmd, XWaitsBulk, X!xhci_get_pipe_intr
  <1>10. XBulkInv'
    BY <1>1, <1>2, <1>3, <1>4, <1>5, <1>6 DEF XBulkInv, XBulkIdle, XBulkBusy, XBulkDone, XOn, XWaitsCmd, XWaitsBulk, X!xhci_get_pipe_intr
  <1>11. XKbInv'
    <2>1. ~xkb.open /\ xlap' = FALSE
      BY DEF X!xhci_get_pipe_intr
    <2>2. ~xlate /\ ~xshared => ~usb_kb /\ NoneIn(xqueue, XReports)
      BY <1>1, <1>4, <2>1 DEF XKbHistory, XOn
    <2>3. QED
      BY <1>2, <1>4, <1>6, <2>2 DEF XKbInv, XKbRing, XKbEvent
  <1>12. XOwnInv'
    BY <1>1, <1>2, <1>3, <1>4, <1>5, <1>6 DEF XOwnInv, X!xhci_get_pipe_intr
  <1>13. XMemInv'
    BY <1>1, <1>2, <1>3, <1>4, <1>5, <1>6 DEF XMemInv, XOn, X!xhci_get_pipe_intr
  <1>14. QED
    BY <1>2, <1>7, <1>8, <1>9, <1>10, <1>11, <1>12, <1>13 DEF XInv

\* A port is reset or skipped.
LEMMA XhciPortScan == XInv /\ X!xhci_port_scan => XInv'
  <1> SUFFICES ASSUME XInv, X!xhci_port_scan PROVE XInv'
    OBVIOUS
  <1>1. XTypes /\ XRingInv /\ XKbHistory /\ XCmdInv /\ XBulkInv /\ XKbInv /\ XOwnInv /\ XMemInv
    BY XParts
  <1>2. XRingInv' /\ xqueue' = xqueue
    BY <1>1, XSteady DEF X!xhci_port_scan
  <1> DEFINE o == [kind |-> "reset", slot |-> 0]
  <1>3. XCmdOk(o) /\ o \in XCmds /\ o.kind # "bulk" /\ o.kind \notin {"address", "config"} /\ Append(<<>>, o) = <<o>>
    BY FirstJob DEF XCmdOk, XCmds, XCmdKinds
  <1>4. /\ xpc = "scan" /\ UNCHANGED <<xslot, xdevs, usb_kb, xown, xlate, xshared, xstarted>> /\ xport' \in Nat
        /\ \/ xop' = o /\ xpc' = "wait" /\ xjobs' = Append(xjobs, o)
           \/ UNCHANGED <<xpc, xop, xjobs>>
    BY <1>1 DEF X!xhci_port_scan, X!ResetPort, X!Await, XTypes
  <1>5. xjobs' \in Seq(XCmds)
    BY <1>1, <1>3, <1>4, JobsTyped DEF XTypes
  <1> HIDE DEF o
  <1>6. XTypes'
    BY <1>1, <1>2, <1>3, <1>4, <1>5 DEF XTypes, X!xhci_port_scan
  <1>7. XKbHistory'
    BY <1>1, <1>2, <1>3, <1>4, <1>5 DEF XKbHistory, XOn, X!xhci_port_scan
  <1>8. XCmdInv'
    <2>1. CASE xop' = o /\ xpc' = "wait" /\ xjobs' = Append(xjobs, o)
      BY <1>1, <1>2, <1>3, <1>4, <2>1 DEF XCmdInv, XOn, XWaitsCmd
    <2>2. CASE UNCHANGED <<xpc, xop, xjobs>>
      BY <1>1, <1>2, <1>4, <2>2 DEF XCmdInv, XCmdDone, XForeign, X!Own, XOn, XWaitsCmd
    <2>3. QED
      BY <1>4, <2>1, <2>2
  <1>9. XBulkInv'
    BY <1>1, <1>2, <1>3, <1>4, <1>5 DEF XBulkInv, XBulkIdle, XBulkBusy, XBulkDone, XOn, XWaitsCmd, XWaitsBulk, X!xhci_port_scan
  <1>10. XKbInv'
    BY <1>1, <1>2, <1>3, <1>4, <1>5 DEF XKbInv, XKbRing, XKbEvent, X!xhci_port_scan
  <1>11. XOwnInv'
    BY <1>1, <1>2, <1>3, <1>4, <1>5 DEF XOwnInv, X!xhci_port_scan
  <1>12. XMemInv'
    BY <1>1, <1>2, <1>3, <1>4, <1>5 DEF XMemInv, XOn, X!xhci_port_scan
  <1>13. QED
    BY <1>2, <1>6, <1>7, <1>8, <1>9, <1>10, <1>11, <1>12 DEF XInv

\* An endpoint is closed.
LEMMA XhciPutPipe == XInv /\ X!xhci_put_pipe => XInv'
  <1> SUFFICES ASSUME XInv, X!xhci_put_pipe PROVE XInv'
    OBVIOUS
  <1>1. XTypes /\ XRingInv /\ XKbHistory /\ XCmdInv /\ XBulkInv /\ XKbInv /\ XOwnInv /\ XMemInv
    BY XParts
  <1>2. XRingInv' /\ xqueue' = xqueue
    BY <1>1, XSteady DEF X!xhci_put_pipe
  <1>3. /\ XTrbRing(X!NoRing) /\ ~X!NoRing.open /\ ~X!NoRing.busy /\ X!NoRing.at = X!NoRing.enq
        /\ \A i \in XTrbPlaces : X!NoRing.cycle[i] = 0
    BY NoRingIs
  <1>4. /\ xpc = "idle" /\ UNCHANGED <<xpc, xport, xop, xjobs, xslot, xdevs, usb_kb, xown, xlate, xstarted, xlap>>
        /\ \/ xbulk' = X!NoRing /\ UNCHANGED <<xkb, xmem, xshared>>
           \/ xkb' = X!NoRing /\ xmem' \subseteq xmem /\ xshared' = TRUE /\ xkb.open /\ UNCHANGED xbulk
    BY DEF X!xhci_put_pipe
  <1>5. XTypes'
    BY <1>1, <1>2, <1>3, <1>4 DEF XTypes
  <1>6. XKbHistory'
    BY <1>1, <1>2, <1>3, <1>4 DEF XKbHistory, XOn
  <1>7. XCmdInv'
    BY <1>1, <1>2, <1>3, <1>4 DEF XCmdInv, XCmdDone, XForeign, X!Own, XOn, XWaitsCmd, XWaitsBulk
  <1>8. XBulkInv'
    BY <1>1, <1>2, <1>3, <1>4 DEF XBulkInv, XBulkIdle, XBulkBusy, XBulkDone, XOn, XWaitsCmd, XWaitsBulk
  <1>9. XKbInv'
    BY <1>1, <1>2, <1>3, <1>4 DEF XKbInv, XKbRing, XKbEvent
  <1>10. XOwnInv'
    BY <1>1, <1>2, <1>3, <1>4 DEF XOwnInv
  <1>11. XMemInv'
    BY <1>1, <1>2, <1>3, <1>4 DEF XMemInv, XOn
  <1>12. QED
    BY <1>2, <1>5, <1>6, <1>7, <1>8, <1>9, <1>10, <1>11 DEF XInv

\* A TRB of the keyboard is read and posted again, not the last of the lap.
LEMMA KbRefilled ==
    ASSUME XTrbRing(xkb), XKbRing, xkb.enq # XTrbs - 1,
           xkb'.enq = Wrap(xkb.enq + 1, XTrbs), xkb'.deq = Wrap(xkb.deq + 1, XTrbs),
           xkb'.cycle = [xkb.cycle EXCEPT ![xkb.enq] = 1 - xkb.cycle[xkb.enq]]
    PROVE  XKbRing' /\ xkb'.deq = xkb.enq
  <1> DEFINE e == xkb.enq
             d == xkb.deq
             c == xkb.cycle
  <1>1. /\ e \in XTrbPlaces /\ d \in XTrbPlaces /\ d + 1 = e /\ e # XTrbs - 1 /\ c \in [XTrbPlaces -> {0, 1}]
        /\ \A i \in XTrbPlaces : c[i] = IF i < e THEN 1 ELSE 0
    BY DEF XTrbRing, XKbRing
  <1> HIDE DEF e, d, c
  <1>2. Wrap(e + 1, XTrbs) = e + 1 /\ Wrap(d + 1, XTrbs) = e
    BY <1>1, XhciConstants DEF Wrap, XTrbPlaces
  <1>3. c[e] = 0
    BY <1>1, XhciConstants DEF XTrbPlaces
  <1>4. \A i \in XTrbPlaces : i < e + 1 <=> i < e \/ i = e
    BY <1>1, XhciConstants DEF XTrbPlaces
  <1>5. \A i \in XTrbPlaces : [c EXCEPT ![e] = 1 - c[e]][i] = IF i < e + 1 THEN 1 ELSE 0
    BY <1>1, <1>3, <1>4
  <1>6. QED
    BY <1>2, <1>5 DEF XKbRing, e, d, c

\* A report a bulk transfer has met is read.
LEMMA XhciPollSkipped == XInv /\ X!PollSkipped => XInv'
  <1> SUFFICES ASSUME XInv, X!PollSkipped PROVE XInv'
    OBVIOUS
  <1>1. XTypes /\ XRingInv /\ XKbHistory /\ XCmdInv /\ XBulkInv /\ XKbInv /\ XOwnInv /\ XMemInv
    BY XParts
  <1>2. XRingInv' /\ xqueue' = xqueue
    BY <1>1, XSteady DEF X!PollSkipped
  <1>3. /\ xpc = "idle" /\ xkb.open /\ usb_kb /\ usb_kb' = FALSE
        /\ xkb' = X!Refill(xkb) /\ xlap' = (xlap \/ xkb.enq = XTrbs - 1)
        /\ UNCHANGED <<xpc, xport, xop, xjobs, xslot, xdevs, xbulk, xmem, xown, xlate, xshared, xstarted>>
    BY DEF X!PollSkipped, X!Wraps
  <1>4. /\ XTrbRing(xkb') /\ xkb'.open = xkb.open /\ xkb'.at = xkb.at /\ xkb'.busy = xkb.busy
        /\ xkb'.enq = Wrap(xkb.enq + 1, XTrbs) /\ xkb'.deq = Wrap(xkb.deq + 1, XTrbs)
        /\ xkb'.cycle = [xkb.cycle EXCEPT ![xkb.enq] = 1 - xkb.cycle[xkb.enq]]
    BY <1>1, <1>3, RefillIs DEF XTypes
  <1>5. XTypes'
    BY <1>1, <1>2, <1>3, <1>4 DEF XTypes
  <1>6. XKbHistory'
    BY <1>1, <1>2, <1>3, <1>4, NoRingIs DEF XKbHistory, XOn
  <1>7. XCmdInv'
    BY <1>1, <1>2, <1>3, <1>4 DEF XCmdInv, XCmdDone, XForeign, X!Own, XOn, XWaitsCmd, XWaitsBulk
  <1>8. XBulkInv'
    BY <1>1, <1>2, <1>3, <1>4 DEF XBulkInv, XBulkIdle, XBulkBusy, XBulkDone, XOn, XWaitsCmd, XWaitsBulk
  <1>9. XKbInv'
    <2> SUFFICES ASSUME xkb.open, ~xlate, ~xshared, ~xlap, xkb.enq # XTrbs - 1 PROVE XKbRing' /\ XKbEvent'
      BY <1>3, <1>4 DEF XKbInv
    <2>1. XKbRing /\ xkb.at = xkb.enq /\ ~xkb.busy /\ NoneIn(xqueue, XReports)
      BY <1>1, <1>3 DEF XKbInv, XKbEvent, XKbRing, XTypes, XTrbRing
    <2>2. XKbRing' /\ xkb'.deq = xkb.enq
      BY <1>1, <1>4, <2>1, KbRefilled DEF XTypes
    <2>3. QED
      BY <1>2, <1>3, <1>4, <2>1, <2>2 DEF XKbEvent
  <1>10. XOwnInv'
    BY <1>1, <1>2, <1>3, <1>4 DEF XOwnInv
  <1>11. XMemInv'
    BY <1>1, <1>2, <1>3, <1>4 DEF XMemInv, XOn
  <1>12. QED
    BY <1>2, <1>5, <1>6, <1>7, <1>8, <1>9, <1>10, <1>11 DEF XInv

\* Memory of the slots is not that of the rings.
LEMMA SlotMemory ==
    \A s : /\ <<"slot", s>> \notin X!Rings /\ <<"slot", s>> # <<"reports", 0>>
          /\ \A S : <<"slot", s>> \in X!xhci_free_dev(S) <=> s \in S
  <1>1. \A s : <<"slot", s>> \notin X!Rings
    BY DEF X!Rings
  <1>2. \A s : <<"slot", s>> # <<"reports", 0>>
    OBVIOUS
  <1>3. \A s, S : <<"slot", s>> \in X!xhci_free_dev(S) <=> s \in S
    BY DEF X!xhci_free_dev
  <1>4. QED
    BY <1>1, <1>2, <1>3

\* The controller is started.
LEMMA XhciHcdInit == XInv /\ X!xhci_hcd_init => XInv'
  <1> SUFFICES ASSUME XInv, X!xhci_hcd_init PROVE XInv'
    OBVIOUS
  <1>1. XTypes /\ XKbHistory /\ XOwnInv /\ XMemInv
    BY XParts
  <1>2. XRingInv' /\ xqueue' = <<>>
    BY XRingFresh DEF X!xhci_hcd_init
  <1>3. /\ xpc = "off" /\ xjobs' = <<>> /\ xport' = 1 /\ xdevs' = [s \in 1 .. XSlots |-> None]
        /\ \/ xpc' = "scan" /\ xmem' = xmem \cup X!Rings
           \/ xpc' = "failed" /\ xmem' = xmem
        /\ UNCHANGED <<xop, xbulk, xkb, usb_kb, xown, xlate, xshared, xstarted, xlap>>
    BY DEF X!xhci_hcd_init, X!xhci_hcd_reset
  <1>4. \A A : NoneIn(xqueue', A)
    BY <1>2, NoneYet
  <1>5. xbulk = X!NoRing /\ xkb = X!NoRing /\ ~xlate /\ ~xstarted
    BY <1>1, <1>3 DEF XKbHistory, XOn
  <1>6. ~X!NoRing.open /\ ~X!NoRing.busy /\ X!NoRing.at = X!NoRing.enq /\ \A i \in XTrbPlaces : X!NoRing.cycle[i] = 0
    BY NoRingIs
  <1>7. XTypes'
    BY <1>1, <1>3, <1>4, <1>5, <1>6 DEF XTypes
  <1>8. XKbHistory'
    BY <1>1, <1>3, <1>4, <1>5, <1>6 DEF XKbHistory, XOn
  <1>9. XCmdInv'
    BY <1>1, <1>3, <1>4, <1>5, <1>6 DEF XCmdInv, XCmdDone, XForeign, X!Own, XOn, XWaitsCmd, XWaitsBulk
  <1>10. XBulkInv'
    BY <1>1, <1>3, <1>4, <1>5, <1>6 DEF XBulkInv, XBulkIdle, XBulkBusy, XBulkDone, XOn, XWaitsCmd, XWaitsBulk
  <1>11. XKbInv'
    BY <1>1, <1>3, <1>4, <1>5, <1>6 DEF XKbInv, XKbRing, XKbEvent
  <1>12. XOwnInv'
    BY <1>1, <1>3, <1>4, <1>5, <1>6 DEF XOwnInv
  <1>13. XMemInv'
    <2>1. xmem \subseteq X!xhci_free_dev({XSlots}) \cup {<<"reports", 0>>}
      BY <1>1, <1>3 DEF XMemInv, XOn
    <2>2. ASSUME NEW s \in 1 .. (XSlots - 1), <<"slot", s>> \in xmem' PROVE FALSE
      <3>1. s # XSlots
        BY XhciConstants
      <3>2. QED
        BY <1>3, <2>1, <2>2, <3>1, SlotMemory
    <2>3. xmem' \subseteq X!Rings \cup X!xhci_free_dev(1 .. XSlots) \cup {<<"reports", 0>>}
      BY <1>1, <1>3 DEF XMemInv
    <2>4. QED
      BY <1>3, <2>1, <2>2, <2>3 DEF XMemInv, XOn
  <1>14. QED
    BY <1>2, <1>7, <1>8, <1>9, <1>10, <1>11, <1>12, <1>13 DEF XInv

\* The controller is stopped.
LEMMA XhciHcdExit == XInv /\ X!xhci_hcd_exit => XInv'
  <1> SUFFICES ASSUME XInv, X!xhci_hcd_exit PROVE XInv'
    OBVIOUS
  <1>1. XTypes /\ XRingInv /\ XKbHistory /\ XOwnInv /\ XMemInv
    BY XParts
  <1>2. XRingInv'
    BY <1>1, XSteady DEF X!xhci_hcd_exit
  <1>3. /\ xpc = "idle" /\ xpc' = "off" /\ xbulk' = X!NoRing /\ xkb' = X!NoRing /\ usb_kb' = usb_kb
        /\ xmem' = (xmem \ X!Rings) \ X!xhci_free_dev({s \in 1 .. (XSlots - 1) : xdevs[s] # None})
        /\ xown' = TRUE /\ xlate' = FALSE /\ xshared' = usb_kb /\ xstarted' = FALSE /\ xlap' = FALSE
        /\ UNCHANGED <<xport, xop, xjobs, xslot, xdevs>>
    BY DEF X!xhci_hcd_exit
  <1>4. XTrbRing(X!NoRing) /\ ~X!NoRing.open
    BY NoRingIs
  <1>5. XTypes'
    BY <1>1, <1>3, <1>4 DEF XTypes
  <1>6. XKbHistory'
    BY <1>1, <1>3, <1>4 DEF XKbHistory, XOn
  <1>7. XCmdInv'
    BY <1>1, <1>3, <1>4 DEF XCmdInv, XCmdDone, XForeign, X!Own, XOn, XWaitsCmd, XWaitsBulk
  <1>8. XBulkInv'
    BY <1>1, <1>3, <1>4 DEF XBulkInv, XBulkIdle, XBulkBusy, XBulkDone, XOn, XWaitsCmd, XWaitsBulk
  <1>9. XKbInv'
    BY <1>1, <1>3, <1>4 DEF XKbInv, XKbRing, XKbEvent
  <1>10. XOwnInv'
    BY <1>1, <1>3, <1>4 DEF XOwnInv
  <1>11. XMemInv'
    <2>1. \A s \in 1 .. (XSlots - 1) : <<"slot", s>> \notin xmem'
      BY <1>1, <1>3, SlotMemory DEF XMemInv, XOn
    <2>2. xmem' \subseteq X!xhci_free_dev(1 .. XSlots) \cup {<<"reports", 0>>}
      BY <1>1, <1>3 DEF XMemInv
    <2>3. xmem' \subseteq X!xhci_free_dev({XSlots}) \cup {<<"reports", 0>>}
      <3> SUFFICES ASSUME NEW m \in xmem', m \in X!xhci_free_dev(1 .. XSlots) PROVE m \in X!xhci_free_dev({XSlots})
        BY <2>2
      <3>1. PICK s \in 1 .. XSlots : m = <<"slot", s>>
        BY DEF X!xhci_free_dev
      <3>2. s \notin 1 .. (XSlots - 1)
        BY <2>1, <3>1
      <3>3. s = XSlots
        BY <3>2, XhciConstants
      <3>4. QED
        BY <3>1, <3>3, SlotMemory
    <2>4. QED
      BY <1>3, <2>2, <2>3 DEF XMemInv, XOn
  <1>12. QED
    BY <1>2, <1>5, <1>6, <1>7, <1>8, <1>9, <1>10, <1>11 DEF XInv

\* A bulk transfer is given up.
LEMMA XhciBulkTimeout == XInv /\ X!BulkTimeout => XInv'
  <1> SUFFICES ASSUME XInv, X!BulkTimeout PROVE XInv'
    OBVIOUS
  <1>1. XTypes /\ XRingInv /\ XKbHistory /\ XCmdInv /\ XBulkInv /\ XKbInv /\ XOwnInv /\ XMemInv
    BY XParts
  <1>2. XRingInv' /\ xqueue' = xqueue
    BY <1>1, XSteady DEF X!BulkTimeout
  <1>3. xop \in XBulks /\ xop.slot \in XTrbPlaces
    BY <1>1 DEF X!BulkTimeout, XTypes, XCmdOk, XCmds, XCmdKinds, XBulks
  <1>4. XTrbRing(xbulk') /\ xpc' = "idle" /\ xlate' = TRUE /\ xpc = "wait" /\ xop.kind = "bulk"
    BY <1>1, <1>3, ClearIs DEF X!BulkTimeout, XTypes
  <1>5. XTypes'
    BY <1>1, <1>2, <1>3, <1>4 DEF XTypes, X!BulkTimeout
  <1>6. XKbHistory'
    BY <1>1, <1>2, <1>3, <1>4 DEF XKbHistory, XOn, X!BulkTimeout
  <1>7. XCmdInv'
    BY <1>1, <1>2, <1>3, <1>4 DEF XCmdInv, XCmdDone, XForeign, X!Own, XOn, XWaitsCmd, XWaitsBulk, X!BulkTimeout
  <1>8. XBulkInv'
    BY <1>1, <1>2, <1>3, <1>4 DEF XBulkInv, XBulkIdle, XBulkBusy, XBulkDone, XOn, XWaitsCmd, XWaitsBulk, X!BulkTimeout
  <1>9. XKbInv'
    BY <1>1, <1>2, <1>3, <1>4 DEF XKbInv, XKbRing, XKbEvent, X!BulkTimeout
  <1>10. XOwnInv'
    BY <1>1, <1>2, <1>3, <1>4 DEF XOwnInv, X!BulkTimeout
  <1>11. XMemInv'
    BY <1>1, <1>2, <1>3, <1>4 DEF XMemInv, XOn, X!BulkTimeout
  <1>12. QED
    BY <1>2, <1>5, <1>6, <1>7, <1>8, <1>9, <1>10, <1>11 DEF XInv

\* A bulk transfer is posted.
LEMMA XhciTransferBulk == XInv /\ X!xhci_transfer_bulk => XInv'
  <1> SUFFICES ASSUME XInv, X!xhci_transfer_bulk PROVE XInv'
    OBVIOUS
  <1>1. XTypes /\ XRingInv /\ XKbHistory /\ XCmdInv /\ XBulkInv /\ XKbInv /\ XOwnInv /\ XMemInv
    BY XParts
  <1>2. XRingInv' /\ xqueue' = xqueue
    BY <1>1, XSteady DEF X!xhci_transfer_bulk
  <1> DEFINE p == X!Post(xbulk)
             e == xbulk.enq
  <1>3. /\ XTrbRing(xbulk) /\ e \in XTrbPlaces /\ xpc = "idle" /\ ~xlate /\ xop' = [kind |-> "bulk", slot |-> e]
        /\ xpc' = "wait" /\ xbulk' = X!Doorbell(p)
        /\ UNCHANGED <<xport, xjobs, xslot, xdevs, xkb, usb_kb, xmem, xown, xlate, xshared, xstarted, xlap>>
    BY <1>1 DEF X!xhci_transfer_bulk, X!BulkEvent, XTypes, XTrbRing
  <1>4. /\ XTrbRing(p) /\ p.at = xbulk.at /\ p.busy = xbulk.busy /\ p.enq = Wrap(e + 1, XTrbs)
        /\ p.cycle = [xbulk.cycle EXCEPT ![e] = 1 - xbulk.cycle[e]]
    BY <1>3, PostIs
  <1> HIDE DEF p
  <1>5. /\ XTrbRing(xbulk') /\ xbulk'.enq = p.enq /\ xbulk'.at = p.at /\ xbulk'.cycle = p.cycle
        /\ xbulk'.busy <=> p.busy \/ p.cycle[p.at] = 1
    BY <1>3, <1>4, DoorbellIs
  <1>6. xop' \in XBulks /\ xop'.kind = "bulk" /\ xop'.slot = e
    BY <1>3 DEF XBulks
  <1>7. XTypes'
    BY <1>1, <1>2, <1>3, <1>4, <1>5, <1>6 DEF XTypes
  <1>8. XKbHistory'
    BY <1>1, <1>2, <1>3, <1>4, <1>5, <1>6 DEF XKbHistory, XOn
  <1>9. XCmdInv'
    BY <1>1, <1>2, <1>3, <1>4, <1>5, <1>6 DEF XCmdInv, XCmdDone, XForeign, X!Own, XOn, XWaitsCmd, XWaitsBulk
  <1>10. XBulkInv'
    <2>1. XBulkIdle
      BY <1>1, <1>3 DEF XBulkInv, XOn, XWaitsBulk
    <2>2. xbulk.cycle \in [XTrbPlaces -> {0, 1}]
      BY <1>3 DEF XTrbRing
    <2>3. \A i \in XTrbPlaces : xbulk'.cycle[i] = IF i = e THEN 1 ELSE 0
      BY <1>3, <1>4, <1>5, <2>1, <2>2 DEF XBulkIdle
    <2>4. xbulk'.busy /\ xbulk'.at = e
      BY <1>3, <1>4, <1>5, <2>1, <2>3 DEF XBulkIdle
    <2>5. XBulkBusy'
      BY <1>2, <1>4, <1>5, <1>6, <2>1, <2>3, <2>4 DEF XBulkBusy, XBulkIdle
    <2>6. QED
      BY <1>3, <1>6, <2>5 DEF XBulkInv, XWaitsBulk
  <1>11. XKbInv'
    BY <1>1, <1>2, <1>3, <1>4, <1>5, <1>6 DEF XKbInv, XKbRing, XKbEvent
  <1>12. XOwnInv'
    BY <1>1, <1>2, <1>3, <1>4, <1>5, <1>6 DEF XOwnInv
  <1>13. XMemInv'
    BY <1>1, <1>2, <1>3, <1>4, <1>5, <1>6 DEF XMemInv, XOn
  <1>14. QED
    BY <1>2, <1>7, <1>8, <1>9, <1>10, <1>11, <1>12, <1>13 DEF XInv

\* The memory of a slot through the setup of its device.
LEMMA DevInitMemory ==
    ASSUME XTypes, XMemInv, xpc = "wait", xop.kind # "bulk", NEW s, NEW got, X!usb3_dev_init(s, got)
    PROVE  XMemInv'
  <1> DEFINE Kept(t) == xdevs[t] # None \/ (xop.kind \in {"address", "config"} /\ xop.slot = t)
  <1>1. XCmdOk(xop) /\ xport \in Nat /\ xport # None /\ xdevs \in [1 .. XSlots -> Nat \cup {None}]
    BY XhciConstants DEF XTypes, XBulks
  <1>2. xop.kind \in XCmdKinds
    BY <1>1 DEF XCmdOk, XCmds
  <1>3. /\ xmem \subseteq X!Rings \cup X!xhci_free_dev(1 .. XSlots) \cup {<<"reports", 0>>}
        /\ \A t \in 1 .. (XSlots - 1) : <<"slot", t>> \in xmem => Kept(t)
    BY DEF XMemInv, XOn
  <1>4. CASE xop.kind = "reset"
    BY <1>3, <1>4 DEF X!usb3_dev_init, X!Await, XMemInv, XOn
  <1>5. CASE xop.kind = "enable"
    <2>1. CASE UNCHANGED <<xmem, xdevs>> /\ xpc' = "scan"
      BY <1>3, <1>5, <2>1 DEF XMemInv, XOn
    <2>2. CASE /\ X!Slotted(s) /\ xmem' = xmem \cup X!xhci_free_dev({s}) /\ xdevs' = xdevs
               /\ xop' = [kind |-> "address", slot |-> s] /\ xpc' = "wait"
      <3>1. xmem' \subseteq X!Rings \cup X!xhci_free_dev(1 .. XSlots) \cup {<<"reports", 0>>}
        BY <1>3, <2>2 DEF X!Slotted, X!xhci_free_dev
      <3>2. \A t \in 1 .. (XSlots - 1) : <<"slot", t>> \in xmem' => xdevs[t] # None \/ s = t
        BY <1>3, <1>5, <2>2, SlotMemory
      <3>3. QED
        BY <2>2, <3>1, <3>2 DEF XMemInv, XOn
    <2>3. QED
      BY <1>5, <2>1, <2>2 DEF X!usb3_dev_init, X!xhci_alloc_dev, X!Await
  <1>6. CASE xop.kind = "address"
    BY <1>3, <1>6 DEF X!usb3_dev_init, X!Await, XMemInv, XOn
  <1>7. CASE xop.kind = "config"
    <2>1. xop.slot \in 1 .. XSlots
      BY <1>1, <1>7 DEF XCmdOk
    <2>2. xmem' = xmem /\ xdevs' = [xdevs EXCEPT ![xop.slot] = xport] /\ xpc' = "wait"
      BY <1>7 DEF X!usb3_dev_init, X!DeviceFound, X!Await
    <2>3. \A t \in 1 .. (XSlots - 1) : <<"slot", t>> \in xmem => xdevs'[t] # None
      <3>1. \A t \in 1 .. (XSlots - 1) : t \in 1 .. XSlots
        BY XhciConstants
      <3>2. QED
        BY <1>1, <1>3, <2>1, <2>2, <3>1
    <2>4. QED
      BY <1>3, <2>2, <2>3 DEF XMemInv, XOn
  <1>8. CASE xop.kind = "setup"
    BY <1>3, <1>8 DEF X!usb3_dev_init, X!SetUpDone, XMemInv, XOn
  <1>9. CASE xop.kind \in {"ctrl", "config ep"}
    BY <1>3, <1>9 DEF X!usb3_dev_init, XMemInv, XOn
  <1>10. QED
    BY <1>2, <1>4, <1>5, <1>6, <1>7, <1>8, <1>9 DEF XCmdKinds

\* A command is given up.
LEMMA XhciPollTimeout == XInv /\ X!PollTimeout => XInv'
  <1> SUFFICES ASSUME XInv, X!PollTimeout PROVE XInv'
    OBVIOUS
  <1>1. XTypes /\ XRingInv /\ XKbHistory /\ XCmdInv /\ XBulkInv /\ XKbInv /\ XOwnInv /\ XMemInv
    BY XParts
  <1>2. XRingInv' /\ xqueue' = xqueue
    BY <1>1, XSteady DEF X!PollTimeout
  <1>3. /\ xpc = "wait" /\ xop.kind # "bulk" /\ X!usb3_dev_init(xslot, FALSE) /\ xlate' = TRUE
        /\ UNCHANGED <<xslot, xbulk, xkb, usb_kb, xown, xshared, xstarted, xlap>>
    BY DEF X!PollTimeout
  <1>4. /\ \/ xpc' = "wait" /\ XCmdOk(xop') /\ xjobs' = Append(xjobs, xop')
           \/ xpc' \in {"scan", "idle"} /\ xop' = xop /\ xjobs' = xjobs
        /\ xport' \in Nat /\ xdevs' \in [1 .. XSlots -> Nat \cup {None}]
    BY <1>1, <1>3, DevInitIs
  <1>5. xjobs' \in Seq(XCmds)
    BY <1>1, <1>4, JobsTyped DEF XTypes, XCmdOk
  <1>6. XTypes'
    BY <1>1, <1>2, <1>3, <1>4, <1>5 DEF XTypes
  <1>7. XKbHistory'
    BY <1>1, <1>2, <1>3, <1>4, <1>5 DEF XKbHistory, XOn
  <1>8. XCmdInv'
    BY <1>1, <1>2, <1>3, <1>4, <1>5 DEF XCmdInv, XCmdDone, XForeign, X!Own, XOn, XWaitsCmd, XWaitsBulk
  <1>9. XBulkInv'
    BY <1>1, <1>2, <1>3, <1>4, <1>5 DEF XBulkInv, XBulkIdle, XBulkBusy, XBulkDone, XOn, XWaitsCmd, XWaitsBulk
  <1>10. XKbInv'
    BY <1>1, <1>2, <1>3, <1>4, <1>5 DEF XKbInv, XKbRing, XKbEvent
  <1>11. XOwnInv'
    BY <1>1, <1>2, <1>3, <1>4, <1>5 DEF XOwnInv
  <1>12. XMemInv'
    BY <1>1, <1>3, DevInitMemory
  <1>13. QED
    BY <1>2, <1>6, <1>7, <1>8, <1>9, <1>10, <1>11, <1>12 DEF XInv

\* A command that takes its own event, and any it takes before the keyboard is opened.
LEMMA OwnEvent ==
    ASSUME XTypes, XRingInv, XKbHistory, XCmdInv, XBulkInv, XWaitsCmd, xqueue # <<>>, ~xlate,
           ~xstarted \/ (~xshared /\ X!Own(xqueue[1]))
    PROVE  xqueue[1] \in XCmds /\ X!Own(xqueue[1]) /\ xjobs = <<>> /\ NoneIn(Tail(xqueue), XCmds)
  <1> DEFINE e == xqueue[1]
  <1>1. xqueue \in Seq(XEvts) /\ e \in XEvts
    BY DEF XRingInv, XRingTypes
  <1>2. xop.kind \in XCmdKinds /\ XOn /\ ~XWaitsBulk
    BY DEF XTypes, XCmdOk, XCmds, XBulks, XWaitsCmd, XWaitsBulk, XOn
  <1>3. e \in XCmds
    <2>1. CASE X!Own(e)
      BY <1>1, <1>2, <2>1, EventKinds DEF X!Own
    <2>2. CASE ~xstarted
      <3>1. NoneIn(xqueue, XReports) /\ NoneIn(xqueue, XBulks)
        BY <1>2, <2>2 DEF XKbHistory, XBulkInv, XBulkIdle
      <3>2. QED
        BY <1>1, <3>1, QueueShorter, KindsApart
    <2>3. QED
      BY <2>1, <2>2
  <1>4. ~NoneIn(xqueue, XCmds)
    BY <1>1, <1>3, QueueShorter
  <1>5. xjobs = <<>> /\ XCmdDone
    BY <1>2, <1>4 DEF XCmdInv
  <1>6. e \notin XForeign
    BY <1>1, <1>5, QueueShorter DEF XCmdDone
  <1>7. QED
    BY <1>1, <1>3, <1>5, <1>6, QueueShorter DEF XCmdDone, XForeign

\* A command or control request takes an event.
LEMMA XhciPollEvent == XInv /\ X!xhci_poll_event => XInv'
  <1> SUFFICES ASSUME XInv, X!xhci_poll_event PROVE XInv'
    OBVIOUS
  <1>1. XTypes /\ XRingInv /\ XKbHistory /\ XCmdInv /\ XBulkInv /\ XKbInv /\ XOwnInv /\ XMemInv
    BY XParts
  <1> DEFINE e == xqueue[1]
  <1>2. XRingInv' /\ xqueue # <<>> /\ X!Event = e /\ xqueue' = Tail(xqueue) /\ e \in XEvts /\ xqueue \in Seq(XEvts)
    BY <1>1, XTaken DEF X!xhci_poll_event, XRingInv, XRingTypes
  <1>3. /\ xpc = "wait" /\ xop.kind # "bulk" /\ X!usb3_dev_init(xslot', TRUE)
        /\ xown' = X!Own(e) /\ xshared' = (xshared \/ ~X!Own(e))
        /\ UNCHANGED <<xbulk, xkb, usb_kb, xlate, xstarted, xlap>>
    BY <1>2 DEF X!xhci_poll_event
  <1>4. /\ \/ xpc' = "wait" /\ XCmdOk(xop') /\ xjobs' = Append(xjobs, xop')
           \/ xpc' \in {"scan", "idle"} /\ xop' = xop /\ xjobs' = xjobs
        /\ xport' \in Nat /\ xdevs' \in [1 .. XSlots -> Nat \cup {None}]
    BY <1>1, <1>3, DevInitIs
  <1>5. xjobs' \in Seq(XCmds) /\ xop'.kind # "bulk"
    BY <1>1, <1>3, <1>4, JobsTyped DEF XTypes, XCmdOk, XCmds, XCmdKinds
  <1>6. ~xlate /\ (~xstarted \/ ~xshared') =>
          e \in XCmds /\ X!Own(e) /\ xjobs = <<>> /\ NoneIn(xqueue', XCmds)
    BY <1>1, <1>2, <1>3, OwnEvent DEF XWaitsCmd
  <1>7. /\ \A A : NoneIn(xqueue, A) => NoneIn(xqueue', A)
        /\ \A A : OneIn(xqueue, A) /\ e \notin A => OneIn(xqueue', A)
    BY <1>2, QueueShorter
  <1> HIDE DEF e
  <1>8. XTypes'
    BY <1>1, <1>3, <1>4, <1>5 DEF XTypes
  <1>9. XKbHistory'
    BY <1>1, <1>3, <1>4, <1>7 DEF XKbHistory, XOn
  <1>10. XCmdInv'
    <2> SUFFICES ASSUME ~xlate, ~xstarted \/ ~xshared'
                 PROVE  \/ XWaitsCmd' /\ xjobs' = <<xop'>> /\ NoneIn(xqueue', XCmds)
                        \/ ~XWaitsCmd' /\ xjobs' = <<>> /\ NoneIn(xqueue', XCmds)
      BY <1>3 DEF XCmdInv
    <2>1. xjobs = <<>> /\ NoneIn(xqueue', XCmds)
      BY <1>6
    <2>2. CASE xpc' = "wait" /\ XCmdOk(xop') /\ xjobs' = Append(xjobs, xop')
      BY <1>5, <2>1, <2>2, FirstJob DEF XWaitsCmd, XCmdOk
    <2>3. CASE xpc' \in {"scan", "idle"} /\ xop' = xop /\ xjobs' = xjobs
      BY <2>1, <2>3 DEF XWaitsCmd
    <2>4. QED
      BY <1>4, <2>2, <2>3
  <1>11. XBulkInv'
    BY <1>1, <1>3, <1>4, <1>5, <1>7 DEF XBulkInv, XBulkIdle, XOn, XWaitsBulk
  <1>12. XKbInv'
    <2> SUFFICES ASSUME xkb.open, ~xlate, ~xshared', ~xlap PROVE XKbRing' /\ XKbEvent'
      BY <1>3 DEF XKbInv
    <2>1. XKbRing /\ XKbEvent
      BY <1>1, <1>3 DEF XKbInv
    <2>2. e \notin XReports
      BY <1>2, <1>6, KindsApart
    <2>3. QED
      BY <1>3, <1>7, <2>1, <2>2 DEF XKbRing, XKbEvent
  <1>13. XOwnInv'
    BY <1>1, <1>3, <1>4, <1>5, <1>6 DEF XOwnInv
  <1>14. XMemInv'
    BY <1>1, <1>3, DevInitMemory
  <1>15. QED
    BY <1>2, <1>8, <1>9, <1>10, <1>11, <1>12, <1>13, <1>14 DEF XInv

\* Between commands, only a bulk event or a report can be next.
LEMMA NextIsReport ==
    ASSUME XRingInv, XCmdInv, XOn, ~XWaitsCmd, xqueue # <<>>, ~xlate, ~xshared \/ ~xstarted, xqueue[1] \notin XBulks
    PROVE  xqueue[1] \in XReports
  <1>1. xqueue \in Seq(XEvts) /\ xqueue[1] \in XEvts
    BY DEF XRingInv, XRingTypes
  <1>2. NoneIn(xqueue, XCmds)
    BY DEF XCmdInv
  <1>3. QED
    BY <1>1, <1>2, QueueShorter, KindsApart

\* A bulk transfer takes an event.
LEMMA XhciBulkPoll == XInv /\ X!BulkPoll => XInv'
  <1> SUFFICES ASSUME XInv, X!BulkPoll PROVE XInv'
    OBVIOUS
  <1>1. XTypes /\ XRingInv /\ XKbHistory /\ XCmdInv /\ XBulkInv /\ XKbInv /\ XOwnInv /\ XMemInv
    BY XParts
  <1> DEFINE e == xqueue[1]
  <1>2. XRingInv' /\ xqueue # <<>> /\ X!Event = e /\ xqueue' = Tail(xqueue) /\ e \in XEvts /\ xqueue \in Seq(XEvts)
    BY <1>1, XTaken DEF X!BulkPoll, XRingInv, XRingTypes
  <1>3. /\ xpc = "wait" /\ xop.kind = "bulk" /\ xop \in XBulks /\ xop.slot \in XTrbPlaces
        /\ UNCHANGED <<xport, xop, xjobs, xdevs, xkb, xmem, xshared, xstarted, xlap>>
    BY <1>1 DEF X!BulkPoll, XTypes, XCmdOk, XCmds, XCmdKinds, XBulks
  <1>4. \/ /\ e = xop /\ xbulk' = X!ClearTrb(xbulk, xop.slot) /\ xpc' = "idle" /\ xown' = TRUE
           /\ UNCHANGED <<usb_kb, xlate>>
        \/ /\ e # xop /\ usb_kb' = TRUE /\ UNCHANGED <<xbulk, xown>>
           /\ UNCHANGED <<xpc, xlate>> \/ (xpc' = "idle" /\ xlate' = TRUE)
    BY <1>2 DEF X!BulkPoll, X!OwnTrb
  <1>5. /\ \A A : NoneIn(xqueue, A) => e \notin A /\ NoneIn(xqueue', A)
        /\ \A A : OneIn(xqueue, A) /\ e \notin A => OneIn(xqueue', A)
        /\ \A A : OneIn(xqueue, A) /\ e \in A => NoneIn(xqueue', A)
    BY <1>2, QueueShorter
  <1>6. e \in XReports => e \notin XBulks
    BY <1>2, KindsApart
  <1>7. ~xlate => XBulkBusy
    BY <1>1, <1>3 DEF XBulkInv, XWaitsBulk, XOn
  <1>8. ~xlate /\ e # xop => e \notin XBulks
    BY <1>3, <1>5, <1>7 DEF XBulkBusy, XBulkDone
  <1>9. ~xlate /\ e # xop /\ (~xshared \/ ~xstarted) => e \in XReports
    BY <1>1, <1>2, <1>3, <1>8, NextIsReport DEF XOn, XWaitsCmd
  <1> HIDE DEF e
  <1>10. XTypes'
    <2>1. XTrbRing(xbulk')
      <3>1. XTrbRing(xbulk)
        BY <1>1 DEF XTypes
      <3>2. XTrbRing(X!ClearTrb(xbulk, xop.slot))
        BY <1>3, <3>1, ClearIs
      <3>3. QED
        BY <1>4, <3>1, <3>2
    <2>2. QED
      BY <1>1, <1>3, <1>4, <2>1 DEF XTypes
  <1>11. XKbHistory'
    BY <1>1, <1>3, <1>4, <1>5, <1>9 DEF XKbHistory, XOn
  <1>12. XCmdInv'
    BY <1>1, <1>3, <1>4, <1>5 DEF XCmdInv, XOn, XWaitsCmd
  <1>13. XBulkInv'
    <2> SUFFICES ASSUME ~xlate' PROVE IF XWaitsBulk' THEN XBulkBusy' ELSE XBulkIdle'
      BY DEF XBulkInv
    <2>1. CASE e = xop
      <3>1. /\ ~xlate /\ xbulk' = X!ClearTrb(xbulk, xop.slot) /\ xpc' = "idle"
        BY <1>4, <2>1
      <3>2. /\ xbulk'.enq = xbulk.enq /\ xbulk'.at = xbulk.at /\ xbulk'.busy = xbulk.busy
            /\ xbulk'.cycle = [xbulk.cycle EXCEPT ![xop.slot] = 0] /\ xbulk.cycle \in [XTrbPlaces -> {0, 1}]
        BY <1>1, <1>3, <3>1, ClearIs DEF XTypes, XTrbRing
      <3>3. ~xbulk.busy /\ xbulk.at = xbulk.enq /\ XBulkDone
        BY <1>3, <1>5, <1>7, <2>1, <3>1 DEF XBulkBusy
      <3>4. NoneIn(xqueue', XBulks)
        BY <1>3, <1>5, <2>1, <3>3 DEF XBulkDone
      <3>5. \A i \in XTrbPlaces : xbulk'.cycle[i] = 0
        BY <1>3, <1>7, <3>1, <3>2 DEF XBulkBusy
      <3>6. QED
        BY <3>1, <3>2, <3>3, <3>4, <3>5 DEF XWaitsBulk, XBulkIdle
    <2>2. CASE e # xop
      <3>1. ~xlate /\ UNCHANGED <<xpc, xbulk>>
        BY <1>4, <2>2
      <3>2. NoneIn(xqueue, XBulks) => NoneIn(xqueue', XBulks)
        BY <1>5
      <3>3. XBulkDone => XBulkDone'
        BY <1>3, <1>5, <1>8, <2>2, <3>1 DEF XBulkDone
      <3>4. XBulkBusy'
        BY <1>3, <1>7, <3>1, <3>2, <3>3 DEF XBulkBusy
      <3>5. QED
        BY <1>3, <3>1, <3>4 DEF XWaitsBulk
    <2>3. QED
      BY <2>1, <2>2
  <1>14. XKbInv'
    <2> SUFFICES ASSUME xkb.open, ~xlate', ~xshared, ~xlap PROVE XKbRing' /\ XKbEvent'
      BY <1>3 DEF XKbInv
    <2>1. XKbRing /\ XKbEvent
      BY <1>1, <1>4 DEF XKbInv
    <2>2. CASE e = xop
      BY <1>3, <1>4, <1>5, <1>6, <2>1, <2>2 DEF XKbRing, XKbEvent
    <2>3. CASE e # xop
      <3>1. e \in XReports
        BY <1>4, <1>9, <2>3
      <3>2. QED
        BY <1>3, <1>4, <1>5, <2>1, <2>3, <3>1 DEF XKbRing, XKbEvent
    <2>4. QED
      BY <2>2, <2>3
  <1>15. XOwnInv'
    BY <1>1, <1>3, <1>4 DEF XOwnInv
  <1>16. XMemInv'
    BY <1>1, <1>3, <1>4 DEF XMemInv, XOn
  <1>17. QED
    BY <1>2, <1>10, <1>11, <1>12, <1>13, <1>14, <1>15, <1>16 DEF XInv

\* The keyboard is polled.
LEMMA XhciPollIntr == XInv /\ X!xhci_poll_intr => XInv'
  <1> SUFFICES ASSUME XInv, X!xhci_poll_intr PROVE XInv'
    OBVIOUS
  <1>1. XTypes /\ XRingInv /\ XKbHistory /\ XCmdInv /\ XBulkInv /\ XKbInv /\ XOwnInv /\ XMemInv
    BY XParts
  <1> DEFINE e == xqueue[1]
             r == X!Doorbell(xkb)
  <1>2. /\ xpc = "idle" /\ xkb.open /\ ~usb_kb /\ xstarted
        /\ UNCHANGED <<xpc, xport, xop, xjobs, xdevs, xbulk, usb_kb, xmem, xown, xlate, xstarted>>
    BY <1>1, NoRingIs DEF X!xhci_poll_intr, XKbHistory
  <1>3. \/ /\ xkb' = X!Refill(r) /\ xlap' = (xlap \/ xkb.enq = XTrbs - 1)
           /\ xshared' = (xshared \/ e.kind # "report")
           /\ X!Take
        \/ xkb' = r /\ UNCHANGED <<X!ring, xlap, xshared>>
    BY <1>1, XTaken DEF X!xhci_poll_intr, X!Wraps
  <1>4. /\ XTrbRing(r) /\ r.open = xkb.open /\ r.enq = xkb.enq /\ r.at = xkb.at /\ r.deq = xkb.deq /\ r.cycle = xkb.cycle
        /\ r.busy <=> xkb.busy \/ xkb.cycle[xkb.at] = 1
    BY <1>1, DoorbellIs DEF XTypes
  <1> HIDE DEF r
  <1>5. XTrbRing(xkb') /\ xkb'.open = xkb.open
    <2>1. XTrbRing(X!Refill(r)) /\ X!Refill(r).open = r.open
      BY <1>4, RefillIs
    <2>2. QED
      BY <1>3, <1>4, <2>1
  <1>6. XRingInv'
    BY <1>1, <1>3, XTaken, XSteady
  <1>7. \A A : NoneIn(xqueue, A) => NoneIn(xqueue', A)
    <2>1. CASE X!Take
      <3>1. xqueue' = Tail(xqueue) /\ xqueue # <<>> /\ xqueue \in Seq(XEvts)
        BY <1>1, <2>1, XTaken DEF XRingInv, XRingTypes
      <3>2. QED
        BY <3>1, QueueShorter
    <2>2. CASE UNCHANGED X!ring
      BY <1>1, <2>2, XSteady
    <2>3. QED
      BY <1>3, <2>1, <2>2
  <1>8. ~xshared' => ~xshared
    BY <1>3
  <1>9. XTypes'
    BY <1>1, <1>2, <1>5 DEF XTypes
  <1>10. XKbHistory'
    BY <1>1, <1>2, <1>5, <1>8 DEF XKbHistory, XOn
  <1>11. XCmdInv'
    BY <1>1, <1>2, <1>7, <1>8 DEF XCmdInv, XOn, XWaitsCmd
  <1>12. XBulkInv'
    BY <1>1, <1>2, <1>7 DEF XBulkInv, XBulkIdle, XOn, XWaitsBulk
  <1>13. XKbInv'
    <2> SUFFICES ASSUME ~xlate, ~xshared', ~xlap' PROVE XKbRing' /\ XKbEvent'
      BY <1>2 DEF XKbInv
    <2>1. XKbRing /\ XKbEvent
      BY <1>1, <1>2, <1>3, <1>8 DEF XKbInv
    <2>2. xkb.at = xkb.enq /\ ~xkb.busy => ~r.busy
      <3>1. xkb.enq \in XTrbPlaces /\ ~(xkb.enq < xkb.enq)
        BY <1>1, XhciConstants DEF XTypes, XTrbRing, XTrbPlaces
      <3>2. QED
        BY <1>4, <2>1, <3>1 DEF XKbRing
    <2>3. CASE UNCHANGED X!ring /\ xkb' = r
      <3>1. xqueue' = xqueue
        BY <1>1, <2>3, XSteady
      <3>2. QED
        BY <1>2, <1>4, <2>1, <2>2, <2>3, <3>1 DEF XKbRing, XKbEvent
    <2>4. CASE /\ xkb' = X!Refill(r) /\ xlap' = (xlap \/ xkb.enq = XTrbs - 1) /\ e.kind = "report" /\ X!Take
      <3>1. xqueue' = Tail(xqueue) /\ xqueue # <<>> /\ xqueue \in Seq(XEvts) /\ e \in XReports
        BY <1>1, <2>4, XTaken, EventKinds DEF XRingInv, XRingTypes
      <3>2. xkb.at = xkb.enq /\ ~xkb.busy /\ NoneIn(xqueue', XReports)
        BY <1>2, <2>1, <3>1, QueueShorter DEF XKbEvent
      <3>3. /\ xkb'.at = r.at /\ xkb'.busy = r.busy
            /\ xkb'.enq = Wrap(r.enq + 1, XTrbs) /\ xkb'.deq = Wrap(r.deq + 1, XTrbs)
            /\ xkb'.cycle = [r.cycle EXCEPT ![r.enq] = 1 - r.cycle[r.enq]]
        BY <1>4, <2>4, RefillIs
      <3>4. XKbRing' /\ xkb'.deq = xkb.enq
        BY <1>1, <1>4, <2>1, <2>4, <3>3, KbRefilled DEF XTypes
      <3>5. QED
        BY <1>2, <1>4, <2>2, <3>2, <3>3, <3>4 DEF XKbEvent
    <2>5. QED
      BY <1>3, <2>3, <2>4
  <1>14. XOwnInv'
    BY <1>1, <1>2 DEF XOwnInv
  <1>15. XMemInv'
    BY <1>1, <1>2 DEF XMemInv, XOn
  <1>16. QED
    BY <1>6, <1>9, <1>10, <1>11, <1>12, <1>13, <1>14, <1>15 DEF XInv

\* The event of a job is of its command.
LEMMA JobEvent ==
    ASSUME XTypes, X!DoJob
    PROVE  \E e \in XCmds : /\ X!PutEvent(e) /\ e.kind = Head(xjobs).kind
                            /\ e.slot = Head(xjobs).slot \/ e.kind = "enable"
  <1> DEFINE j == Head(xjobs)
             least == CHOOSE s \in X!Free : \A t \in X!Free : s <= t
  <1>1. j \in XCmds
    BY DEF XTypes, X!DoJob
  <1>2. CASE j.kind # "enable"
    BY <1>1, <1>2 DEF X!DoJob
  <1>3. CASE j.kind = "enable"
    <2>1. X!Free \in SUBSET Nat
      BY XhciConstants DEF X!Free
    <2>2. X!Free # {} => least \in Nat
      <3> SUFFICES ASSUME X!Free # {} PROVE least \in Nat
        OBVIOUS
      <3>1. PICK n \in X!Free : \A m \in Nat : m < n => m \notin X!Free
        BY <2>1, Least
      <3>2. \A t \in X!Free : n <= t
        BY <2>1, <3>1
      <3>3. \E s \in X!Free : \A t \in X!Free : s <= t
        BY <3>2
      <3>4. least \in X!Free
        BY <3>3
      <3>5. QED
        BY <2>1, <3>4
    <2>3. PICK s \in IF X!Free = {} THEN {0} ELSE {least} : X!PutEvent([j EXCEPT !.slot = s])
      BY <1>3 DEF X!DoJob
    <2> HIDE DEF least
    <2>4. s \in Nat
      BY <2>2, <2>3
    <2>5. [j EXCEPT !.slot = s] \in XCmds /\ [j EXCEPT !.slot = s].kind = j.kind
      BY <1>1, <2>4 DEF XCmds
    <2>6. QED
      BY <1>3, <2>3, <2>5
  <1>4. QED
    BY <1>2, <1>3

\* The controller carries out a command.
LEMMA XhciDoJob == XInv /\ X!DoJob => XInv'
  <1> SUFFICES ASSUME XInv, X!DoJob PROVE XInv'
    OBVIOUS
  <1>1. XTypes /\ XRingInv /\ XKbHistory /\ XCmdInv /\ XBulkInv /\ XKbInv /\ XOwnInv /\ XMemInv
    BY XParts
  <1>2. PICK e \in XCmds : /\ X!PutEvent(e) /\ e.kind = Head(xjobs).kind
                           /\ e.slot = Head(xjobs).slot \/ e.kind = "enable"
    BY <1>1, JobEvent
  <1>3. /\ xjobs # <<>> /\ xjobs' = Tail(xjobs)
        /\ UNCHANGED <<xpc, xport, xop, xslot, xdevs, xbulk, xkb, usb_kb, xmem, xown, xlate, xshared, xstarted, xlap>>
    BY DEF X!DoJob
  <1>4. e \in XEvts
    BY DEF XEvts
  <1>5. e \notin XBulks /\ e \notin XReports
    BY <1>4, KindsApart
  <1>6. XRingInv' /\ xqueue' = Append(xqueue, e)
    BY <1>1, <1>2, <1>4, XPosted
  <1>7. /\ \A A : NoneIn(xqueue, A) /\ e \notin A => NoneIn(xqueue', A)
        /\ \A A : OneIn(xqueue, A) /\ e \notin A => OneIn(xqueue', A)
        /\ \A A : NoneIn(xqueue, A) /\ e \in A => OneIn(xqueue', A)
    <2>1. xqueue \in Seq(XEvts)
      BY <1>1 DEF XRingInv, XRingTypes
    <2>2. QED
      BY <1>6, <1>4, <2>1, QueueLonger
  <1>8. xjobs' \in Seq(XCmds)
    BY <1>1, <1>3 DEF XTypes
  <1>9. XTypes'
    BY <1>1, <1>3, <1>8 DEF XTypes
  <1>10. XKbHistory'
    BY <1>1, <1>3, <1>5, <1>7 DEF XKbHistory, XOn
  <1>11. XCmdInv'
    <2> SUFFICES ASSUME XOn, ~xlate, ~xshared \/ ~xstarted PROVE XWaitsCmd' /\ xjobs' = <<>> /\ XCmdDone'
      BY <1>3 DEF XCmdInv, XOn
    <2>1. XWaitsCmd /\ xjobs = <<xop>> /\ NoneIn(xqueue, XCmds)
      BY <1>1, <1>3 DEF XCmdInv
    <2>2. Head(xjobs) = xop /\ Tail(xjobs) = <<>>
      BY <2>1
    <2>3. X!Own(e) /\ e \notin XForeign
      BY <1>2, <2>2 DEF X!Own, XForeign
    <2>4. NoneIn(xqueue, XForeign)
      BY <2>1 DEF NoneIn, XForeign
    <2>5. XForeign' = XForeign
      BY <1>3 DEF XForeign, X!Own
    <2>6. QED
      BY <1>3, <1>7, <2>1, <2>2, <2>3, <2>4, <2>5 DEF XWaitsCmd, XCmdDone
  <1>12. XBulkInv'
    <2>1. XBulkDone => XBulkDone'
      BY <1>3, <1>5, <1>7 DEF XBulkDone
    <2>2. XBulkBusy => XBulkBusy'
      BY <1>3, <1>5, <1>7, <2>1 DEF XBulkBusy
    <2>3. XBulkIdle => XBulkIdle'
      BY <1>3, <1>5, <1>7 DEF XBulkIdle
    <2>4. QED
      BY <1>1, <1>3, <2>2, <2>3 DEF XBulkInv, XOn, XWaitsBulk
  <1>13. XKbInv'
    BY <1>1, <1>3, <1>5, <1>7 DEF XKbInv, XKbRing, XKbEvent
  <1>14. XOwnInv'
    BY <1>1, <1>3 DEF XOwnInv
  <1>15. XMemInv'
    BY <1>1, <1>3 DEF XMemInv, XOn
  <1>16. QED
    BY <1>6, <1>9, <1>10, <1>11, <1>12, <1>13, <1>14, <1>15 DEF XInv

\* The controller completes a bulk TRB.
LEMMA XhciDoBulk == XInv /\ X!DoBulk => XInv'
  <1> SUFFICES ASSUME XInv, X!DoBulk PROVE XInv'
    OBVIOUS
  <1>1. XTypes /\ XRingInv /\ XKbHistory /\ XCmdInv /\ XBulkInv /\ XKbInv /\ XOwnInv /\ XMemInv
    BY XParts
  <1> DEFINE e == X!BulkEvent(xbulk.at)
             n == Wrap(xbulk.at + 1, XTrbs)
  <1>2. XTrbRing(xbulk) /\ xbulk.at \in XTrbPlaces
    BY <1>1 DEF XTypes, XTrbRing
  <1>3. /\ xbulk.busy /\ X!PutEvent(e) /\ xbulk' = X!Advance(xbulk) /\ XOn
        /\ UNCHANGED <<xpc, xport, xop, xjobs, xslot, xdevs, xkb, usb_kb, xmem, xown, xlate, xshared, xstarted, xlap>>
    BY DEF X!DoBulk, X!PutEvent, XOn
  <1>4. e \in XBulks /\ e \in XEvts
    BY <1>2 DEF X!BulkEvent, XBulks, XEvts
  <1>5. e \notin XCmds /\ e \notin XReports /\ e \notin XForeign
    BY <1>4, KindsApart DEF XForeign
  <1> HIDE DEF e
  <1>6. XRingInv' /\ xqueue' = Append(xqueue, e)
    BY <1>1, <1>3, <1>4, XPosted
  <1>7. /\ \A A : NoneIn(xqueue, A) /\ e \notin A => NoneIn(xqueue', A)
        /\ \A A : OneIn(xqueue, A) /\ e \notin A => OneIn(xqueue', A)
        /\ \A A : NoneIn(xqueue, A) /\ e \in A => OneIn(xqueue', A)
    <2>1. xqueue \in Seq(XEvts)
      BY <1>1 DEF XRingInv, XRingTypes
    <2>2. QED
      BY <1>6, <1>4, <2>1, QueueLonger
  <1>8. /\ XTrbRing(xbulk') /\ xbulk'.enq = xbulk.enq /\ xbulk'.cycle = xbulk.cycle /\ xbulk'.at = n
        /\ xbulk'.busy <=> xbulk.cycle[n] = 1
    BY <1>2, <1>3, AdvanceIs
  <1>9. XTypes'
    BY <1>1, <1>3, <1>8 DEF XTypes
  <1>10. XKbHistory'
    BY <1>1, <1>3, <1>5, <1>7 DEF XKbHistory, XOn
  <1>11. XCmdInv'
    BY <1>1, <1>3, <1>5, <1>7 DEF XCmdInv, XCmdDone, XForeign, X!Own, XOn, XWaitsCmd
  <1>12. XBulkInv'
    <2> SUFFICES ASSUME ~xlate PROVE XWaitsBulk' /\ XBulkBusy'
      BY <1>3 DEF XBulkInv
    <2>1. XWaitsBulk /\ XBulkBusy
      BY <1>1, <1>3 DEF XBulkInv, XBulkIdle
    <2>2. xbulk.at = xop.slot /\ NoneIn(xqueue, XBulks) /\ xop \in XBulks /\ xbulk.enq = n
      BY <1>3, <2>1 DEF XBulkBusy
    <2>3. e = xop
      BY <2>2 DEF X!BulkEvent, XBulks, e
    <2>4. n \in XTrbPlaces /\ n # xop.slot
      BY <1>2, <2>2, XhciConstants DEF Wrap, XTrbPlaces
    <2>5. ~xbulk'.busy
      BY <1>8, <2>1, <2>4 DEF XBulkBusy
    <2>6. NoneIn(xqueue, XBulks \ {xop})
      BY <2>2 DEF NoneIn
    <2>7. XBulkDone'
      BY <1>3, <1>4, <1>7, <2>2, <2>3, <2>6 DEF XBulkDone
    <2>8. QED
      BY <1>3, <1>8, <2>1, <2>2, <2>5, <2>7 DEF XWaitsBulk, XBulkBusy
  <1>13. XKbInv'
    BY <1>1, <1>3, <1>5, <1>7 DEF XKbInv, XKbRing, XKbEvent
  <1>14. XOwnInv'
    BY <1>1, <1>3 DEF XOwnInv
  <1>15. XMemInv'
    BY <1>1, <1>3 DEF XMemInv, XOn
  <1>16. QED
    BY <1>6, <1>9, <1>10, <1>11, <1>12, <1>13, <1>14, <1>15 DEF XInv

\* The controller delivers a report.
LEMMA XhciReport == XInv /\ X!Report => XInv'
  <1> SUFFICES ASSUME XInv, X!Report PROVE XInv'
    OBVIOUS
  <1>1. XTypes /\ XRingInv /\ XKbHistory /\ XCmdInv /\ XBulkInv /\ XKbInv /\ XOwnInv /\ XMemInv
    BY XParts
  <1> DEFINE e == [kind |-> "report", slot |-> 0]
             n == Wrap(xkb.at + 1, XTrbs)
  <1>2. XTrbRing(xkb) /\ xkb.at \in XTrbPlaces
    BY <1>1 DEF XTypes, XTrbRing
  <1>3. /\ xkb.busy /\ X!PutEvent(e) /\ xkb' = X!Advance(xkb) /\ XOn
        /\ UNCHANGED <<xpc, xport, xop, xjobs, xslot, xdevs, xbulk, usb_kb, xmem, xown, xlate, xshared, xstarted, xlap>>
    BY DEF X!Report, X!PutEvent, XOn
  <1>4. e \in XReports /\ e \in XEvts
    BY DEF XReports, XEvts
  <1>5. e \notin XCmds /\ e \notin XBulks /\ e \notin XForeign /\ e \notin XBulks \ {xop} /\ xstarted
    BY <1>1, <1>3, <1>4, KindsApart, NoRingIs DEF XForeign, XKbHistory
  <1> HIDE DEF e
  <1>6. XRingInv' /\ xqueue' = Append(xqueue, e)
    BY <1>1, <1>3, <1>4, XPosted
  <1>7. /\ \A A : NoneIn(xqueue, A) /\ e \notin A => NoneIn(xqueue', A)
        /\ \A A : OneIn(xqueue, A) /\ e \notin A => OneIn(xqueue', A)
        /\ \A A : NoneIn(xqueue, A) /\ e \in A => OneIn(xqueue', A)
    <2>1. xqueue \in Seq(XEvts)
      BY <1>1 DEF XRingInv, XRingTypes
    <2>2. QED
      BY <1>6, <1>4, <2>1, QueueLonger
  <1>8. /\ XTrbRing(xkb') /\ xkb'.open = xkb.open /\ xkb'.enq = xkb.enq /\ xkb'.deq = xkb.deq
        /\ xkb'.cycle = xkb.cycle /\ xkb'.at = n
        /\ xkb'.busy <=> xkb.cycle[n] = 1
    BY <1>2, <1>3, AdvanceIs
  <1>9. XTypes'
    BY <1>1, <1>3, <1>8 DEF XTypes
  <1>10. XKbHistory'
    BY <1>1, <1>3, <1>5, <1>8 DEF XKbHistory, XOn
  <1>11. XCmdInv'
    BY <1>1, <1>3, <1>5, <1>7 DEF XCmdInv, XCmdDone, XForeign, X!Own, XOn, XWaitsCmd
  <1>12. XBulkInv'
    <2>1. XBulkDone => XBulkDone'
      BY <1>3, <1>5, <1>7 DEF XBulkDone
    <2>2. XBulkBusy => XBulkBusy'
      BY <1>3, <1>5, <1>7, <2>1 DEF XBulkBusy
    <2>3. XBulkIdle => XBulkIdle'
      BY <1>3, <1>5, <1>7 DEF XBulkIdle
    <2>4. QED
      BY <1>1, <1>3, <2>2, <2>3 DEF XBulkInv, XOn, XWaitsBulk
  <1>13. XKbInv'
    <2> SUFFICES ASSUME xkb.open, ~xlate, ~xshared, ~xlap PROVE XKbRing' /\ XKbEvent'
      BY <1>3, <1>8 DEF XKbInv
    <2>1. XKbRing /\ xkb.at = xkb.deq /\ ~usb_kb /\ NoneIn(xqueue, XReports)
      BY <1>1, <1>3 DEF XKbInv, XKbEvent
    <2>2. n = xkb.enq /\ xkb.enq \in XTrbPlaces /\ ~(xkb.enq < xkb.enq)
      BY <1>2, <2>1, XhciConstants DEF XKbRing, XTrbRing, XTrbPlaces, Wrap
    <2>3. xkb.cycle[n] = 0
      BY <2>1, <2>2 DEF XKbRing
    <2>4. XKbRing'
      BY <1>8, <2>1 DEF XKbRing
    <2>5. QED
      BY <1>3, <1>4, <1>7, <1>8, <2>1, <2>2, <2>3, <2>4 DEF XKbEvent
  <1>14. XOwnInv'
    BY <1>1, <1>3 DEF XOwnInv
  <1>15. XMemInv'
    BY <1>1, <1>3 DEF XMemInv, XOn
  <1>16. QED
    BY <1>6, <1>9, <1>10, <1>11, <1>12, <1>13, <1>14, <1>15 DEF XInv

\* Every step.
LEMMA XhciStep == XInv /\ [X!Next]_xvars => XInv'
  <1> SUFFICES ASSUME XInv, [X!Next]_xvars PROVE XInv'
    OBVIOUS
  <1>1. CASE UNCHANGED xvars
    <2>1. XTypes /\ XRingInv /\ XKbHistory /\ XCmdInv /\ XBulkInv /\ XKbInv /\ XOwnInv /\ XMemInv
      BY XParts
    <2>2. XRingInv' /\ xqueue' = xqueue
      BY <1>1, <2>1, XSteady DEF xvars, X!ring
    <2>3. XTypes' /\ XKbHistory' /\ XOwnInv' /\ XMemInv'
      BY <1>1, <2>1 DEF xvars, XTypes, XKbHistory, XOwnInv, XMemInv, XOn
    <2>4. XCmdInv'
      BY <1>1, <2>1 DEF xvars, XCmdInv, XCmdDone, XForeign, X!Own, XOn, XWaitsCmd
    <2>5. XBulkInv' /\ XKbInv'
      BY <1>1, <2>1 DEF xvars, XBulkInv, XBulkIdle, XBulkBusy, XBulkDone, XKbInv, XKbRing, XKbEvent, XOn, XWaitsBulk
    <2>6. QED
      BY <2>2, <2>3, <2>4, <2>5 DEF XInv
  <1>2. CASE X!Next
    BY <1>2, XhciHcdInit, XhciHcdExit, XhciPortScan, XhciHubCheckPorts, XhciPollEvent, XhciPollTimeout,
       XhciSendCtrl, XhciInitBulk, XhciGetPipeIntr, XhciPutPipe, XhciTransferBulk, XhciBulkPoll,
       XhciBulkTimeout, XhciPollSkipped, XhciPollIntr, XhciDoJob, XhciDoBulk, XhciReport DEF X!Next
  <1>3. QED
    BY <1>1, <1>2

\* At the start.
LEMMA XhciInitially == X!Init => XInv
  <1> SUFFICES ASSUME X!Init PROVE XInv
    OBVIOUS
  <1>1. XTypes /\ XRingInv
    BY XTypesInitially
  <1>2. /\ xpc = "off" /\ xop = None /\ xbulk = X!NoRing /\ xkb = X!NoRing /\ usb_kb = FALSE /\ xmem = {}
        /\ xown = TRUE /\ xlate = FALSE /\ xstarted = FALSE
    BY DEF X!Init
  <1>3. QED
    BY <1>1, <1>2, NoRingIs DEF XInv, XKbHistory, XCmdInv, XBulkInv, XKbInv, XOwnInv, XMemInv, XOn

\* The Cardinality that UsbXhci instantiates is the library's.
LEMMA SameXCardinality == \A S : X!Cardinality(S) = Cardinality(S)
  BY DEF X!Cardinality, Cardinality, X!IsFiniteSet, IsFiniteSet

\* What follows from the invariant.
LEMMA XhciRight ==
    ASSUME XInv
    PROVE  X!ResultOwn /\ X!BulkReached /\ X!MemoryReturned /\ X!EventsInOrder /\ X!KbInStep
  <1>1. XTypes /\ XRingInv /\ XKbHistory /\ XBulkInv /\ XKbInv /\ XOwnInv /\ XMemInv
    BY XParts
  <1>2. X!ResultOwn
    BY <1>1 DEF X!ResultOwn, XOwnInv
  <1>3. X!BulkReached
    <2> SUFFICES ASSUME xpc = "wait", xop.kind = "bulk", ~xlate, ~(xbulk.busy /\ xbulk.at = xop.slot)
                 PROVE  \E k \in DOMAIN xqueue : xqueue[k] = xop
      BY DEF X!BulkReached
    <2>1. XBulkDone
      BY <1>1 DEF XBulkInv, XWaitsBulk, XBulkBusy, XOn
    <2>2. PICK k \in 1 .. Len(xqueue) : xqueue[k] \in XBulks
      BY <2>1 DEF XBulkDone, OneIn
    <2>3. xqueue[k] = xop
      BY <2>1, <2>2 DEF XBulkDone, NoneIn
    <2>4. DOMAIN xqueue = 1 .. Len(xqueue)
      BY <1>1 DEF XRingInv, XRingTypes
    <2>5. QED
      BY <2>2, <2>3, <2>4
  <1>4. X!MemoryReturned
    BY <1>1 DEF X!MemoryReturned, XMemInv, XOn
  <1>5. X!EventsInOrder
    BY <1>1, XRingRight
  <1>6. X!KbInStep
    <2> DEFINE R == {k \in DOMAIN xqueue : xqueue[k].kind = "report"}
               n == X!Cardinality(R)
    <2> SUFFICES ASSUME xkb.open, ~xlate, ~xshared, ~xlap
                 PROVE  xkb.at = (xkb.deq + n + (IF usb_kb THEN 1 ELSE 0)) % XTrbs
      BY DEF X!KbInStep
    <2>1. DOMAIN xqueue = 1 .. Len(xqueue) /\ \A k \in 1 .. Len(xqueue) : xqueue[k] \in XEvts
      BY <1>1 DEF XRingInv, XRingTypes
    <2>2. \A k \in 1 .. Len(xqueue) : k \in R <=> xqueue[k] \in XReports
      BY <2>1, EventKinds
    <2>3. NoneIn(xqueue, XReports) => n = 0
      <3> SUFFICES ASSUME NoneIn(xqueue, XReports) PROVE n = 0
        OBVIOUS
      <3>1. R = {}
        BY <2>1, <2>2 DEF NoneIn
      <3>2. QED
        BY <3>1, SameXCardinality, FS_EmptySet
    <2>4. OneIn(xqueue, XReports) => n = 1
      <3> SUFFICES ASSUME OneIn(xqueue, XReports) PROVE n = 1
        OBVIOUS
      <3>1. PICK k \in 1 .. Len(xqueue) : xqueue[k] \in XReports
                 /\ \A i \in 1 .. Len(xqueue) : i # k => xqueue[i] \notin XReports
        BY DEF OneIn
      <3>2. R = {k}
        BY <2>1, <2>2, <3>1
      <3>3. QED
        BY <3>2, SameXCardinality, FS_Singleton
    <2> HIDE DEF n, R
    <2>5. /\ xkb.deq \in 0 .. (XTrbs - 1) /\ xkb.enq \in 0 .. (XTrbs - 1) /\ xkb.deq + 1 = xkb.enq
          /\ XTrbs \in Nat \ {0}
      BY <1>1, XhciConstants DEF XKbInv, XKbRing, XTypes, XTrbRing, XTrbPlaces
    <2>6. /\ n = 0 /\ ~usb_kb => xkb.at = xkb.deq
          /\ n = 0 /\ usb_kb => xkb.at = xkb.enq
          /\ n = 1 => xkb.at = xkb.enq /\ ~usb_kb
          /\ n \in {0, 1}
      BY <1>1, <2>3, <2>4 DEF XKbInv, XKbEvent
    <2>7. \A i \in 0 .. (XTrbs - 1) : i % XTrbs = i
      BY <2>5
    <2>8. CASE n = 0 /\ ~usb_kb
      BY <2>5, <2>6, <2>7, <2>8
    <2>9. CASE n = 0 /\ usb_kb
      BY <2>5, <2>6, <2>7, <2>9
    <2>10. CASE n = 1
      BY <2>5, <2>6, <2>7, <2>10
    <2>11. QED
      BY <2>6, <2>8, <2>9, <2>10
  <1>7. QED
    BY <1>2, <1>3, <1>4, <1>5, <1>6

-----------------------------------------------------------------------------
(* The transfers and the keys of all host controllers.                     *)

\* The keyboard's endpoint of OHCI at the start.
LEMMA OhciKbInitially == O!Init => OhciKbInv
  <1> SUFFICES ASSUME O!Init PROVE OhciKbInv
    OBVIOUS
  <1>1. /\ okb = [open |-> FALSE, head |-> 0, tail |-> 0, data |-> [i \in 0 .. (ORing - 1) |-> None]]
        /\ ounread = <<>> /\ 0 \in 0 .. (ORing - 1)
    BY OhciConstants DEF O!Init, O!NoKeyboard
  <1>2. okb \in OKeyboards /\ ~okb.open
    BY <1>1 DEF OKeyboards, OData
  <1>3. QED
    BY <1>1, <1>2 DEF OhciKbInv

\* Each driver's invariant is its own, and the other parts leave its state alone.
HostInv == HidInv /\ OhciKbInv /\ OhciInv /\ EhciInv /\ XInv

\* At the start.
LEMMA HostInitially == MCInit => HostInv
  BY HidInitially, OhciKbInitially, OhciInitially, EhciInitially, XhciInitially DEF MCInit, HostInv

\* Every step, of whichever part.
LEMMA HostStep == HostInv /\ [MCNext]_<<part, vars, nicvars, usbvars>> => HostInv'
  <1> SUFFICES ASSUME HostInv, [MCNext]_<<part, vars, nicvars, usbvars>> PROVE HostInv'
    OBVIOUS
  <1>1. [K!Next]_kvars
    BY DEF MCNext, usbvars
  <1>2. [O!Next]_ovars
    BY DEF MCNext, usbvars
  <1>3. [H!Next]_hvars
    BY DEF MCNext, usbvars
  <1>4. [X!Next]_xvars
    BY DEF MCNext, usbvars
  <1>5. QED
    BY <1>1, <1>2, <1>3, <1>4, HidStep, OhciKbStep, OhciStep, EhciStep, XhciStep DEF HostInv

\* Whatever the sizes of the rings, pages and transfers: a transfer OHCI reports as
\* done was done, descriptor by descriptor, by the controller (ohci_process_done_head);
\* the descriptors of an EHCI bulk transfer cover the caller's data without a gap, all
\* but the last are done when it is reported and none is freed while the controller may
\* use it (ehci_transfer_bulk); and under xHCI a transfer ends with its own event, its
\* TRB is where the controller looks, and xhci_exit gives back what it can
\* (xhci_poll_event, xhci_transfer_bulk, xhci_hcd_exit).
THEOREM UsbTransfersTrue == MCSpec => []TransfersTrue
  <1>1. HostInv => TransfersTrue
    BY EhciRight, XhciRight DEF HostInv, OhciInv, TransfersTrue
  <1>2. QED
    BY <1>1, HostInitially, HostStep, PTL DEF MCSpec

\* Whatever the sizes of the rings: the characters wait in the key ring in the order
\* typed (write_key, read_key), the reports of the OHCI keyboard are read in the order
\* they came (ohci_poll_intr), the xHCI driver sees every event once and in order over
\* any number of laps of the event ring (xhci_poll_event), and in the first lap of its
\* keyboard's ring no report is read twice or left behind (xhci_poll_intr).
THEOREM UsbKeysInOrder == MCSpec => []KeysInOrder
  <1>1. HostInv => KeysInOrder
    BY HidRight, OhciKbRight, XhciRight DEF HostInv, KeysInOrder
  <1>2. QED
    BY <1>1, HostInitially, HostStep, PTL DEF MCSpec
=============================================================================
