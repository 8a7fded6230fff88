----------------------------- MODULE TftpProof ------------------------------
(***************************************************************************)
(* Proofs about Tftp, for one file of any size whose block numbers do not  *)
(* wrap, any buffer, block size, retry limit and number of sessions:       *)
(* nothing is acknowledged before it is stored, and the client implements  *)
(* FileTransfer.                                                           *)
(*                                                                         *)
(* The invariant: what is stored is a beginning of the file, block after   *)
(* block while the call runs; an acknowledgement under way is of a block   *)
(* that is stored; hence no session is more than one block ahead of the    *)
(* client, and a data packet is a repetition or the next block.  With a    *)
(* second file, or with numbers that wrap, neither holds: the packets of   *)
(* an earlier transfer, or of a second session, are taken for this one's.  *)
(***************************************************************************)
EXTENDS Tftp, SequenceTheorems, TLAPS

\* One call, whose file has fewer full blocks than there are block numbers, also if
\* the blocks are of one unit.
OneShortFile == Len(Files) = 1 /\ Files[1] + 1 < BlockMod

FileSize == Files[1]

\* The block size of this server's sessions.
Bs == IF server = "oack" THEN MaxBlocksize ELSE 1

\* How much of the file its first n blocks are, and the n-th of them.
Units(n) == IF n * Bs < FileSize THEN n * Bs ELSE FileSize
Block(n) == SubSeq(Content(1), (n - 1) * Bs + 1, Units(n))

\* The server delivers files, and a client with variables d knows in which pieces.
Sized(d) == server \in {"oack", "ack", "plain"} /\ d.blocksize = Bs

-----------------------------------------------------------------------------
(* The inductive invariant *)

Unit == Nat \X Nat

Vars ==
    [block : 0 .. (BlockMod - 1), blocksize : 1 .. (MaxBlocksize + 1), data : Seq(Unit),
     finished : BOOLEAN, errno : Int, port_number : Ports \cup {NoPort, StrayPort},
     bad_tftp_packets : Nat, no_packets : Nat, len : Nat]

Session == [file : {1}, abs : Nat, bs : Nat, live : BOOLEAN, tries : Nat]

Typed ==
    /\ call \in {0, 1} /\ running \in BOOLEAN /\ c \in Vars /\ server \in ServerKinds
    /\ sessions \in Seq(Session) /\ Len(sessions) <= MaxSessions
    /\ outcome \in {"none", "ok", "error"}

\* Before the call nothing has been asked for.
NothingBefore == call = 0 => (~running /\ c = Fresh /\ sessions = << >> /\ c2s = {})

\* What is stored is a beginning of the file.
Beginning(d) ==
    /\ Len(d.data) \in 0 .. FileSize
    /\ d.data = SubSeq(Content(1), 1, Len(d.data))
    /\ Len(d.data) <= d.len

\* While the call runs, the blocks counted are those stored.
Counted(d) == Len(d.data) = d.block * Bs

Counters(d) == d.bad_tftp_packets <= Retries /\ d.no_packets <= Retries

ClientRight ==
    /\ Beginning(c) /\ c.errno # -42
    /\ server \in {"ack", "plain"} => c.blocksize = 1
    /\ c.block > 0 => Sized(c)
    /\ running => ~c.finished /\ Counted(c) /\ Counters(c)

\* What a client with variables d may have sent.
Justified(m, d) ==
    \/ m.op = "RRQ" /\ m.num = 1
    \/ m.op = "ACK" /\ Sized(d) /\ m.num \in 0 .. d.block /\ Units(m.num) <= Len(d.data)
    \/ m.op = "ERROR" /\ server = "badoack"

RequestsRight == \A m \in c2s : Justified(m, c)

\* How far session s may be when the client's variables are d.
InStep(s, d) ==
    /\ s.bs = Bs /\ s.abs <= d.block + 1 /\ (server = "plain" => s.abs > 0)
    /\ s.abs > 0 => Sized(d) /\ (s.abs - 1) * Bs <= FileSize /\ Units(s.abs - 1) <= Len(d.data)
    /\ (s.abs > 0 /\ ~s.live) => Units(s.abs) <= Len(d.data)

SessionsRight == \A p \in 1 .. Len(sessions) : InStep(sessions[p], c)

\* What may be under way to a client with variables d.
Expected(m, d) ==
    /\ m.port \in Ports \cup {NoPort, StrayPort}
    /\ \/ m.op \in {"ERROR", "JUNK"}
       \/ m.op = "DUN" /\ m.num = 1
       \/ m.op = "OACK" /\ server = "oack" /\ m.num = MaxBlocksize
       \/ m.op = "OACK" /\ server = "badoack" /\ m.num = MaxBlocksize + 1
       \/ m.op = "ACK" /\ server = "ack"
       \/ /\ m.op = "DATA" /\ Sized(d)
          /\ m.num \in 1 .. (d.block + 1) /\ (m.num - 1) * Bs <= FileSize
          /\ m.data = Block(m.num)

PacketsRight == \A m \in s2c : Expected(m, c)

TftpInv ==
    /\ Typed /\ NothingBefore
    /\ ClientRight /\ RequestsRight /\ SessionsRight /\ PacketsRight

-----------------------------------------------------------------------------
(* Blocks and units *)

LEMMA Constants ==
    ASSUME OneShortFile
    PROVE  /\ FileSize \in Nat /\ BlockMod \in Nat /\ FileSize + 1 < BlockMod
           /\ MaxBlocksize \in Nat /\ MaxBlocksize > 0 /\ Bs \in Nat /\ Bs > 0
           /\ MaxSessions \in Nat /\ Retries \in Nat /\ BufLens \subseteq Nat
  BY FilesAssumption, BlockModAssumption, SizeAssumption, CounterAssumption, ServerAssumption, SMTT(30)
     DEF OneShortFile, FileSize, Bs

LEMMA Product ==
    ASSUME NEW b \in Nat, b > 0, NEW n \in Nat
    PROVE  n * b \in Nat /\ n <= n * b /\ (n + 1) * b = n * b + b
  OBVIOUS

LEMMA ProductMonotone ==
    ASSUME NEW b \in Nat, NEW m \in Nat, NEW n \in Nat, m <= n
    PROVE  m * b <= n * b
  <1>1. PICK k \in Nat : n = m + k
    <2>1. n - m \in Nat /\ n = m + (n - m)
      OBVIOUS
    <2> QED
      BY <2>1
  <1>2. n * b = m * b + k * b /\ k * b \in Nat /\ m * b \in Nat
    BY <1>1
  <1> QED
    BY <1>2

LEMMA UnitsOf ==
    ASSUME OneShortFile, NEW n \in Nat
    PROVE  /\ Units(n) \in 0 .. FileSize
           /\ n * Bs <= FileSize => Units(n) = n * Bs /\ n <= FileSize
           /\ n * Bs >= FileSize => Units(n) = FileSize
  <1>1. n * Bs \in Nat /\ n <= n * Bs
    BY Constants, Product
  <1> QED
    BY <1>1, Constants DEF Units

LEMMA UnitsMonotone ==
    ASSUME OneShortFile, NEW m \in Nat, NEW n \in Nat, m <= n
    PROVE  Units(m) <= Units(n)
  <1>1. m * Bs \in Nat /\ n * Bs \in Nat /\ m * Bs <= n * Bs
    BY Constants, Product, ProductMonotone
  <1> QED
    BY <1>1, Constants DEF Units

LEMMA FileContent ==
    ASSUME OneShortFile
    PROVE  Content(1) \in Seq(Unit) /\ Len(Content(1)) = FileSize
  <1>1. Content(1) = [i \in 1 .. FileSize |-> <<1, i>>]
    BY DEF Content, FileSize
  <1>2. \A i \in 1 .. FileSize : <<1, i>> \in Unit
    BY Constants DEF Unit
  <1>3. Content(1) \in [1 .. FileSize -> Unit]
    BY <1>1, <1>2
  <1> QED
    BY <1>3, Constants

\* A beginning of the file and the block that follows it.
LEMMA BlockFollows ==
    ASSUME OneShortFile, NEW n \in Nat, n * Bs <= FileSize
    PROVE  /\ Block(n + 1) \in Seq(Unit)
           /\ Len(Block(n + 1)) = Units(n + 1) - n * Bs
           /\ Units(n + 1) >= n * Bs
           /\ SubSeq(Content(1), 1, n * Bs) \o Block(n + 1) = SubSeq(Content(1), 1, Units(n + 1))
           /\ Len(Block(n + 1)) >= Bs => Units(n + 1) = (n + 1) * Bs /\ (n + 1) * Bs <= FileSize
           /\ Len(Block(n + 1)) < Bs => Units(n + 1) = FileSize
  <1> DEFINE a == n * Bs
             b == Units(n + 1)
             s == Content(1)
             w == (n + 1) * Bs
  <1>1. a \in Nat /\ w = a + Bs /\ Bs \in Nat /\ Bs > 0 /\ FileSize \in Nat /\ a <= FileSize
    BY Constants, Product
  <1>2. b = IF w < FileSize THEN w ELSE FileSize
    BY DEF Units
  <1>3. s \in Seq(Unit) /\ Len(s) = FileSize
    BY FileContent
  <1>4. Block(n + 1) = SubSeq(s, a + 1, b)
    <2>1. (n + 1) - 1 = n
      OBVIOUS
    <2> QED
      BY <2>1, Zenon DEF Block
  <1> HIDE DEF a, b, s, w
  <1>5. a \in 0 .. FileSize /\ b \in a .. FileSize
    BY <1>1, <1>2
  <1>6. SubSeq(s, a + 1, b) \in Seq(Unit) /\ Len(SubSeq(s, a + 1, b)) = b - a
    <2>1. \A i \in (a + 1) .. b : s[i] \in Unit
      BY <1>1, <1>3, <1>5
    <2> DEFINE a1 == a + 1
    <2>2. a1 \in Int /\ b \in Int /\ a1 <= b + 1 /\ b - a1 + 1 = b - a
      BY <1>1, <1>5
    <2> HIDE DEF a1
    <2>3. \A i \in a1 .. b : s[i] \in Unit
      BY <2>1 DEF a1
    <2>4. SubSeq(s, a1, b) \in Seq(Unit) /\ Len(SubSeq(s, a1, b)) = IF a1 <= b THEN b - a1 + 1 ELSE 0
      BY <2>2, <2>3, SubSeqProperties
    <2>5. Len(SubSeq(s, a1, b)) = b - a
      BY <2>2, <2>4
    <2> QED
      BY <2>4, <2>5 DEF a1
  <1>7. SubSeq(s, 1, a) \o SubSeq(s, a + 1, b) = SubSeq(s, 1, b)
    <2> DEFINE one == 1
    <2>1. one \in 1 .. Len(s) + 1 /\ a \in (one - 1) .. Len(s) /\ b \in a .. Len(s)
      BY <1>1, <1>3, <1>5
    <2> HIDE DEF one
    <2>2. SubSeq(s, one, a) \o SubSeq(s, a + 1, b) = SubSeq(s, one, b)
      BY <1>3, <2>1, ConcatAdjacentSubSeq
    <2> QED
      BY <2>2 DEF one
  <1> DEFINE l == Len(SubSeq(s, a + 1, b))
  <1>8. l >= Bs => b = w /\ w <= FileSize
    BY <1>1, <1>2, <1>5, <1>6
  <1>9. (l < Bs => b = FileSize) /\ b >= a
    BY <1>1, <1>2, <1>5, <1>6
  <1> QED
    BY <1>4, <1>6, <1>7, <1>8, <1>9, Zenon DEF a, b, s, w, l

\* The length of a beginning, and the whole file as one.
LEMMA BeginningOf ==
    ASSUME OneShortFile, NEW n \in 0 .. FileSize
    PROVE  /\ SubSeq(Content(1), 1, n) \in Seq(Unit)
           /\ Len(SubSeq(Content(1), 1, n)) = n
           /\ n = FileSize => SubSeq(Content(1), 1, n) = Content(1)
           /\ n = 0 => SubSeq(Content(1), 1, n) = << >>
  <1> DEFINE s == Content(1)
             one == 1
  <1>1. s \in Seq(Unit) /\ Len(s) = FileSize /\ FileSize \in Nat
    BY FileContent, Constants
  <1>2. one \in Int /\ n \in Int /\ n - one + 1 = n /\ (one <= n <=> n > 0) /\ n >= 0
    BY <1>1
  <1>3. \A i \in one .. n : s[i] \in Unit
    BY <1>1
  <1> HIDE DEF s, one
  <1>4. SubSeq(s, one, n) \in Seq(Unit)
        /\ Len(SubSeq(s, one, n)) = IF one <= n THEN n - one + 1 ELSE 0
    BY <1>2, <1>3, SubSeqProperties
  <1>5. Len(SubSeq(s, one, n)) = n
    BY <1>2, <1>4
  <1>6. n = FileSize => SubSeq(s, one, n) = s
    BY <1>1, SubSeqFull DEF one
  <1>7. n = 0 => SubSeq(s, one, n) = << >>
    BY <1>2, SubSeqEmpty DEF one
  <1> QED
    BY <1>4, <1>5, <1>6, <1>7 DEF s, one

-----------------------------------------------------------------------------
(* The client's variables *)

\* As c, apart from the port and the counters.
Same(o) ==
    /\ o \in Vars
    /\ o.block = c.block /\ o.blocksize = c.blocksize /\ o.data = c.data
    /\ o.finished = c.finished /\ o.errno = c.errno /\ o.len = c.len

\* What the handling of a packet, or of a timeout, may make of the client's variables.
Advance(d) ==
    /\ d \in Vars /\ d.block >= c.block /\ Len(d.data) >= Len(c.data)
    /\ Beginning(d) /\ d.errno # -42
    /\ server \in {"ack", "plain"} => d.blocksize = 1
    /\ Sized(c) => d.blocksize = Bs
    /\ d.block > 0 => Sized(d)
    /\ ~d.finished => Counted(d)
    /\ (d.finished /\ d.errno = 0) => d.data = Content(1)

LEMMA ClientVars ==
    ASSUME TftpInv
    PROVE  /\ c.block \in 0 .. (BlockMod - 1) /\ c.blocksize \in 1 .. (MaxBlocksize + 1)
           /\ c.data \in Seq(Unit) /\ Len(c.data) \in Nat /\ c.errno \in Int /\ c.len \in Nat
           /\ c.bad_tftp_packets \in Nat /\ c.no_packets \in Nat
           /\ c.port_number \in Ports \cup {NoPort, StrayPort} /\ c.finished \in BOOLEAN
  BY DEF TftpInv, Typed, Vars

\* While the call runs there is room for another block number.
LEMMA NumbersLeft ==
    ASSUME OneShortFile, TftpInv, running
    PROVE  /\ c.block \in Nat /\ c.block + 1 < BlockMod /\ c.block * Bs <= FileSize
           /\ Len(c.data) = c.block * Bs
  <1> DEFINE n == c.block
  <1>1. n \in Nat /\ Len(c.data) = n * Bs /\ Len(c.data) \in 0 .. FileSize
    BY ClientVars, Constants DEF TftpInv, ClientRight, Counted, Beginning
  <1> HIDE DEF n
  <1>2. n <= n * Bs /\ n * Bs \in Nat
    BY <1>1, Constants, Product
  <1>3. n <= FileSize /\ n * Bs <= FileSize
    BY <1>1, <1>2, Constants
  <1> QED
    BY <1>1, <1>3, Constants DEF n

LEMMA SameAdvances ==
    ASSUME OneShortFile, TftpInv, running, NEW o, Same(o)
    PROVE  Advance(o)
  <1>1. ~c.finished /\ Counted(c) /\ Beginning(c) /\ c.errno # -42
        /\ (server \in {"ack", "plain"} => c.blocksize = 1) /\ (c.block > 0 => Sized(c))
    BY DEF TftpInv, ClientRight
  <1>2. Counted(o) /\ Beginning(o)
    BY <1>1 DEF Same, Counted, Beginning
  <1>3. o.block >= c.block /\ Len(o.data) >= Len(c.data)
    BY ClientVars, Constants DEF Same
  <1> QED
    BY <1>1, <1>2, <1>3 DEF Same, Advance, Sized

LEMMA FailedAdvances ==
    ASSUME NEW o, Advance(o), NEW e \in Int, e # 0, e # -42
    PROVE  Advance(Failed(o, e))
  <1> DEFINE d == Failed(o, e)
  <1>1. /\ d \in Vars /\ d.block = o.block /\ d.data = o.data /\ d.len = o.len
        /\ d.blocksize = o.blocksize /\ d.errno = e /\ d.finished = TRUE
        /\ d.port_number = o.port_number
    BY DEF Failed, Advance, Vars
  <1> HIDE DEF d
  <1> QED
    BY <1>1 DEF Advance, Beginning, Sized, d

LEMMA BadSame ==
    ASSUME NEW o, Same(o)
    PROVE  Same(Bad(o))
  BY DEF Same, Bad, Vars

LEMMA TimerSame ==
    ASSUME TftpInv
    PROVE  Same(TimerExpired(c)) /\ Same(c)
  BY SMTT(30) DEF Same, TimerExpired, Vars, TftpInv, Typed

LEMMA PortSame ==
    ASSUME NEW o, Same(o), NEW q \in Ports \cup {NoPort, StrayPort}
    PROVE  Same([o EXCEPT !.port_number = q])
  BY DEF Same, Vars

\* The counters are checked at the end of an iteration.
LEMMA ChecksAdvance ==
    ASSUME NEW o, Advance(o)
    PROVE  /\ Advance(CheckCounters(o))
           /\ ~CheckCounters(o).finished => Counters(CheckCounters(o))
           /\ CheckCounters(o).block = o.block /\ CheckCounters(o).data = o.data
           /\ CheckCounters(o).blocksize = o.blocksize
  <1>1. /\ o.bad_tftp_packets \in Nat /\ o.no_packets \in Nat /\ Retries \in Nat
        /\ o \in Vars
    BY CounterAssumption DEF Advance, Vars
  <1>2. CASE o.bad_tftp_packets > Retries
    <2>1. CheckCounters(o) = Failed(o, -40)
      BY <1>2 DEF CheckCounters
    <2>2. Advance(Failed(o, -40))
      BY FailedAdvances
    <2>3. /\ Failed(o, -40).finished = TRUE /\ Failed(o, -40).block = o.block
          /\ Failed(o, -40).data = o.data /\ Failed(o, -40).blocksize = o.blocksize
      BY <1>1 DEF Failed, Vars
    <2> QED
      BY <2>1, <2>2, <2>3
  <1>3. CASE ~(o.bad_tftp_packets > Retries) /\ o.no_packets > Retries
    <2>1. CheckCounters(o) = Failed(o, -41)
      BY <1>3 DEF CheckCounters
    <2>2. Advance(Failed(o, -41))
      BY FailedAdvances
    <2>3. /\ Failed(o, -41).finished = TRUE /\ Failed(o, -41).block = o.block
          /\ Failed(o, -41).data = o.data /\ Failed(o, -41).blocksize = o.blocksize
      BY <1>1 DEF Failed, Vars
    <2> QED
      BY <2>1, <2>2, <2>3
  <1>4. CASE ~(o.bad_tftp_packets > Retries) /\ ~(o.no_packets > Retries)
    <2>1. CheckCounters(o) = o
      BY <1>4 DEF CheckCounters
    <2>2. Counters(o)
      BY <1>1, <1>4 DEF Counters
    <2> QED
      BY <2>1, <2>2
  <1> QED
    BY <1>2, <1>3, <1>4

\* The next block, stored or too long for the buffer.
LEMMA StoreAdvances ==
    ASSUME OneShortFile, TftpInv, running, NEW o, Same(o), Sized(c),
           NEW p, p.num = c.block + 1, p.data = Block(p.num)
    PROVE  /\ Advance(Store(o, p)) /\ Store(o, p).block = c.block + 1
           /\ Store(o, p).errno = 0 => Len(Store(o, p).data) = Units(p.num)
  <1> DEFINE n == c.block
             b == Block(n + 1)
             u == Units(n + 1)
             k == [o EXCEPT !.block = p.num, !.bad_tftp_packets = 0]
  <1>1. /\ n \in Nat /\ n + 1 \in 0 .. (BlockMod - 1) /\ n * Bs <= FileSize
        /\ Len(c.data) = n * Bs /\ n * Bs \in Nat
    BY NumbersLeft, Constants, Product
  <1>2. /\ b \in Seq(Unit) /\ Len(b) = u - n * Bs /\ u >= n * Bs
        /\ SubSeq(Content(1), 1, n * Bs) \o b = SubSeq(Content(1), 1, u)
        /\ Len(b) >= Bs => u = (n + 1) * Bs
        /\ Len(b) < Bs => u = FileSize
    BY <1>1, BlockFollows
  <1>3. u \in 0 .. FileSize
    BY <1>1, UnitsOf
  <1>4. /\ c.data = SubSeq(Content(1), 1, n * Bs) /\ c.errno # -42 /\ ~c.finished
        /\ (server \in {"ack", "plain"} => c.blocksize = 1)
        /\ c.blocksize = Bs /\ Len(c.data) <= c.len
    BY <1>1 DEF TftpInv, ClientRight, Beginning, Sized
  <1>5. /\ k \in Vars /\ k.block = n + 1 /\ k.data = c.data /\ k.len = c.len
        /\ k.blocksize = Bs /\ k.errno = c.errno /\ k.finished = FALSE
    BY <1>1, <1>4 DEF Same, Vars
  <1>6. p.data = b /\ o.data = c.data /\ o.len = c.len /\ o.blocksize = Bs
    BY <1>4 DEF Same
  <1>7. c.data \o b = SubSeq(Content(1), 1, u)
    BY <1>2, <1>4
  <1>8. /\ SubSeq(Content(1), 1, u) \in Seq(Unit) /\ Len(SubSeq(Content(1), 1, u)) = u
        /\ u = FileSize => SubSeq(Content(1), 1, u) = Content(1)
    BY <1>3, BeginningOf
  <1>9. Bs \in Nat /\ FileSize \in Nat /\ u \in Nat /\ Len(c.data) \in Nat /\ c.len \in Nat
    BY <1>1, <1>3, Constants, ClientVars
  <1> DEFINE t == SubSeq(Content(1), 1, u)
             w == (n + 1) * Bs
             a == n * Bs
             d == Store(o, p)
  <1>10. CASE Len(o.data) + Len(p.data) > o.len
    <2> DEFINE e == -2
    <2>1. d = Failed(k, e)
      BY <1>10 DEF Store
    <2>2. e \in Int /\ e # -42 /\ e # 0
      OBVIOUS
    <2> HIDE DEF k, e, n
    <2>3. /\ d \in Vars /\ d.block = n + 1 /\ d.data = c.data /\ d.len = c.len
          /\ d.blocksize = Bs /\ d.errno = e /\ d.finished = TRUE
      BY <1>5, <2>1, <2>2 DEF Failed, Vars
    <2> HIDE DEF d
    <2>4. Beginning(d)
      BY <2>3 DEF TftpInv, ClientRight, Beginning
    <2>5. d.block >= n /\ Len(d.data) >= Len(c.data)
      BY <1>1, <1>9, <2>3
    <2>6. Advance(d)
      BY <1>4, <2>2, <2>3, <2>4, <2>5 DEF Advance, Sized, n
    <2> QED
      BY <2>2, <2>3, <2>6 DEF d, n
  <1>11. CASE ~(Len(o.data) + Len(p.data) > o.len)
    <2>1. d = [k EXCEPT !.data = @ \o p.data, !.finished = Len(p.data) < o.blocksize]
      BY <1>11 DEF Store
    <2> HIDE DEF k, t
    <2>2. d = [k EXCEPT !.data = t, !.finished = Len(b) < Bs]
      BY <1>5, <1>6, <1>7, <2>1 DEF t
    <2> DEFINE z == Len(b) < Bs
    <2>3. z \in BOOLEAN /\ t \in Seq(Unit)
      BY <1>8 DEF t
    <2> HIDE DEF z, n
    <2>4. /\ d \in Vars /\ d.block = n + 1 /\ d.data = t /\ d.len = c.len
          /\ d.blocksize = Bs /\ d.errno = c.errno /\ d.finished = z
      BY <1>5, <2>2, <2>3 DEF Vars, z
    <2> HIDE DEF d, b, u, a, w
    <2>5. Len(t) = u /\ u >= Len(c.data) /\ u <= c.len
      <3> DEFINE y == Len(c.data)
                 v == Len(b)
      <3>1. y = a /\ v = u - a /\ u >= a
        BY <1>1, <1>2 DEF a, n
      <3>2. ~(y + v > c.len)
        BY <1>6, <1>11
      <3>3. y \in Nat /\ u \in Nat /\ c.len \in Nat
        BY <1>9
      <3> HIDE DEF y, v
      <3>4. u >= y /\ u <= c.len
        BY <3>1, <3>2, <3>3
      <3> QED
        BY <1>8, <3>4 DEF t, y
    <2>6. Beginning(d)
      BY <1>3, <2>4, <2>5 DEF Beginning, t
    <2>7. d.block >= n /\ Len(d.data) >= Len(c.data)
      BY <1>1, <1>9, <2>4, <2>5
    <2>8. ~d.finished => Counted(d)
      <3>1. Len(b) \in Nat
        BY <1>2
      <3>2. ~z => u = w
        BY <1>2, <1>9, <3>1 DEF z, w, n
      <3> QED
        BY <2>4, <2>5, <3>2 DEF Counted, w
    <2>9. d.finished => d.data = Content(1)
      BY <1>2, <1>8, <2>4 DEF z, t
    <2>10. Advance(d)
      BY <1>4, <2>4, <2>6, <2>7, <2>8, <2>9 DEF Advance, Sized, n
    <2> QED
      BY <2>4, <2>5, <2>10 DEF d, n, u
  <1> QED
    BY <1>10, <1>11

\* A data packet is never ahead by more than one, and numbers do not wrap.
LEMMA VerdictOf ==
    ASSUME NEW b \in Nat, b + 1 < BlockMod, NEW n \in 1 .. (b + 1)
    PROVE  Verdict(b, n) = IF n = b + 1 THEN "next" ELSE IF n = b THEN "repeat" ELSE "old"
  BY BlockModAssumption DEF Verdict

\* handle_tftp for a data packet.
LEMMA DataHandled ==
    ASSUME OneShortFile, TftpInv, running, NEW o, Same(o), NEW p \in s2c, p.op = "DATA"
    PROVE  /\ Advance(handle_tftp(o, p))
           /\ \A m \in Reply(o, p) : Justified(m, handle_tftp(o, p))
  <1> DEFINE cl == [o EXCEPT !.port_number = p.port]
             n == p.num
             b == c.block
  <1>1. /\ p.port \in Ports \cup {NoPort, StrayPort} /\ Sized(c)
        /\ n \in 1 .. (b + 1) /\ p.data = Block(n)
    BY DEF TftpInv, PacketsRight, Expected
  <1>2. b \in Nat /\ b + 1 < BlockMod /\ b * Bs <= FileSize /\ Len(c.data) = b * Bs
    BY NumbersLeft
  <1>3. Same(cl)
    BY <1>1, PortSame
  <1>4. cl.block = b /\ o.block = b
    BY <1>3 DEF Same
  <1>5. Verdict(b, n) = IF n = b + 1 THEN "next" ELSE IF n = b THEN "repeat" ELSE "old"
    BY <1>1, <1>2, VerdictOf
  <1> HIDE DEF cl, n, b
  <1>6. handle_tftp(o, p) = CASE Verdict(b, n) = "next" -> Store(cl, p)
                              [] Verdict(b, n) = "gap" -> Failed(cl, -42)
                              [] OTHER -> Bad(cl)
    <2>1. handle_tftp(o, p) = CASE Verdict(cl.block, p.num) = "next" -> Store(cl, p)
                                [] Verdict(cl.block, p.num) = "gap" -> Failed(cl, -42)
                                [] OTHER -> Bad(cl)
      BY DEF handle_tftp, cl
    <2> QED
      BY <1>4, <2>1, Zenon DEF n
  <1>7. Reply(o, p) = CASE Verdict(b, n) = "next" ->
                             IF Store(o, p).errno = 0 THEN send_ack(n, p.port, p.abs) ELSE {}
                        [] Verdict(b, n) = "repeat" -> send_ack(n, p.port, p.abs)
                        [] OTHER -> {}
    BY <1>4 DEF Reply, n
  <1>8. Sized(c) /\ server \in {"oack", "ack", "plain"} /\ c.blocksize = Bs
    BY <1>1 DEF Sized
  <1>9. CASE n = b + 1
    <2>1. handle_tftp(o, p) = Store(cl, p)
      BY <1>5, <1>6, <1>9
    <2>2. /\ Advance(Store(cl, p)) /\ Store(cl, p).block = b + 1
          /\ Store(cl, p).errno = 0 => Len(Store(cl, p).data) = Units(n)
      BY <1>1, <1>3, <1>9, StoreAdvances DEF n, b
    <2>3. Store(o, p).errno = 0 => Store(cl, p).errno = 0
      BY DEF Store, Failed, cl, Same, Vars
    <2>4. ASSUME NEW m \in Reply(o, p)
          PROVE  Justified(m, handle_tftp(o, p))
      <3>1. Store(o, p).errno = 0 /\ m.op = "ACK" /\ m.num = n
        BY <1>5, <1>7, <1>9, <2>4 DEF send_ack, Packet
      <3> DEFINE d == Store(cl, p)
      <3>2. d.block = b + 1 /\ Len(d.data) = Units(n) /\ Sized(d)
        BY <1>8, <2>2, <2>3, <3>1 DEF Advance, Sized
      <3>3. Units(n) \in 0 .. FileSize
        BY <1>2, <1>9, UnitsOf
      <3> HIDE DEF d
      <3>4. m.num \in 0 .. d.block /\ Units(m.num) <= Len(d.data)
        BY <1>2, <1>9, <3>1, <3>2, <3>3, Constants
      <3> QED
        BY <2>1, <3>1, <3>2, <3>4 DEF Justified, d
    <2> QED
      BY <2>1, <2>2, <2>4
  <1>10. CASE n # b + 1
    <2>1. handle_tftp(o, p) = Bad(cl)
      BY <1>5, <1>6, <1>10
    <2>2. Same(Bad(cl)) /\ Advance(Bad(cl))
      BY <1>3, BadSame, SameAdvances
    <2>3. ASSUME NEW m \in Reply(o, p)
          PROVE  Justified(m, handle_tftp(o, p))
      <3>1. m.op = "ACK" /\ m.num = b
        BY <1>5, <1>7, <1>10, <2>3 DEF send_ack, Packet
      <3>2. Units(b) = Len(c.data) /\ Len(c.data) \in Nat
        BY <1>2, UnitsOf, ClientVars
      <3> DEFINE d == Bad(cl)
      <3>3. d.block = b /\ d.data = c.data /\ Sized(d)
        BY <1>8, <2>2 DEF Same, Sized, b
      <3> HIDE DEF d
      <3>4. m.num \in 0 .. d.block /\ Units(m.num) <= Len(d.data)
        BY <1>2, <3>1, <3>2, <3>3
      <3> QED
        BY <2>1, <3>1, <3>3, <3>4 DEF Justified, d
    <2> QED
      BY <2>1, <2>2, <2>3
  <1> QED
    BY <1>9, <1>10

\* handle_tftp for an acknowledgement of the options.
LEMMA OackHandled ==
    ASSUME OneShortFile, TftpInv, running, NEW o, Same(o), NEW p \in s2c, p.op = "OACK"
    PROVE  /\ Advance(handle_tftp(o, p))
           /\ \A m \in Reply(o, p) : Justified(m, handle_tftp(o, p))
  <1> DEFINE cl == [o EXCEPT !.port_number = p.port]
             n == p.num
             k == [cl EXCEPT !.blocksize = n]
  <1>1. /\ p.port \in Ports \cup {NoPort, StrayPort}
        /\ \/ server = "oack" /\ n = MaxBlocksize
           \/ server = "badoack" /\ n = MaxBlocksize + 1
    BY DEF TftpInv, PacketsRight, Expected
  <1>2. Same(cl)
    BY <1>1, PortSame
  <1>3. n \in 1 .. (MaxBlocksize + 1)
    BY <1>1, Constants
  <1>4. Advance(cl)
    BY <1>2, SameAdvances
  <1>5. ~cl.finished
    BY <1>2 DEF Same, TftpInv, ClientRight
  <1> HIDE DEF cl, n
  <1>6. /\ k \in Vars /\ k.block = cl.block /\ k.data = cl.data /\ k.len = cl.len
        /\ k.errno = cl.errno /\ k.finished = cl.finished /\ k.blocksize = n
    BY <1>3, <1>4 DEF Advance, Vars
  <1> HIDE DEF k
  <1>7. Sized(c) => n = Bs
    BY <1>1 DEF Sized, Bs
  <1>8. Advance(k)
    <2>1. Beginning(k) /\ (~k.finished => Counted(k))
      BY <1>4, <1>6 DEF Advance, Beginning, Counted
    <2>2. server \notin {"ack", "plain"}
      BY <1>1
    <2>3. k.block > 0 => Sized(k)
      BY <1>2, <1>6, <1>7 DEF Same, TftpInv, ClientRight, Sized
    <2> QED
      BY <1>4, <1>5, <1>6, <1>7, <2>1, <2>2, <2>3 DEF Advance
  <1>9. CASE server = "oack" /\ n = MaxBlocksize
    <2>1. n \in 1 .. MaxBlocksize
      BY <1>9, Constants
    <2>2. handle_tftp(o, p) = k
      BY <2>1 DEF handle_tftp, k, cl, n
    <2>3. ASSUME NEW m \in Reply(o, p)
          PROVE  Justified(m, k)
      <3>1. m.op = "ACK" /\ m.num = 0
        BY <2>1, <2>3 DEF Reply, send_ack, Packet, n
      <3> DEFINE z == 0
      <3>2. z \in Nat /\ z * Bs = 0 /\ z * Bs <= FileSize
        BY Constants
      <3>3. Units(z) = 0
        BY <3>2, UnitsOf
      <3>4. Sized(k) /\ 0 \in 0 .. k.block /\ 0 <= Len(k.data)
        BY <1>6, <1>9, Constants DEF Sized, Bs, Vars
      <3> QED
        BY <3>1, <3>3, <3>4 DEF Justified
    <2> QED
      BY <1>8, <2>2, <2>3
  <1>10. CASE server = "badoack" /\ n = MaxBlocksize + 1
    <2>1. n \notin 1 .. MaxBlocksize
      BY <1>10, Constants
    <2>2. handle_tftp(o, p) = Failed(k, -8)
      BY <2>1 DEF handle_tftp, k, cl, n
    <2>3. Advance(Failed(k, -8))
      BY <1>8, FailedAdvances
    <2>4. \A m \in Reply(o, p) : m.op = "ERROR"
      BY <2>1 DEF Reply, send_error, Packet, n
    <2> QED
      BY <1>10, <2>2, <2>3, <2>4 DEF Justified
  <1> QED
    BY <1>1, <1>9, <1>10

\* handle_tftp for the other packets.
LEMMA OtherHandled ==
    ASSUME OneShortFile, TftpInv, running, NEW o, Same(o), NEW p \in s2c,
           p.op \notin {"DATA", "OACK"}
    PROVE  /\ Advance(handle_tftp(o, p))
           /\ \A m \in Reply(o, p) : Justified(m, handle_tftp(o, p))
  <1> DEFINE cl == [o EXCEPT !.port_number = p.port]
  <1>1. /\ p.port \in Ports \cup {NoPort, StrayPort}
        /\ p.op \in {"ERROR", "JUNK", "DUN", "ACK"}
        /\ p.op = "DUN" => p.num = 1
        /\ p.op = "ACK" => server = "ack"
    BY DEF TftpInv, PacketsRight, Expected
  <1>2. Same(cl)
    BY <1>1, PortSame
  <1>3. Advance(cl) /\ Advance(o)
    BY <1>2, SameAdvances
  <1> HIDE DEF cl
  <1>4. CASE p.op = "ACK"
    <2> DEFINE k == [cl EXCEPT !.blocksize = 1]
    <2>1. handle_tftp(o, p) = k
      BY <1>4 DEF handle_tftp, cl
    <2>2. server = "ack" /\ c.blocksize = 1 /\ Bs = 1
      BY <1>1, <1>4 DEF TftpInv, ClientRight, Bs
    <2>3. k = cl
      BY <1>2, <2>2 DEF Same, Vars
    <2>4. \A m \in Reply(o, p) : m.op = "ACK" /\ m.num = 0
      BY <1>4 DEF Reply, send_ack, Packet
    <2> DEFINE z == 0
    <2>5. z \in Nat /\ z * Bs = 0 /\ z * Bs <= FileSize
      BY Constants
    <2>6. Units(z) = 0
      BY <2>5, UnitsOf
    <2>7. cl.blocksize = 1 /\ cl.block = c.block /\ cl.data = c.data
      BY <1>2, <2>2 DEF Same
    <2>8. Sized(cl)
      BY <2>2, <2>7 DEF Sized
    <2>9. 0 \in 0 .. cl.block /\ 0 <= Len(cl.data)
      BY <2>7, ClientVars, Constants
    <2> QED
      BY <1>3, <2>1, <2>3, <2>4, <2>6, <2>8, <2>9 DEF Justified
  <1>5. CASE p.op # "ACK"
    <2>1. Reply(o, p) = {}
      BY <1>1, <1>5 DEF Reply
    <2>2. CASE p.op = "ERROR"
      <3>1. handle_tftp(o, p) = Failed(cl, ErrorOf(p.num))
        BY <2>2 DEF handle_tftp, cl
      <3>2. ErrorOf(p.num) \in {-1, -3, -4, -5, -6, -7}
        BY DEF ErrorOf
      <3>3. ErrorOf(p.num) \in Int /\ ErrorOf(p.num) # 0 /\ ErrorOf(p.num) # -42
        BY <3>2
      <3> QED
        BY <1>3, <2>1, <3>1, <3>3, FailedAdvances
    <2>3. CASE p.op = "JUNK"
      <3>1. handle_tftp(o, p) = Bad(cl)
        BY <2>3 DEF handle_tftp, cl
      <3> QED
        BY <1>2, <2>1, <3>1, BadSame, SameAdvances
    <2>4. CASE p.op = "DUN"
      <3>1. handle_tftp(o, p) = Failed(o, -10 - p.num)
        BY <2>4 DEF handle_tftp
      <3>2. -10 - p.num = -11
        BY <1>1, <2>4
      <3>3. Advance(Failed(o, -11))
        BY <1>3, FailedAdvances
      <3> QED
        BY <2>1, <3>1, <3>2, <3>3
    <2> QED
      BY <1>1, <1>5, <2>2, <2>3, <2>4
  <1> QED
    BY <1>4, <1>5

\* An iteration's packet, whatever it is, and the checks that follow.
LEMMA Handled ==
    ASSUME OneShortFile, TftpInv, running, NEW o, Same(o), NEW p \in s2c
    PROVE  /\ Advance(CheckCounters(handle_tftp(o, p)))
           /\ ~CheckCounters(handle_tftp(o, p)).finished => Counters(CheckCounters(handle_tftp(o, p)))
           /\ \A m \in Reply(o, p) : Justified(m, CheckCounters(handle_tftp(o, p)))
  <1> DEFINE h == handle_tftp(o, p)
             d == CheckCounters(h)
  <1>1. Advance(h) /\ \A m \in Reply(o, p) : Justified(m, h)
    BY DataHandled, OackHandled, OtherHandled
  <1> HIDE DEF h
  <1>2. /\ Advance(d) /\ (~d.finished => Counters(d))
        /\ d.block = h.block /\ d.data = h.data /\ d.blocksize = h.blocksize
    BY <1>1, ChecksAdvance
  <1> HIDE DEF d
  <1>3. \A m \in Reply(o, p) : Justified(m, d)
    BY <1>1, <1>2 DEF Justified, Sized
  <1> QED
    BY <1>2, <1>3 DEF d, h

-----------------------------------------------------------------------------
(* The steps *)

\* What was justified, in step or expected stays so when the client advances.
LEMMA StaysRight ==
    ASSUME OneShortFile, TftpInv, NEW d, Advance(d)
    PROVE  /\ \A m : Justified(m, c) => Justified(m, d)
           /\ \A s \in Session : InStep(s, c) => InStep(s, d)
           /\ \A m : Expected(m, c) => Expected(m, d)
  <1> DEFINE b == c.block
             b2 == d.block
             l == Len(c.data)
             l2 == Len(d.data)
  <1>1. b \in Nat /\ b2 \in Nat /\ b <= b2 /\ l \in Nat /\ l2 \in Nat /\ l <= l2
    BY ClientVars, Constants DEF Advance, Vars
  <1>2. Sized(c) => Sized(d)
    BY DEF Advance, Sized
  <1>3. \A n \in Nat : Units(n) \in Nat
    BY UnitsOf, Constants
  <1> HIDE DEF b, b2, l, l2
  <1>4. ASSUME NEW m, Justified(m, c)
        PROVE  Justified(m, d)
    <2>1. m.num \in 0 .. b /\ Units(m.num) <= l => m.num \in 0 .. b2 /\ Units(m.num) <= l2
      BY <1>1, <1>3
    <2> QED
      BY <1>2, <1>4, <2>1 DEF Justified, b, b2, l, l2
  <1>5. ASSUME NEW s \in Session, InStep(s, c)
        PROVE  InStep(s, d)
    <2>1. s.abs \in Nat
      BY DEF Session
    <2>2. s.abs <= b + 1 => s.abs <= b2 + 1
      BY <1>1, <2>1
    <2>3. Units(s.abs) <= l => Units(s.abs) <= l2
      BY <1>1, <1>3, <2>1
    <2> DEFINE a == s.abs - 1
    <2>4. s.abs > 0 => a \in Nat
      BY <2>1
    <2> HIDE DEF a
    <2>5. s.abs > 0 => (Units(a) <= l => Units(a) <= l2)
      BY <1>1, <1>3, <2>4
    <2> QED
      BY <1>2, <1>5, <2>2, <2>3, <2>5 DEF InStep, b, b2, l, l2, a
  <1>6. ASSUME NEW m, Expected(m, c)
        PROVE  Expected(m, d)
    <2>1. m.num \in 1 .. (b + 1) => m.num \in 1 .. (b2 + 1)
      BY <1>1
    <2> QED
      BY <1>2, <1>6, <2>1 DEF Expected, b, b2
  <1> QED
    BY <1>4, <1>5, <1>6

\* The end of an iteration.
LEMMA IterationRight ==
    ASSUME OneShortFile, TftpInv, running, NEW d, Advance(d), ~d.finished => Counters(d),
           Continue(d), s2c' \subseteq s2c,
           \A m \in c2s' : m \in c2s \/ Justified(m, d)
    PROVE  TftpInv'
  <1>1. /\ c' = d /\ running' = ~d.finished /\ call' = call /\ server' = server
        /\ sessions' = sessions /\ outcome' \in {"none", "ok", "error"}
    BY DEF Continue
  <1>2. Bs' = Bs /\ \A n : Units(n)' = Units(n)
    BY <1>1 DEF Bs, Units
  <1>3. Typed'
    BY <1>1 DEF TftpInv, Typed, Advance
  <1>4. NothingBefore'
    BY <1>1 DEF TftpInv, NothingBefore
  <1>5. ClientRight'
    BY <1>1, <1>2 DEF ClientRight, Advance, Beginning, Counted, Counters, Sized
  <1>6. RequestsRight'
    <2>1. \A m \in c2s' : Justified(m, d)
      BY StaysRight DEF TftpInv, RequestsRight
    <2> QED
      BY <1>1, <2>1 DEF RequestsRight, Justified, Sized, Units, Bs
  <1>7. SessionsRight'
    <2>1. \A p \in 1 .. Len(sessions) : sessions[p] \in Session /\ InStep(sessions[p], c)
      BY DEF TftpInv, Typed, SessionsRight
    <2>2. \A p \in 1 .. Len(sessions) : InStep(sessions[p], d)
      BY <2>1, StaysRight
    <2> QED
      BY <1>1, <2>2 DEF SessionsRight, InStep, Sized, Units, Bs
  <1>8. PacketsRight'
    <2>1. \A m \in s2c' : Expected(m, d)
      BY StaysRight DEF TftpInv, PacketsRight
    <2> QED
      BY <1>1, <2>1 DEF PacketsRight, Expected, Sized, Block, Units, Bs
  <1> QED
    BY <1>3, <1>4, <1>5, <1>6, <1>7, <1>8 DEF TftpInv

\* What the timer sends is a read request or repeats the last acknowledgement.
LEMMA TimerSendsRight ==
    ASSUME OneShortFile, TftpInv, running, NEW m \in TimerSends(c)
    PROVE  Justified(m, c)
  <1>1. call = 1
    BY DEF TftpInv, Typed, NothingBefore
  <1>2. CASE m \in send_rrq
    BY <1>1, <1>2 DEF send_rrq, Packet, Justified
  <1>3. CASE /\ c.block > 1
             /\ m \in send_ack(c.block, c.port_number, Len(c.data) \div c.blocksize)
    <2>1. m.op = "ACK" /\ m.num = c.block
      BY <1>3 DEF send_ack, Packet
    <2>2. c.block \in Nat /\ Units(c.block) = Len(c.data) /\ Len(c.data) \in Nat
      BY NumbersLeft, UnitsOf, ClientVars
    <2>3. Sized(c)
      BY <1>3, <2>2 DEF TftpInv, ClientRight
    <2>4. m.num \in 0 .. c.block /\ Units(m.num) <= Len(c.data)
      BY <2>1, <2>2
    <2> QED
      BY <2>1, <2>3, <2>4 DEF Justified
  <1> QED
    BY <1>2, <1>3 DEF TimerSends

LEMMA InitRight ==
    ASSUME OneShortFile, Init
    PROVE  TftpInv
  <1>1. c = Fresh /\ c.data = << >> /\ c.block = 0 /\ c.blocksize = 1 /\ c.errno = 0 /\ c.len = 0
    BY DEF Init, Fresh
  <1>2. Fresh \in Vars
    BY Constants DEF Fresh, Vars
  <1>3. Typed
    <2>1. << >> \in Seq(Session) /\ Len(<< >>) = 0 /\ 0 <= MaxSessions
      BY Constants
    <2> QED
      BY <1>1, <1>2, <2>1 DEF Init, Typed
  <1>4. Beginning(c)
    <2>1. 0 \in 0 .. FileSize /\ Len(<< >>) = 0
      BY Constants
    <2>2. SubSeq(Content(1), 1, 0) = << >>
      BY <2>1, BeginningOf
    <2> QED
      BY <1>1, <2>1, <2>2 DEF Beginning
  <1>5. ClientRight
    BY <1>1, <1>4 DEF ClientRight, Init
  <1>6. NothingBefore /\ RequestsRight /\ SessionsRight
    BY DEF Init, NothingBefore, RequestsRight, SessionsRight
  <1>7. PacketsRight
    BY Constants DEF Init, PacketsRight, Expected, Junk, Packet, StrayPort
  <1> QED
    BY <1>3, <1>5, <1>6, <1>7 DEF TftpInv

\* The call begins.
LEMMA CallRight ==
    ASSUME OneShortFile, TftpInv, tftp
    PROVE  TftpInv'
  <1>1. /\ call = 0 /\ call' = 1 /\ running' = TRUE /\ server' = server
        /\ sessions' = sessions /\ s2c' = s2c /\ outcome' = "none"
        /\ c2s' = c2s \cup {Packet("RRQ", NoPort, 1, 0, << >>)}
    BY DEF tftp, OneShortFile, TftpInv, Typed
  <1>2. PICK len \in BufLens : c' = [Fresh EXCEPT !.len = len]
    BY DEF tftp
  <1>3. c = Fresh /\ sessions = << >> /\ c2s = {}
    BY <1>1 DEF TftpInv, NothingBefore
  <1>4. len \in Nat
    BY Constants
  <1>5. Fresh \in Vars
    BY <1>3 DEF TftpInv, Typed
  <1>6. /\ c' \in Vars /\ c'.data = << >> /\ c'.block = 0 /\ c'.blocksize = 1 /\ c'.errno = 0
        /\ c'.len = len /\ c'.finished = FALSE /\ c'.bad_tftp_packets = 0 /\ c'.no_packets = 0
    BY <1>2, <1>4, <1>5 DEF Fresh, Vars
  <1>7. Typed'
    BY <1>1, <1>6 DEF TftpInv, Typed
  <1>8. ClientRight'
    <2>1. 0 \in 0 .. FileSize /\ Len(<< >>) = 0 /\ 0 <= len /\ 0 <= Retries /\ 0 * Bs = 0
      BY <1>4, Constants
    <2>2. SubSeq(Content(1), 1, 0) = << >>
      BY <2>1, BeginningOf
    <2>3. Beginning(c')
      BY <1>6, <2>1, <2>2 DEF Beginning
    <2>4. Counters(c') /\ Len(c'.data) = c'.block * Bs /\ Bs' = Bs
      BY <1>1, <1>6, <2>1 DEF Counters, Bs
    <2> QED
      BY <1>6, <2>3, <2>4 DEF ClientRight, Beginning, Counters, Counted
  <1>9. NothingBefore' /\ RequestsRight' /\ SessionsRight'
    BY <1>1, <1>3 DEF NothingBefore, RequestsRight, SessionsRight, Justified, Packet
  <1>10. PacketsRight'
    <2>1. \A m \in s2c : Expected(m, c)
      BY DEF TftpInv, PacketsRight
    <2>2. c.blocksize = 1 /\ c.block = 0
      BY <1>3 DEF Fresh
    <2> QED
      BY <1>1, <1>6, <2>1, <2>2 DEF PacketsRight, Expected, Sized, Block, Units, Bs
  <1> QED
    BY <1>7, <1>8, <1>9, <1>10 DEF TftpInv

\* An iteration.
LEMMA ClientRightStep ==
    ASSUME OneShortFile, TftpInv,
           \/ IterateTimeout
           \/ \E p \in s2c : IteratePacket(p) \/ IterateTimeoutPacket(p)
    PROVE  /\ TftpInv' /\ running
           /\ \E d : Advance(d) /\ Continue(d)
  <1>1. CASE IterateTimeout
    <2> DEFINE d == CheckCounters(TimerExpired(c))
    <2>1. running /\ Continue(d) /\ s2c' \subseteq s2c /\ c2s' = c2s \cup TimerSends(c)
      BY <1>1 DEF IterateTimeout
    <2>2. Advance(TimerExpired(c))
      BY <2>1, TimerSame, SameAdvances
    <2>3. Advance(d) /\ (~d.finished => Counters(d))
      BY <2>2, ChecksAdvance
    <2>4. \A m \in TimerSends(c) : Justified(m, d)
      BY <2>1, <2>3, TimerSendsRight, StaysRight
    <2> HIDE DEF d
    <2>5. \A m \in c2s' : m \in c2s \/ Justified(m, d)
      BY <2>1, <2>4
    <2>6. TftpInv'
      BY <2>1, <2>3, <2>5, IterationRight
    <2> QED
      BY <2>1, <2>3, <2>6
  <1>2. CASE \E p \in s2c : IteratePacket(p)
    <2>1. PICK p \in s2c : IteratePacket(p)
      BY <1>2
    <2> DEFINE d == CheckCounters(handle_tftp(c, p))
    <2>2. running /\ Continue(d) /\ s2c' \subseteq s2c /\ c2s' = c2s \cup Reply(c, p)
      BY <2>1 DEF IteratePacket
    <2>3. Same(c)
      BY TimerSame
    <2>4. /\ Advance(d) /\ (~d.finished => Counters(d))
          /\ \A m \in Reply(c, p) : Justified(m, d)
      BY <2>2, <2>3, Handled
    <2> HIDE DEF d
    <2>5. \A m \in c2s' : m \in c2s \/ Justified(m, d)
      BY <2>2, <2>4
    <2>6. TftpInv'
      BY <2>2, <2>4, <2>5, IterationRight
    <2> QED
      BY <2>2, <2>4, <2>6
  <1>3. CASE \E p \in s2c : IterateTimeoutPacket(p)
    <2>1. PICK p \in s2c : IterateTimeoutPacket(p)
      BY <1>3
    <2> DEFINE o == TimerExpired(c)
               d == CheckCounters(handle_tftp(o, p))
    <2>2. /\ running /\ Continue(d) /\ s2c' \subseteq s2c
          /\ c2s' = c2s \cup TimerSends(c) \cup Reply(o, p)
      BY <2>1 DEF IterateTimeoutPacket
    <2>3. Same(o)
      BY TimerSame
    <2> HIDE DEF o
    <2>4. /\ Advance(d) /\ (~d.finished => Counters(d))
          /\ \A m \in Reply(o, p) : Justified(m, d)
      BY <2>2, <2>3, Handled
    <2> HIDE DEF d
    <2>5. \A m \in TimerSends(c) : Justified(m, d)
      BY <2>2, <2>4, TimerSendsRight, StaysRight
    <2>6. \A m \in c2s' : m \in c2s \/ Justified(m, d)
      BY <2>2, <2>4, <2>5
    <2>7. TftpInv'
      BY <2>2, <2>4, <2>6, IterationRight
    <2> QED
      BY <2>2, <2>4, <2>7
  <1> QED
    BY <1>1, <1>2, <1>3

\* A step that leaves the client alone.
LEMMA OutsideRight ==
    ASSUME TftpInv, UNCHANGED <<call, running, c, server, outcome>>,
           sessions' \in Seq(Session), Len(sessions') <= MaxSessions,
           call = 0 => sessions' = << >> /\ c2s' = {},
           \A p \in 1 .. Len(sessions') : InStep(sessions'[p], c),
           \A m \in c2s' : Justified(m, c),
           \A m \in s2c' : Expected(m, c)
    PROVE  TftpInv'
  <1>1. Typed' /\ NothingBefore'
    BY DEF TftpInv, Typed, NothingBefore
  <1>2. ClientRight'
    BY DEF TftpInv, ClientRight, Beginning, Counted, Counters, Sized, Bs
  <1>3. RequestsRight'
    BY DEF RequestsRight, Justified, Sized, Units, Bs
  <1>4. SessionsRight'
    BY DEF SessionsRight, InStep, Sized, Units, Bs
  <1>5. PacketsRight'
    BY DEF PacketsRight, Expected, Sized, Block, Units, Bs
  <1> QED
    BY <1>1, <1>2, <1>3, <1>4, <1>5 DEF TftpInv

-----------------------------------------------------------------------------
(* The server and the network *)

\* The number of a session's block has not wrapped, and its data is that block's.
LEMMA SessionBlock ==
    ASSUME OneShortFile, TftpInv, NEW s \in Session, InStep(s, c)
    PROVE  Wire(s.abs) = s.abs /\ BlockData(s) = Block(s.abs)
  <1>1. s.abs \in Nat /\ s.file = 1 /\ s.bs = Bs
    BY DEF Session, InStep
  <1>2. s.abs < BlockMod
    <2>1. CASE s.abs = 0
      BY <2>1, Constants
    <2>2. CASE s.abs > 0
      <3> DEFINE a == s.abs - 1
      <3>1. a \in Nat /\ a * Bs <= FileSize /\ s.abs = a + 1
        BY <1>1, <2>2 DEF InStep
      <3> HIDE DEF a
      <3>2. a <= a * Bs /\ a * Bs \in Nat
        BY <3>1, Constants, Product
      <3> QED
        BY <3>1, <3>2, Constants
    <2> QED
      BY <1>1, <2>1, <2>2
  <1>3. Wire(s.abs) = s.abs
    BY <1>2 DEF Wire
  <1>4. BlockData(s) = Block(s.abs)
    BY <1>1 DEF BlockData, Block, Units, FileSize
  <1> QED
    BY <1>3, <1>4

\* What a session sends is what the client expects.
LEMMA PacketExpected ==
    ASSUME OneShortFile, TftpInv, NEW s \in Session, InStep(s, c), NEW p \in Ports
    PROVE  Expected(CurrentPacket(s, p), c)
  <1>1. s.abs \in Nat /\ s.bs = Bs /\ (server = "plain" => s.abs > 0)
    BY DEF Session, InStep
  <1>2. server \in {"oack", "badoack", "ack", "plain", "missing"}
    BY ServerAssumption DEF TftpInv, Typed
  <1>3. CASE s.abs > 0
    <2>1. CurrentPacket(s, p) = Packet("DATA", p, s.abs, s.abs, Block(s.abs))
      BY <1>3, SessionBlock DEF CurrentPacket
    <2>2. Sized(c) /\ (s.abs - 1) * Bs <= FileSize /\ s.abs <= c.block + 1 /\ c.block \in Nat
      BY <1>3, ClientVars, Constants DEF InStep
    <2>3. s.abs \in 1 .. (c.block + 1)
      BY <1>1, <1>3, <2>2
    <2> QED
      BY <2>1, <2>2, <2>3 DEF Expected, Packet
  <1>4. CASE s.abs = 0
    <2>1. server = "oack" => CurrentPacket(s, p) = Packet("OACK", p, MaxBlocksize, 0, << >>)
      BY <1>1, <1>4 DEF CurrentPacket, Bs
    <2>2. server = "badoack" => CurrentPacket(s, p) = Packet("OACK", p, MaxBlocksize + 1, 0, << >>)
      BY <1>4 DEF CurrentPacket
    <2>3. server = "missing" => CurrentPacket(s, p) = Packet("ERROR", p, 1, 0, << >>)
      BY <1>4 DEF CurrentPacket
    <2>4. server = "ack" => CurrentPacket(s, p) = Packet("ACK", p, 0, 0, << >>)
      BY <1>4 DEF CurrentPacket
    <2>5. server # "plain"
      BY <1>1, <1>4
    <2> QED
      BY <1>2, <2>1, <2>2, <2>3, <2>4, <2>5 DEF Expected, Packet
  <1> QED
    BY <1>1, <1>3, <1>4

\* What the invariant says of the sessions and of the packets.
LEMMA NetworkFacts ==
    ASSUME OneShortFile, TftpInv
    PROVE  /\ sessions \in Seq(Session) /\ Len(sessions) \in Nat /\ Len(sessions) <= MaxSessions
           /\ \A p \in 1 .. Len(sessions) :
                 p \in Ports /\ sessions[p] \in Session /\ InStep(sessions[p], c)
           /\ \A m \in c2s : Justified(m, c)
           /\ \A m \in s2c : Expected(m, c)
           /\ call = 0 => sessions = << >> /\ c2s = {}
           /\ MaxSessions \in Nat
  <1>1. /\ sessions \in Seq(Session) /\ Len(sessions) \in Nat /\ Len(sessions) <= MaxSessions
        /\ MaxSessions \in Nat
    BY Constants DEF TftpInv, Typed
  <1>2. \A p \in 1 .. Len(sessions) : p \in Ports /\ sessions[p] \in Session
    BY <1>1 DEF Ports
  <1> QED
    BY <1>1, <1>2 DEF TftpInv, SessionsRight, RequestsRight, PacketsRight, NothingBefore

\* A session is replaced.
LEMMA SessionReplaced ==
    ASSUME OneShortFile, TftpInv, NEW q \in 1 .. Len(sessions), NEW s \in Session, InStep(s, c),
           sessions' = [sessions EXCEPT ![q] = s]
    PROVE  /\ sessions' \in Seq(Session) /\ Len(sessions') = Len(sessions)
           /\ \A p \in 1 .. Len(sessions') : InStep(sessions'[p], c)
  <1>1. sessions' \in Seq(Session) /\ Len(sessions') = Len(sessions)
    BY NetworkFacts
  <1>2. \A p \in 1 .. Len(sessions) : sessions'[p] = IF p = q THEN s ELSE sessions[p]
    BY NetworkFacts
  <1> QED
    BY <1>1, <1>2, NetworkFacts

LEMMA OpensRight ==
    ASSUME OneShortFile, TftpInv, ServerOpens
    PROVE  TftpInv'
  <1>1. PICK m \in c2s :
          /\ m.op = "RRQ" /\ Len(sessions) < MaxSessions
          /\ sessions' = Append(sessions, NewSession(m.num))
          /\ s2c' = s2c \cup {CurrentPacket(NewSession(m.num), Len(sessions) + 1)}
          /\ c2s' = c2s \ {m}
          /\ UNCHANGED <<call, running, c, server, outcome>>
    BY DEF ServerOpens
  <1> DEFINE s == NewSession(1)
             q == Len(sessions) + 1
  <1>2. m.num = 1
    BY <1>1, NetworkFacts DEF Justified
  <1>3. s \in Session /\ InStep(s, c)
    <2>1. /\ s \in Session /\ s.bs = Bs /\ s.live = TRUE
          /\ s.abs = IF server = "plain" THEN 1 ELSE 0
      BY Constants DEF NewSession, Session, Bs
    <2> HIDE DEF s
    <2>2. c.block \in Nat /\ Len(c.data) \in Nat
      BY ClientVars, Constants
    <2>3. CASE server = "plain"
      <3>1. Sized(c) /\ Bs = 1
        BY <2>3 DEF TftpInv, ClientRight, Sized, Bs
      <3> DEFINE z == 0
      <3>2. z \in Nat /\ z * Bs = 0 /\ z * Bs <= FileSize
        BY Constants
      <3>3. Units(z) = 0
        BY <3>2, UnitsOf
      <3>4. s.abs = 1 /\ s.abs - 1 = z
        BY <2>1, <2>3
      <3> HIDE DEF z
      <3>5. Units(s.abs - 1) <= Len(c.data) /\ (s.abs - 1) * Bs <= FileSize
        BY <2>2, <3>2, <3>3, <3>4
      <3>6. s.abs > 0 /\ s.abs <= c.block + 1
        BY <2>2, <3>4
      <3> QED
        BY <2>1, <3>1, <3>5, <3>6 DEF InStep
    <2>4. CASE server # "plain"
      <3>1. s.abs = 0 /\ ~(s.abs > 0) /\ s.abs <= c.block + 1
        BY <2>1, <2>2, <2>4
      <3> QED
        BY <2>1, <2>4, <3>1 DEF InStep
    <2> QED
      BY <2>1, <2>3, <2>4
  <1>4. q \in Ports
    BY <1>1, NetworkFacts DEF Ports
  <1>5. Expected(CurrentPacket(s, q), c)
    BY <1>3, <1>4, PacketExpected
  <1> HIDE DEF s
  <1>6. /\ sessions' \in Seq(Session) /\ Len(sessions') = q
        /\ \A p \in 1 .. Len(sessions) : sessions'[p] = sessions[p]
        /\ sessions'[q] = s
    BY <1>1, <1>2, <1>3, NetworkFacts DEF s
  <1>7. \A p \in 1 .. Len(sessions') : InStep(sessions'[p], c)
    <2> TAKE p \in 1 .. Len(sessions')
    <2>1. p \in 1 .. Len(sessions) \/ p = q
      BY <1>6, NetworkFacts
    <2> QED
      BY <1>3, <1>6, <2>1, NetworkFacts
  <1>8. \A x \in s2c' : Expected(x, c)
    BY <1>1, <1>2, <1>5, NetworkFacts DEF s
  <1>9. Len(sessions') <= MaxSessions /\ call # 0
    BY <1>1, <1>6, NetworkFacts
  <1>10. \A x \in c2s' : Justified(x, c)
    BY <1>1, NetworkFacts
  <1> QED
    BY <1>1, <1>6, <1>7, <1>8, <1>9, <1>10, OutsideRight

LEMMA AckedRight ==
    ASSUME OneShortFile, TftpInv, ServerAcked
    PROVE  TftpInv'
  <1>1. PICK m \in c2s :
          /\ m.op = "ACK" /\ m.port \in 1 .. Len(sessions)
          /\ LET s == sessions[m.port]
                 expected == s.live /\ m.num = Wire(s.abs)
                 next == [s EXCEPT !.abs = @ + 1, !.tries = 0]
             IN  IF expected /\ ~LastBlock(s)
                 THEN /\ sessions' = [sessions EXCEPT ![m.port] = next]
                      /\ s2c' = Young(s2c, m.port, next.abs) \cup {CurrentPacket(next, m.port)}
                      /\ c2s' = Young(c2s, m.port, next.abs) \ {m}
                 ELSE /\ sessions' = [sessions EXCEPT ![m.port].live = @ /\ ~expected]
                      /\ c2s' = c2s \ {m}
                      /\ UNCHANGED s2c
          /\ UNCHANGED <<call, running, c, server, outcome>>
    BY DEF ServerAcked
  <1> DEFINE s == sessions[m.port]
             expected == s.live /\ m.num = Wire(s.abs)
             next == [s EXCEPT !.abs = @ + 1, !.tries = 0]
             dead == [s EXCEPT !.live = s.live /\ ~expected]
             q == m.port
  <1>2. s \in Session /\ InStep(s, c) /\ q \in Ports
    BY <1>1, NetworkFacts
  <1>3. Sized(c) /\ m.num \in 0 .. c.block /\ Units(m.num) <= Len(c.data) /\ call # 0
    BY <1>1, NetworkFacts DEF Justified
  <1>4. Wire(s.abs) = s.abs /\ BlockData(s) = Block(s.abs)
    BY <1>2, SessionBlock
  <1>5. s.abs \in Nat /\ s.bs = Bs /\ s.live \in BOOLEAN /\ (server = "plain" => s.abs > 0)
    BY <1>2 DEF Session, InStep
  <1>6. CASE expected /\ ~LastBlock(s)
    <2>1. /\ sessions' = [sessions EXCEPT ![q] = next]
          /\ s2c' = Young(s2c, q, next.abs) \cup {CurrentPacket(next, q)}
          /\ c2s' = Young(c2s, q, next.abs) \ {m}
      BY <1>1, <1>6
    <2>2. m.num = s.abs /\ s.live
      BY <1>4, <1>6
    <2>3. s.abs * Bs <= FileSize
      <3>1. CASE s.abs = 0
        <4>1. 0 * Bs = 0 /\ 0 <= FileSize
          BY Constants
        <4> QED
          BY <3>1, <4>1
      <3>2. CASE s.abs > 0
        <4> DEFINE a == s.abs - 1
        <4>1. a \in Nat /\ a * Bs <= FileSize /\ a + 1 = s.abs
          BY <1>2, <1>5, <3>2 DEF InStep
        <4> HIDE DEF a
        <4>2. /\ Block(a + 1) \in Seq(Unit)
              /\ Len(Block(a + 1)) >= Bs => (a + 1) * Bs <= FileSize
          BY <4>1, BlockFollows
        <4>3. ~(Len(Block(a + 1)) < Bs)
          BY <1>4, <1>5, <1>6, <3>2, <4>1 DEF LastBlock
        <4>4. Len(Block(a + 1)) \in Nat /\ Bs \in Nat
          BY <4>2, Constants
        <4>5. (a + 1) * Bs <= FileSize
          BY <4>2, <4>3, <4>4
        <4> QED
          BY <4>1, <4>5
      <3> QED
        BY <1>5, <3>1, <3>2
    <2> HIDE DEF s, expected
    <2>4. /\ next \in Session /\ next.abs = s.abs + 1 /\ next.bs = Bs /\ next.live = TRUE
      <3> DEFINE y == s.abs + 1
      <3>1. y \in Nat /\ s.live = TRUE
        BY <1>5, <2>2
      <3>2. next = [s EXCEPT !.abs = y, !.tries = 0]
        OBVIOUS
      <3> HIDE DEF y, next
      <3>3. next \in Session /\ next.abs = y /\ next.bs = s.bs /\ next.live = s.live
        BY <1>2, <3>1, <3>2 DEF Session
      <3> QED
        BY <1>5, <3>1, <3>3 DEF y
    <2> HIDE DEF next
    <2>5. next.abs - 1 = s.abs /\ next.abs > 0 /\ next.abs <= c.block + 1
      <3>1. s.abs \in Nat /\ s.abs <= c.block /\ c.block \in Nat
        BY <1>3, <1>5, <2>2, ClientVars, Constants
      <3> QED
        BY <2>4, <3>1
    <2>6. InStep(next, c)
      BY <1>3, <2>2, <2>3, <2>4, <2>5 DEF InStep
    <2>7. Expected(CurrentPacket(next, q), c)
      BY <1>2, <2>4, <2>6, PacketExpected
    <2>8. /\ sessions' \in Seq(Session) /\ Len(sessions') = Len(sessions)
          /\ \A p \in 1 .. Len(sessions') : InStep(sessions'[p], c)
      BY <1>1, <2>1, <2>4, <2>6, SessionReplaced
    <2>9. \A x \in s2c' : Expected(x, c)
      BY <2>1, <2>7, NetworkFacts DEF Young
    <2>10. \A x \in c2s' : Justified(x, c)
      BY <2>1, NetworkFacts DEF Young
    <2>11. Len(sessions') <= MaxSessions
      BY <2>8, NetworkFacts
    <2> QED
      BY <1>1, <1>3, <2>8, <2>9, <2>10, <2>11, OutsideRight
  <1>7. CASE ~(expected /\ ~LastBlock(s))
    <2>1. sessions' = [sessions EXCEPT ![q] = dead] /\ c2s' = c2s \ {m} /\ s2c' = s2c
      BY <1>1, <1>7
    <2>2. /\ dead \in Session /\ dead.abs = s.abs /\ dead.bs = Bs
          /\ dead.live = (s.live /\ ~expected)
      BY <1>2, <1>5 DEF Session
    <2>3. expected => m.num = s.abs
      BY <1>4
    <2> HIDE DEF dead, s, expected
    <2>4. InStep(dead, c)
      <3>1. (s.abs > 0 /\ ~dead.live) => Units(s.abs) <= Len(c.data)
        BY <1>2, <1>3, <2>2, <2>3 DEF InStep
      <3> QED
        BY <1>2, <2>2, <3>1 DEF InStep
    <2>5. /\ sessions' \in Seq(Session) /\ Len(sessions') = Len(sessions)
          /\ \A p \in 1 .. Len(sessions') : InStep(sessions'[p], c)
      BY <1>1, <2>1, <2>2, <2>4, SessionReplaced
    <2>6. (\A x \in s2c' : Expected(x, c)) /\ (\A x \in c2s' : Justified(x, c))
      BY <2>1, NetworkFacts
    <2>7. Len(sessions') <= MaxSessions
      BY <2>5, NetworkFacts
    <2> QED
      BY <1>1, <1>3, <2>5, <2>6, <2>7, OutsideRight
  <1> QED
    BY <1>6, <1>7

LEMMA ErrorRight ==
    ASSUME OneShortFile, TftpInv, ServerGetsError
    PROVE  TftpInv'
  <1>1. PICK m \in c2s :
          /\ m.op = "ERROR"
          /\ sessions' = [sessions EXCEPT ![m.port].live = FALSE]
          /\ c2s' = c2s \ {m}
          /\ UNCHANGED <<call, running, c, server, s2c, outcome>>
    BY DEF ServerGetsError
  <1>2. server = "badoack" /\ call # 0
    BY <1>1, NetworkFacts DEF Justified
  <1>3. (\A x \in s2c' : Expected(x, c)) /\ (\A x \in c2s' : Justified(x, c))
    BY <1>1, NetworkFacts
  <1> DEFINE q == m.port
  <1>4. CASE q \in 1 .. Len(sessions)
    <2> DEFINE s == sessions[q]
               dead == [s EXCEPT !.live = FALSE]
    <2>1. s \in Session /\ InStep(s, c)
      BY <1>4, NetworkFacts
    <2>2. sessions' = [sessions EXCEPT ![q] = dead]
      BY <1>1
    <2> HIDE DEF s, q
    <2>3. dead \in Session /\ dead.abs = s.abs /\ dead.bs = s.bs
      BY <2>1 DEF Session
    <2>4. ~(s.abs > 0)
      BY <1>2, <2>1 DEF InStep, Sized
    <2> HIDE DEF dead
    <2>5. InStep(dead, c)
      BY <2>1, <2>3, <2>4 DEF InStep
    <2>6. /\ sessions' \in Seq(Session) /\ Len(sessions') = Len(sessions)
          /\ \A p \in 1 .. Len(sessions') : InStep(sessions'[p], c)
      BY <1>4, <2>2, <2>3, <2>5, SessionReplaced
    <2>7. Len(sessions') <= MaxSessions
      BY <2>6, NetworkFacts
    <2> QED
      BY <1>1, <1>2, <1>3, <2>6, <2>7, OutsideRight
  <1>5. CASE q \notin 1 .. Len(sessions)
    <2>1. sessions' = sessions
      BY <1>1, <1>5, NetworkFacts
    <2> QED
      BY <1>1, <1>2, <1>3, <2>1, NetworkFacts, OutsideRight
  <1> QED
    BY <1>4, <1>5

LEMMA RepeatsRight ==
    ASSUME OneShortFile, TftpInv, ServerRepeats
    PROVE  TftpInv'
  <1>1. PICK q \in 1 .. Len(sessions) :
          /\ sessions[q].live
          /\ sessions' = [sessions EXCEPT ![q].tries = @ + 1]
          /\ s2c' = s2c \cup {CurrentPacket(sessions[q], q)}
          /\ UNCHANGED <<call, running, c, server, c2s, outcome>>
    BY DEF ServerRepeats
  <1> DEFINE s == sessions[q]
             again == [s EXCEPT !.tries = @ + 1]
  <1>2. s \in Session /\ InStep(s, c) /\ q \in Ports
    BY <1>1, NetworkFacts
  <1>3. sessions' = [sessions EXCEPT ![q] = again]
    BY <1>1
  <1>4. call # 0
    BY <1>1, NetworkFacts
  <1>5. Expected(CurrentPacket(s, q), c)
    BY <1>2, PacketExpected
  <1>6. (\A x \in s2c' : Expected(x, c)) /\ (\A x \in c2s' : Justified(x, c))
    BY <1>1, <1>5, NetworkFacts
  <1> HIDE DEF s
  <1>7. again \in Session /\ again.abs = s.abs /\ again.bs = s.bs /\ again.live = s.live
    BY <1>2 DEF Session
  <1> HIDE DEF again
  <1>8. InStep(again, c)
    BY <1>2, <1>7 DEF InStep
  <1>9. /\ sessions' \in Seq(Session) /\ Len(sessions') = Len(sessions)
        /\ \A p \in 1 .. Len(sessions') : InStep(sessions'[p], c)
    BY <1>1, <1>3, <1>7, <1>8, SessionReplaced
  <1>10. Len(sessions') <= MaxSessions
    BY <1>9, NetworkFacts
  <1> QED
    BY <1>1, <1>4, <1>6, <1>9, <1>10, OutsideRight

LEMMA NetworkRight ==
    ASSUME OneShortFile, TftpInv, Lose \/ Unreachable \/ DropPacket
    PROVE  TftpInv'
  <1>1. UNCHANGED <<call, running, c, server, outcome>> /\ sessions' = sessions
        /\ c2s' \subseteq c2s
    BY DEF Lose, Unreachable, DropPacket
  <1>2. \A x \in s2c' : x \in s2c \/ x = Packet("DUN", NoPort, 1, 0, << >>)
    BY DEF Lose, Unreachable, DropPacket
  <1>3. Expected(Packet("DUN", NoPort, 1, 0, << >>), c)
    BY DEF Expected, Packet
  <1>4. (\A x \in s2c' : Expected(x, c)) /\ (\A x \in c2s' : Justified(x, c))
    BY <1>1, <1>2, <1>3, NetworkFacts
  <1> QED
    BY <1>1, <1>4, NetworkFacts, OutsideRight

-----------------------------------------------------------------------------
(* The theorems *)

\* The inductive invariant holds in every reachable state, for every server and network.
THEOREM TftpInvariant ==
    ASSUME OneShortFile
    PROVE  Spec => []TftpInv
  <1>1. Init => TftpInv
    BY InitRight
  <1>2. TftpInv /\ [Next]_vars => TftpInv'
    <2> SUFFICES ASSUME TftpInv, [Next]_vars
                 PROVE  TftpInv'
      OBVIOUS
    <2>1. CASE Client
      BY <2>1, CallRight, ClientRightStep DEF Client
    <2>2. CASE DropPacket \/ Lose \/ Unreachable
      BY <2>2, NetworkRight
    <2>3. CASE ServerOpens
      BY <2>3, OpensRight
    <2>4. CASE ServerAcked
      BY <2>4, AckedRight
    <2>5. CASE ServerGetsError
      BY <2>5, ErrorRight
    <2>6. CASE ServerRepeats
      BY <2>6, RepeatsRight
    <2>7. CASE UNCHANGED vars
      BY <2>7, NetworkFacts, OutsideRight DEF vars
    <2> QED
      BY <2>1, <2>2, <2>3, <2>4, <2>5, <2>6, <2>7 DEF Next
  <1> QED
    BY <1>1, <1>2, PTL DEF Spec

LEMMA StoredFromInvariant ==
    ASSUME OneShortFile, TftpInv
    PROVE  StoredBeforeAcked
  <1>1. TypeOK
    <2>1. call \in 0 .. Len(Files) /\ running \in BOOLEAN /\ outcome \in {"none", "ok", "error"}
      BY DEF OneShortFile, TftpInv, Typed
    <2>2. Len(c.data) <= c.len /\ (running => c.bad_tftp_packets <= Retries /\ c.no_packets <= Retries)
      BY DEF TftpInv, ClientRight, Beginning, Counters
    <2> QED
      BY <2>1, <2>2, ClientVars DEF TypeOK
  <1>2. AckedIsStored
    <2> SUFFICES ASSUME NEW p \in 1 .. Len(sessions)
                 PROVE  LET s == sessions[p]
                            acked == IF s.live \/ s.abs = 0 THEN s.abs - 1 ELSE s.abs
                            units == IF acked * s.bs < Files[s.file] THEN acked * s.bs
                                     ELSE Files[s.file]
                        IN  (s.file = call /\ server \in {"oack", "plain", "ack"} /\ acked > 0)
                                => units <= Len(c.data)
      BY DEF AckedIsStored
    <2> DEFINE s == sessions[p]
               acked == IF s.live \/ s.abs = 0 THEN s.abs - 1 ELSE s.abs
    <2>1. s \in Session /\ InStep(s, c)
      BY NetworkFacts
    <2> HIDE DEF s
    <2>2. s.abs \in Nat /\ s.bs = Bs /\ s.file = 1
      BY <2>1 DEF Session, InStep
    <2>3. acked > 0 => s.abs > 0
      BY <2>2
    <2>4. acked > 0 => Units(acked) <= Len(c.data)
      BY <2>1, <2>3 DEF InStep
    <2>5. Units(acked) = IF acked * s.bs < Files[s.file] THEN acked * s.bs ELSE Files[s.file]
      BY <2>2 DEF Units, FileSize
    <2> HIDE DEF acked
    <2>6. acked > 0 => (IF acked * s.bs < Files[s.file] THEN acked * s.bs ELSE Files[s.file]) <= Len(c.data)
      BY <2>4, <2>5
    <2> QED
      BY <2>6 DEF s, acked
  <1>3. NoBlockMissed
    BY DEF TftpInv, ClientRight, NoBlockMissed
  <1> QED
    BY <1>1, <1>2, <1>3 DEF StoredBeforeAcked

\* The client acknowledges only what it has stored, and repeated or late packets make it
\* neither skip a block nor give up (handle_tftp).
THEOREM AckedOnlyStored ==
    ASSUME OneShortFile
    PROVE  Spec => []StoredBeforeAcked
  <1>1. TftpInv => StoredBeforeAcked
    BY StoredFromInvariant
  <1> QED
    BY <1>1, TftpInvariant, PTL

\* An iteration stores the next bytes of the file, or none, and goes on or returns.
LEMMA IterationProgresses ==
    ASSUME OneShortFile, TftpInv, running, NEW d, Advance(d), Continue(d)
    PROVE  Transfer!Progress
  <1>1. call = 1 /\ call' = call /\ c' = d /\ running' = ~d.finished
    BY DEF TftpInv, Typed, NothingBefore, Continue
  <1>2. outcome' = IF ~d.finished THEN "none" ELSE IF d.errno # 0 THEN "error" ELSE "ok"
    BY DEF Continue
  <1>3. d.finished \in BOOLEAN
    BY DEF Advance, Vars
  <1>4. Transfer!Content(1) = Content(1)
    BY DEF Transfer!Content, Content
  <1> DEFINE n == Len(d.data)
  <1>5. n \in Len(c.data) .. FileSize /\ d.data = SubSeq(Content(1), 1, n)
    BY ClientVars, Constants, SMTT(30) DEF Advance, Beginning
  <1>6. \E x \in Len(c.data) .. Files[call] : c'.data = SubSeq(Transfer!Content(call), 1, x)
    BY <1>1, <1>4, <1>5 DEF FileSize
  <1>7. (d.finished /\ d.errno = 0) => c'.data = Transfer!Content(call)
    BY <1>1, <1>4 DEF Advance
  <1>8. \/ running' = TRUE /\ outcome' = "none"
        \/ running' = FALSE /\ outcome' = "error"
        \/ running' = FALSE /\ outcome' = "ok" /\ c'.data = Transfer!Content(call)
    BY <1>1, <1>2, <1>3, <1>7
  <1> QED
    BY <1>1, <1>6, <1>8 DEF Transfer!Progress

\* The client implements FileTransfer: what it stores are the bytes of the requested file
\* in order and without gaps, and a call that returns a length has stored all of them
\* (tftp, handle_tftp).
THEOREM ClientDelivers ==
    ASSUME OneShortFile
    PROVE  Spec => DeliversFile
  <1>1. Init => Transfer!Init
    BY DEF Init, Fresh, Transfer!Init
  <1>2. TftpInv /\ [Next]_vars => [Transfer!Next]_Transfer!vars
    <2> SUFFICES ASSUME TftpInv, [Next]_vars
                 PROVE  [Transfer!Next]_Transfer!vars
      OBVIOUS
    <2>1. CASE tftp
      <3>1. \A len : [Fresh EXCEPT !.len = len].data = << >>
        BY DEF Fresh
      <3> QED
        BY <2>1, <3>1 DEF tftp, Transfer!Next, Transfer!Begin
    <2>2. CASE IterateTimeout \/ \E p \in s2c : IteratePacket(p) \/ IterateTimeoutPacket(p)
      BY <2>2, ClientRightStep, IterationProgresses DEF Transfer!Next
    <2>3. CASE DropPacket \/ Lose \/ Unreachable \/ ServerOpens \/ ServerAcked
                \/ ServerGetsError \/ ServerRepeats \/ UNCHANGED vars
      <3>1. UNCHANGED <<call, running, c, outcome>>
        BY <2>3 DEF DropPacket, Lose, Unreachable, ServerOpens, ServerAcked, ServerGetsError,
                    ServerRepeats, vars
      <3> QED
        BY <3>1 DEF Transfer!vars
    <2> QED
      BY <2>1, <2>2, <2>3 DEF Next, Client
  <1> QED
    BY <1>1, <1>2, TftpInvariant, PTL DEF Spec, DeliversFile, Transfer!Spec
=============================================================================
