-------------------------------- MODULE Tftp --------------------------------
(***************************************************************************)
(* The TFTP client of lib/libnet/tftp.c, against a server and a network    *)
(* that loses, delays and reorders packets.  The client is one loop in     *)
(* tftp(): look at the timer, let receive_ether() handle at most one       *)
(* packet, look at the two error counters.                                 *)
(*                                                                         *)
(* A file is a sequence of units; the default block size of 512 bytes is   *)
(* one unit, the negotiated one MaxBlocksize units.  A block's number on   *)
(* the wire has BlockMod values (2^16 in the code).  The server and the    *)
(* network are modelled from what the client expects of them: a session    *)
(* per read request, on a port of its own, that sends the next block when  *)
(* the last one is acknowledged and repeats the last packet otherwise.     *)
(*                                                                         *)
(* A packet carries the absolute number of its block, abs, which neither   *)
(* side looks at: a packet disappears when its session is Lifetime blocks  *)
(* further.                                                                *)
(***************************************************************************)
EXTENDS Integers, Sequences, FiniteSets

CONSTANTS
    Files,          \* files loaded one after the other: their sizes in units
    BlockMod,       \* number of values of a block number
    MaxBlocksize,   \* MAX_BLOCKSIZE
    BufLens,        \* sizes of the destination buffer
    Retries,        \* argument of tftp()
    HelpAfter,      \* timeouts before the client repeats its last ACK (4)
    RrqEvery,       \* the read request is repeated at every RrqEvery-th timeout (4)
    ServerKinds,    \* what servers there are, see CurrentPacket
    WrapTo,         \* the block number that follows the highest one: 0 or 1
    MaxSessions,    \* bound on the read requests the server answers
    MaxTries,       \* a session repeats a packet at most so often
    Lifetime        \* see above

ASSUME FilesAssumption == Files \in Seq(Nat)
ASSUME BlockModAssumption == BlockMod \in Nat /\ BlockMod > 2 /\ Lifetime \in 1 .. (BlockMod - 2)
ASSUME SizeAssumption == MaxBlocksize \in Nat \ {0} /\ BufLens \subseteq Nat
ASSUME CounterAssumption ==
    Retries \in Nat /\ HelpAfter \in Nat /\ RrqEvery \in Nat \ {0} /\ MaxTries \in Nat
ASSUME ServerAssumption ==
    /\ ServerKinds \subseteq {"oack", "badoack", "ack", "plain", "missing"}
    /\ WrapTo \in {0, 1}
    /\ MaxSessions \in Nat

VARIABLES
    call,        \* number of the tftp() call
    running,     \* buffer # INVALID_BUFFER
    c,           \* the client's static variables
    server,      \* the kind of the server
    sessions,    \* the server's sessions; a session's number is its port
    c2s, s2c,    \* packets under way
    outcome      \* what the last call returned: "none", "ok" or "error"

vars == <<call, running, c, server, sessions, c2s, s2c, outcome>>

NoPort == 0
Ports == 1 .. MaxSessions
StrayPort == MaxSessions + 1    \* somebody else's

\* The assignments at the start of tftp().
Fresh ==
    [block |-> 0, blocksize |-> 1, data |-> <<>>, finished |-> FALSE, errno |-> 0,
     port_number |-> NoPort, bad_tftp_packets |-> 0, no_packets |-> 0, len |-> 0]

Packet(op, port, num, abs, data) ==
    [op |-> op, port |-> port, num |-> num, abs |-> abs, data |-> data]

\* A packet with an unknown opcode.
Junk == Packet("JUNK", StrayPort, 0, 0, <<>>)

Content(k) == [i \in 1 .. Files[k] |-> <<k, i>>]

Init ==
    /\ call = 0
    /\ running = FALSE
    /\ c = Fresh
    /\ server \in ServerKinds
    /\ sessions = <<>>
    /\ c2s = {}
    /\ s2c \in SUBSET {Junk}
    /\ outcome = "none"

-----------------------------------------------------------------------------
(* The client *)

send_rrq == {Packet("RRQ", NoPort, call, 0, <<>>)}

send_ack(num, port, abs) == {Packet("ACK", port, num, abs, <<>>)}

send_error(port) == {Packet("ERROR", port, 8, 0, <<>>)}

Failed(cl, errno) == [cl EXCEPT !.errno = errno, !.finished = TRUE]

Bad(cl) == [cl EXCEPT !.bad_tftp_packets = @ + 1]

\* Variant: a block is taken for the next one whatever its number.
VerdictAnyNumber(block, num) == IF num = block THEN "repeat" ELSE "next"

\* What handle_tftp makes of a data packet's number.
Verdict(block, num) ==
    IF num = block + 1 \/ (block = BlockMod - 1 /\ num \in {0, 1}) THEN "next"
    ELSE CASE num = block -> "repeat"
           [] num < block -> "old"
           [] num > block -> "gap"

\* The next block: it must fit into the buffer; a short one is the last one.
Store(cl, p) ==
    LET counted == [cl EXCEPT !.block = p.num, !.bad_tftp_packets = 0]
    IN  IF Len(cl.data) + Len(p.data) > cl.len
        THEN Failed(counted, -2)
        ELSE [counted EXCEPT !.data = @ \o p.data,
                             !.finished = Len(p.data) < cl.blocksize]

\* Error codes of an ERROR packet.
ErrorOf(num) == CASE num = 1 -> -3 [] num = 2 -> -4 [] num = 4 -> -5
                  [] num = 5 -> -6 [] num = 7 -> -7 [] OTHER -> -1

\* The client's variables after handle_tftp (or handle_tftp_dun) for packet p.
handle_tftp(old, p) ==
    LET cl == [old EXCEPT !.port_number = p.port]
    IN  CASE p.op = "OACK" ->
               IF p.num \in 1 .. MaxBlocksize
               THEN [cl EXCEPT !.blocksize = p.num]
               ELSE Failed([cl EXCEPT !.blocksize = p.num], -8)
          [] p.op = "ACK" -> [cl EXCEPT !.blocksize = 1]
          [] p.op = "ERROR" -> Failed(cl, ErrorOf(p.num))
          [] p.op = "DATA" ->
               (CASE Verdict(cl.block, p.num) = "next" -> Store(cl, p)
                  [] Verdict(cl.block, p.num) = "gap" -> Failed(cl, -42)
                  [] OTHER -> Bad(cl))
          [] p.op = "DUN" -> Failed(old, -10 - p.num)
          [] OTHER -> Bad(cl)

\* Variant: a block is acknowledged before it is known to fit.
ReplyBeforeCheck(cl, p) ==
    CASE p.op = "OACK" /\ p.num \notin 1 .. MaxBlocksize -> send_error(p.port)
      [] p.op = "OACK" /\ p.num \in 1 .. MaxBlocksize -> send_ack(0, p.port, 0)
      [] p.op = "ACK" -> send_ack(0, p.port, 0)
      [] p.op = "DATA" /\ Verdict(cl.block, p.num) \in {"next", "repeat"} ->
           send_ack(p.num, p.port, p.abs)
      [] OTHER -> {}

\* What handle_tftp sends for packet p.
Reply(cl, p) ==
    CASE p.op = "OACK" /\ p.num \notin 1 .. MaxBlocksize -> send_error(p.port)
      [] p.op = "OACK" /\ p.num \in 1 .. MaxBlocksize -> send_ack(0, p.port, 0)
      [] p.op = "ACK" -> send_ack(0, p.port, 0)
      [] p.op = "DATA" /\ Verdict(cl.block, p.num) = "next" ->
           IF Store(cl, p).errno = 0 THEN send_ack(p.num, p.port, p.abs) ELSE {}
      [] p.op = "DATA" /\ Verdict(cl.block, p.num) = "repeat" ->
           send_ack(p.num, p.port, p.abs)
      [] OTHER -> {}

\* Variant: a timeout is not counted.
UncountedTimer(cl) == cl

\* The timer has expired: the timeout is counted.
TimerExpired(cl) == [cl EXCEPT !.no_packets = @ + 1]

\* What the client sends when the timer has expired.
TimerSends(cl) ==
    IF cl.no_packets > HelpAfter /\ cl.port_number # NoPort /\ cl.block > 1
    THEN send_ack(cl.block, cl.port_number, Len(cl.data) \div cl.blocksize)
    ELSE IF cl.port_number = NoPort /\ cl.block = 0 /\ cl.no_packets % RrqEvery = RrqEvery - 1
         THEN send_rrq
         ELSE {}

\* The two checks at the end of an iteration.
CheckCounters(cl) ==
    IF cl.bad_tftp_packets > Retries THEN Failed(cl, -40)
    ELSE IF cl.no_packets > Retries THEN Failed(cl, -41) ELSE cl

\* The end of an iteration: go on, or return.
Continue(cl) ==
    /\ c' = cl
    /\ running' = ~cl.finished
    /\ outcome' = IF ~cl.finished THEN "none" ELSE IF cl.errno # 0 THEN "error" ELSE "ok"
    /\ UNCHANGED <<call, server, sessions>>

\* tftp() is called for the next file.
tftp ==
    /\ ~running
    /\ call < Len(Files)
    /\ call' = call + 1
    /\ running' = TRUE
    /\ \E len \in BufLens : c' = [Fresh EXCEPT !.len = len]
    /\ outcome' = "none"
    /\ c2s' = c2s \cup {Packet("RRQ", NoPort, call + 1, 0, <<>>)}
    /\ UNCHANGED <<server, sessions, s2c>>

\* An iteration in which the timer has expired and no packet is there.
IterateTimeout ==
    /\ running
    /\ c2s' = c2s \cup TimerSends(c)
    /\ Continue(CheckCounters(TimerExpired(c)))
    /\ UNCHANGED s2c

\* An iteration that handles packet p.
IteratePacket(p) ==
    /\ running
    /\ s2c' = s2c \ {p}
    /\ c2s' = c2s \cup Reply(c, p)
    /\ Continue(CheckCounters(handle_tftp(c, p)))

\* An iteration in which the timer has expired and a packet is there as well.
IterateTimeoutPacket(p) ==
    /\ running
    /\ s2c' = s2c \ {p}
    /\ c2s' = c2s \cup TimerSends(c) \cup Reply(TimerExpired(c), p)
    /\ Continue(CheckCounters(handle_tftp(TimerExpired(c), p)))

\* A packet that arrives while no transfer is running: handle_tftp returns at once.
DropPacket ==
    /\ ~running
    /\ \E p \in s2c : s2c' = s2c \ {p}
    /\ UNCHANGED <<call, running, c, server, sessions, c2s, outcome>>

-----------------------------------------------------------------------------
(* The server and the network *)

Wire(abs) ==
    IF abs < BlockMod THEN abs
    ELSE WrapTo + ((abs - BlockMod) % (BlockMod - WrapTo))

BlockData(s) ==
    SubSeq(Content(s.file), (s.abs - 1) * s.bs + 1,
           IF s.abs * s.bs < Files[s.file] THEN s.abs * s.bs ELSE Files[s.file])

LastBlock(s) == s.abs > 0 /\ Len(BlockData(s)) < s.bs

NewSession(k) ==
    [file |-> k, abs |-> IF server = "plain" THEN 1 ELSE 0,
     bs |-> IF server = "oack" THEN MaxBlocksize ELSE 1,
     live |-> TRUE, tries |-> 0]

\* The packet session s on port p is to send, or to repeat.
CurrentPacket(s, p) ==
    IF s.abs > 0 THEN Packet("DATA", p, Wire(s.abs), s.abs, BlockData(s))
    ELSE CASE server = "oack" -> Packet("OACK", p, s.bs, 0, <<>>)
           [] server = "badoack" -> Packet("OACK", p, MaxBlocksize + 1, 0, <<>>)
           [] server = "missing" -> Packet("ERROR", p, 1, 0, <<>>)
           [] OTHER -> Packet("ACK", p, 0, 0, <<>>)

\* The packets of port p that are not too old once block n is sent.
Young(net, p, n) == {m \in net : m.port # p \/ m.abs + Lifetime > n}

\* A read request opens a session and is answered.
ServerOpens ==
    \E m \in c2s :
        /\ m.op = "RRQ"
        /\ Len(sessions) < MaxSessions
        /\ LET s == NewSession(m.num) IN
             /\ sessions' = Append(sessions, s)
             /\ s2c' = s2c \cup {CurrentPacket(s, Len(sessions) + 1)}
        /\ c2s' = c2s \ {m}
        /\ UNCHANGED <<call, running, c, server, outcome>>

\* An acknowledgement of the last packet moves a session on; others are ignored.
ServerAcked ==
    \E m \in c2s :
        /\ m.op = "ACK"
        /\ m.port \in 1 .. Len(sessions)
        /\ LET s == sessions[m.port]
               expected == s.live /\ m.num = Wire(s.abs)
               next == [s EXCEPT !.abs = @ + 1, !.tries = 0]
           IN  IF expected /\ ~LastBlock(s)
               THEN /\ sessions' = [sessions EXCEPT ![m.port] = next]
                    /\ s2c' = Young(s2c, m.port, next.abs) \cup {CurrentPacket(next, m.port)}
                    /\ c2s' = Young(c2s, m.port, next.abs) \ {m}
               ELSE /\ sessions' = [sessions EXCEPT ![m.port].live = @ /\ ~expected]
                    /\ c2s' = c2s \ {m}
                    /\ UNCHANGED s2c
        /\ UNCHANGED <<call, running, c, server, outcome>>

ServerGetsError ==
    \E m \in c2s :
        /\ m.op = "ERROR"
        /\ sessions' = [sessions EXCEPT ![m.port].live = FALSE]
        /\ c2s' = c2s \ {m}
        /\ UNCHANGED <<call, running, c, server, s2c, outcome>>

ServerRepeats ==
    \E p \in 1 .. Len(sessions) :
        /\ sessions[p].live /\ sessions[p].tries < MaxTries
        /\ sessions' = [sessions EXCEPT ![p].tries = @ + 1]
        /\ s2c' = s2c \cup {CurrentPacket(sessions[p], p)}
        /\ UNCHANGED <<call, running, c, server, c2s, outcome>>

Lose ==
    /\ \/ \E m \in c2s : c2s' = c2s \ {m} /\ UNCHANGED s2c
       \/ \E m \in s2c : s2c' = s2c \ {m} /\ UNCHANGED c2s
    /\ UNCHANGED <<call, running, c, server, sessions, outcome>>

\* A router answers a packet with "destination unreachable".
Unreachable ==
    \E m \in c2s :
        /\ c2s' = c2s \ {m}
        /\ s2c' = s2c \cup {Packet("DUN", NoPort, 1, 0, <<>>)}
        /\ UNCHANGED <<call, running, c, server, sessions, outcome>>

Client ==
    \/ tftp \/ IterateTimeout
    \/ \E p \in s2c : IteratePacket(p) \/ IterateTimeoutPacket(p)

Next ==
    \/ Client \/ DropPacket
    \/ ServerOpens \/ ServerAcked \/ ServerGetsError \/ ServerRepeats
    \/ Lose \/ Unreachable

\* The client's loop runs; its timer expires when nothing arrives.
Fairness ==
    /\ WF_vars(\E p \in s2c : IteratePacket(p))
    /\ WF_vars(s2c = {} /\ IterateTimeout)

Spec == Init /\ [][Next]_vars /\ Fairness

-----------------------------------------------------------------------------

\* The client's variables have their types; the error counters never pass the limit.
TypeOK ==
    /\ call \in 0 .. Len(Files)
    /\ running \in BOOLEAN
    /\ c.block \in 0 .. (BlockMod - 1)
    /\ c.blocksize \in 1 .. (MaxBlocksize + 1)
    /\ Len(c.data) <= c.len
    /\ running => c.bad_tftp_packets <= Retries /\ c.no_packets <= Retries
    /\ c.port_number \in Ports \cup {NoPort, StrayPort}
    /\ outcome \in {"none", "ok", "error"}

\* What is stored is always a beginning of the requested file, and a call that
\* returns a length has stored the whole file.
Transfer == INSTANCE FileTransfer WITH stored <- c.data
DeliversFile == Transfer!Spec

\* "NON ZERO - size of received file": a call that returns a length has put the
\* requested file, and nothing else, into the buffer.
SuccessIsWholeFile == (outcome = "ok") => c.data = Content(call)

\* The server takes a block for delivered only if the client has stored it: nothing
\* is acknowledged early, however packets are repeated or overtake each other.
AckedIsStored ==
    \A p \in 1 .. Len(sessions) :
        LET s == sessions[p]
            acked == IF s.live \/ s.abs = 0 THEN s.abs - 1 ELSE s.abs
            units == IF acked * s.bs < Files[s.file] THEN acked * s.bs ELSE Files[s.file]
        IN  (s.file = call /\ server \in {"oack", "plain", "ack"} /\ acked > 0)
                => units <= Len(c.data)

\* "this happens sometimes if we don't answer fast enough [...] as we already have
\* this packet we just ignore it": no repeated packet ends the transfer.  (A block can
\* not be missing: the server waits for the acknowledgement of every block.)
NoBlockMissed == c.errno # -42

\* The client acknowledges only what it has stored, and repeated or late packets make
\* it neither skip a block nor give up (handle_tftp).
StoredBeforeAcked == TypeOK /\ AckedIsStored /\ NoBlockMissed

\* A call returns, whatever the server and the network do.
Returns == running ~> ~running
=============================================================================
