--------------------------------- MODULE P9 ---------------------------------
(***************************************************************************)
(* Loading a file over 9P: lib/libvirtio/p9.c and virtio-9p.c.  One        *)
(* request at a time goes through the virtqueue; the driver polls for its  *)
(* answer and gives up after a while, without taking the request back.     *)
(* All requests share one receive buffer, and all but the first of a       *)
(* session share one tag.                                                  *)
(*                                                                         *)
(* A path is a sequence of element names and slashes; sizes are in bytes,  *)
(* file contents in blocks of Block bytes.                                 *)
(***************************************************************************)
EXTENDS Integers, Sequences, FiniteSets, SequencesExt, TLC

CONSTANTS PathSet,      \* paths a user may ask for
          Files,        \* the server's files: resolved path -> length in blocks
          BufSize,      \* size of the message buffers (VIRTFS-BUF-SIZE)
          MSizes,       \* message sizes a server may offer
          Block,        \* bytes in one block
          MaxElmt,      \* MSG_WALK_MAX_ELMT
          MaxLoads,     \* bound: loads
          MaxLate       \* bound: polls given up

VARIABLES fpc,          \* where virtio_9p_load is
          buf_size,     \* __buf_size: also marks the device as open
          conn,         \* connection: message_size, path, position, start fid, offset, rc
          pend,         \* requests the server has not answered
          rx,           \* the receive buffer: the latest answer since it was cleared
          srv,          \* the server's session: message size, fids
          data,         \* blocks loaded
          loads,        \* loads and given-up polls so far
          result        \* the latest load's result

vars == <<fpc, buf_size, conn, pend, rx, srv, data, loads, result>>

ROOT_FID == 1
FILE_FID == 2
NOTAG == 65535
TAG == 1
NoMsg == [type |-> "none", tag |-> 0]
TooLong == [type |-> "too_long", tag |-> 0]

NameLen(e) == IF e = "long" THEN 64 ELSE 1
TxFixed == [version |-> 21, attach |-> 33, walk |-> 17, stat |-> 11, open |-> 12,
            read |-> 23, clunk |-> 11]

Init ==
  /\ fpc = "closed" /\ buf_size = 0
  /\ conn = [msize |-> 0, path |-> << >>, start |-> ROOT_FID, length |-> 0,
             offset |-> 0, rc |-> 0, names |-> << >>, rest |-> << >>]
  /\ pend = << >> /\ rx = NoMsg
  /\ srv = [msize |-> 0, fids |-> << >>]
  /\ data = << >> /\ loads = [n |-> 0, late |-> 0] /\ result = [rc |-> -1, want |-> << >>]

-----------------------------------------------------------------------------
(* The walk's message: the elements that fit, and the rest of the path.    *)
Elements(path) == SelectSeq([i \in 1 .. Len(path) |-> i], LAMBDA i : path[i] # "/")
Sent(path) == SelectSeq(Elements(path), LAMBDA i : path[i] # ".")

TxSize(path, k) ==
  FoldLeft(LAMBDA n, i : n + 2 + NameLen(path[i]), TxFixed.walk, SubSeq(Sent(path), 1, k))
RxSize(k) == k * 13 + 9
Fits(path, k, msize) == TxSize(path, k) <= msize /\ RxSize(k) <= msize

WalkCount(path, msize) ==
  LET fit == {k \in 1 .. Len(Sent(path)) : \A j \in 1 .. k : Fits(path, j, msize)}
      n == Cardinality(fit)
  IN IF n < MaxElmt THEN n ELSE MaxElmt

From(path, i) == SubSeq(path, i, Len(path))

SkippedElement(path, n, msize) ==
  IF n < Len(Sent(path)) THEN From(path, Sent(path)[n + 1] + 1) ELSE << >>

\* Where e_tok stands: behind the last element allowed, before the slash of the
\* first that does not fit, or at the end.
RestAfter(path, n, msize) ==
  IF n = MaxElmt THEN From(path, Sent(path)[n] + 1)
  ELSE IF n < Len(Sent(path))
  THEN LET i == Sent(path)[n + 1] IN
       From(path, IF i > 1 /\ path[i - 1] = "/" THEN i - 1 ELSE i)
  ELSE << >>

\* After an answer with fewer elements: counted again from the start, now with
\* the elements "." that were not sent.
RestAfterPartial(path, k) ==
  IF k = 0 THEN path ELSE From(path, Elements(path)[k] + 1)

-----------------------------------------------------------------------------
(* Sending, polling and the checks of p9_transaction.                      *)
p9_transaction(msg, size) ==
  \* tx_size > message_size: nothing is sent
  IF size > conn.msize
  THEN rx' = TooLong /\ UNCHANGED pend
  ELSE /\ rx' = NoMsg /\ pend' = Append(pend, msg)

Msg(type) == [type |-> type, tag |-> IF type = "version" THEN NOTAG ELSE TAG]

TagChecked(type) == rx.tag = Msg(type).tag

\* The answer has our tag and our type.
AnswerOK(type) == TagChecked(type) /\ rx.type = type

Ask(type, waiting, extra) ==
  /\ fpc' = waiting
  /\ p9_transaction(Msg(type) @@ extra, TxFixed[type])

\* The poll has ended: with an answer in the buffer, or given up with a clear
\* one (whose tag then fails the check).
PollEnds ==
  \/ rx # NoMsg /\ UNCHANGED loads
  \/ rx = NoMsg /\ loads.late < MaxLate /\ loads' = [loads EXCEPT !.late = @ + 1]

\* The counter reached zero in the poll that saw the answer: taken for a timeout.
PollMiscounted == rx # NoMsg /\ loads.late < MaxLate /\ loads' = [loads EXCEPT !.late = @ + 1]

-----------------------------------------------------------------------------
(* Opening and closing.                                                    *)
virtio_9p_init ==
  /\ fpc = "closed" /\ buf_size = 0
  /\ buf_size' = BufSize
  /\ fpc' \in {"open", "closed"}     \* "closed": negotiation or queue failed
  /\ pend' = << >> /\ UNCHANGED <<conn, rx, srv, data, loads, result>>

virtio_9p_shutdown ==
  /\ fpc = "open"
  /\ fpc' = "closed" /\ buf_size' = 0 /\ pend' = << >>
  /\ UNCHANGED <<conn, rx, srv, data, loads, result>>

-----------------------------------------------------------------------------
(* virtio_9p_load, one action per request and per answer.                  *)
Load(path) ==
  /\ fpc = "open" /\ loads.n < MaxLoads
  /\ loads' = [loads EXCEPT !.n = @ + 1]
  /\ conn' = [msize |-> buf_size, path |-> path, start |-> ROOT_FID, length |-> 0,
              offset |-> 0, rc |-> 0, names |-> << >>, rest |-> << >>]
  /\ data' = << >> /\ result' = [rc |-> -1, want |-> path]
  /\ fpc' = "version"
  /\ rx' = NoMsg /\ pend' = Append(pend, Msg("version") @@ [msize |-> buf_size])
  /\ UNCHANGED <<buf_size, srv>>

MinOf(a, b) == IF a < b THEN a ELSE b

\* A failed request: rc is set and the connection is given up.
Fails(to) ==
  /\ conn' = [conn EXCEPT !.rc = -1]
  /\ Ask("clunk", to, [fid |-> IF to = "clunk_file" THEN FILE_FID ELSE ROOT_FID])
  /\ UNCHANGED data

Received(type, to, ok) ==
  /\ fpc = type
  /\ \/ PollEnds /\ IF AnswerOK(type) THEN ok ELSE Fails(to)
     \/ PollMiscounted /\ Fails(to)
  /\ UNCHANGED <<buf_size, srv, result>>

p9_version ==
  Received("version", "clunk_conn",
    /\ conn' = [conn EXCEPT !.msize = MinOf(@, rx.msize), !.rc = IF rx.known THEN 0 ELSE -2]
    /\ UNCHANGED data
    /\ IF rx.known
       THEN IF TxFixed.attach > conn'.msize
            THEN fpc' = "attach" /\ rx' = TooLong /\ UNCHANGED pend
            ELSE fpc' = "attach" /\ rx' = NoMsg
                 /\ pend' = Append(pend, Msg("attach") @@ [fid |-> ROOT_FID])
       ELSE fpc' = "clunk_conn" /\ rx' = NoMsg
            /\ pend' = Append(pend, Msg("clunk") @@ [fid |-> ROOT_FID]))

\* The walk starts at the root and is continued from the file's fid; nothing
\* that fits is an error, unless the path is empty.
SendWalk(c) ==
  LET n == WalkCount(c.path, c.msize)
      names == [i \in 1 .. n |-> c.path[Sent(c.path)[i]]]
  IN IF n = 0 /\ c.path # << >>
     THEN /\ conn' = [c EXCEPT !.rc = -1]
          /\ fpc' = "clunk_conn" /\ rx' = NoMsg
          /\ pend' = Append(pend, Msg("clunk") @@ [fid |-> ROOT_FID])
     ELSE /\ conn' = [c EXCEPT !.names = names, !.rest = RestAfter(c.path, n, c.msize)]
          /\ fpc' = "walk" /\ rx' = NoMsg
          /\ pend' = Append(pend, Msg("walk") @@ [fid |-> c.start, newfid |-> FILE_FID, names |-> names])

p9_attach == Received("attach", "clunk_conn", SendWalk(conn) /\ UNCHANGED data)

p9_walk ==
  Received("walk", "clunk_conn",
    LET rest == IF rx.count # Len(conn.names) THEN RestAfterPartial(conn.path, rx.count)
                ELSE conn.rest
    IN /\ UNCHANGED data
       /\ IF rest # << >>
          THEN SendWalk([conn EXCEPT !.path = rest, !.start = FILE_FID])
          ELSE /\ conn' = [conn EXCEPT !.path = << >>]
               /\ Ask("stat", "stat", [fid |-> FILE_FID]))

p9_stat ==
  Received("stat", "clunk_file",
    /\ conn' = [conn EXCEPT !.length = rx.length]
    /\ Ask("open", "open_file", [fid |-> FILE_FID]) /\ UNCHANGED data)

ReadCount(c) == MinOf((c.msize - 11) \div Block, c.length - c.offset)

ReadNext(c) ==
  IF c.offset < c.length
  THEN /\ conn' = c
       /\ Ask("read", "read", [fid |-> FILE_FID, offset |-> c.offset, count |-> ReadCount(c)])
  ELSE conn' = c /\ Ask("clunk", "clunk_file", [fid |-> FILE_FID])

p9_open ==
  /\ fpc = "open_file"
  /\ \/ PollEnds /\ IF AnswerOK("open") THEN ReadNext(conn) /\ UNCHANGED data ELSE Fails("clunk_file")
     \/ PollMiscounted /\ Fails("clunk_file")
  /\ UNCHANGED <<buf_size, srv, result>>

\* An empty answer ends the file.
p9_read ==
  Received("read", "clunk_file",
    IF Len(rx.blocks) > ReadCount(conn) THEN Fails("clunk_file")
    ELSE /\ data' = data \o rx.blocks
         /\ IF rx.blocks = << >>
            THEN UNCHANGED conn /\ Ask("clunk", "clunk_file", [fid |-> FILE_FID])
            ELSE ReadNext([conn EXCEPT !.offset = @ + Len(rx.blocks)]))

\* The results of the clunks are not looked at.
p9_clunk ==
  /\ \/ /\ fpc = "clunk_file" /\ (PollEnds \/ PollMiscounted)
        /\ Ask("clunk", "clunk_conn", [fid |-> ROOT_FID]) /\ UNCHANGED result
     \/ /\ fpc = "clunk_conn" /\ (PollEnds \/ PollMiscounted)
        /\ fpc' = "open" /\ UNCHANGED <<rx, pend>>
        /\ result' = [result EXCEPT !.rc = IF conn.rc = 0 THEN conn.offset ELSE conn.rc]
  /\ UNCHANGED <<buf_size, conn, srv, data>>

-----------------------------------------------------------------------------
(* The server (external) answers the oldest request, at any time, with the *)
(* result or with an error.                                                *)
Resolved(path) == SelectSeq(path, LAMBDA e : e \notin {"/", "."})
IsPrefixOfFile(p) == \E f \in DOMAIN Files : IsPrefix(p, f)
Content(f) == IF f \in DOMAIN Files THEN [i \in 1 .. Files[f] |-> <<f, i>>] ELSE << >>

\* (the answer no longer matters to a transaction that sent nothing)
Put(answer) == rx' = IF rx = TooLong THEN rx ELSE answer
Reply(msg, body) == Put(Msg(msg.type) @@ body)

Known(fid) == fid \in DOMAIN srv.fids
SetFid(fid, p) == [f \in DOMAIN srv.fids \cup {fid} |-> IF f = fid THEN p ELSE srv.fids[f]]

ServeVersion(m) ==
  \E s \in MSizes, known \in BOOLEAN :
    /\ srv' = [msize |-> MinOf(s, m.msize), fids |-> << >>]
    /\ Reply(m, [msize |-> s, known |-> known])

ServeAttach(m) ==
  srv' = [srv EXCEPT !.fids = SetFid(m.fid, << >>)] /\ Reply(m, [none |-> 0])

\* As many elements as exist; the new fid is set only if all do.
ServeWalk(m) ==
  /\ Known(m.fid)
  /\ LET p == srv.fids[m.fid]
         ok == {k \in 0 .. Len(m.names) : IsPrefixOfFile(p \o SubSeq(m.names, 1, k))}
         n == CHOOSE k \in ok : \A j \in ok : j <= k
     IN /\ n > 0 \/ m.names = << >>
        /\ Reply(m, [count |-> n])
        /\ srv' = IF n < Len(m.names) THEN srv
                  ELSE [srv EXCEPT !.fids = SetFid(m.newfid, p \o m.names)]

ServeFile(m) ==
  /\ Known(m.fid) /\ UNCHANGED srv
  /\ LET f == srv.fids[m.fid] IN
     CASE m.type = "stat" -> Reply(m, [length |-> Len(Content(f))])
       [] m.type = "open" -> Reply(m, [none |-> 0])
       [] m.type = "read" ->
            \E n \in 1 .. m.count :
              Reply(m, [blocks |-> SubSeq(Content(f), m.offset + 1, m.offset + n)])

ServeClunk(m) ==
  /\ Known(m.fid) /\ Reply(m, [none |-> 0])
  /\ srv' = [srv EXCEPT !.fids = [f \in DOMAIN @ \ {m.fid} |-> @[f]]]

ServeError(m) == Put([type |-> "error", tag |-> m.tag]) /\ UNCHANGED srv

Serve ==
  /\ fpc # "closed" /\ pend # << >>
  /\ pend' = Tail(pend)
  /\ LET m == Head(pend) IN
     \/ m.type = "version" /\ ServeVersion(m)
     \/ m.type = "attach" /\ ServeAttach(m)
     \/ m.type = "walk" /\ ServeWalk(m)
     \/ m.type \in {"stat", "open", "read"} /\ ServeFile(m)
     \/ m.type = "clunk" /\ ServeClunk(m)
     \/ ServeError(m)
  /\ UNCHANGED <<fpc, buf_size, conn, data, loads, result>>

Next ==
  \/ virtio_9p_init \/ virtio_9p_shutdown
  \/ \E path \in PathSet : Load(path)
  \/ p9_version \/ p9_attach \/ p9_walk \/ p9_stat \/ p9_open \/ p9_read \/ p9_clunk
  \/ Serve

-----------------------------------------------------------------------------
\* A load that reports success has loaded exactly the file the path names,
\* although answers to requests given up earlier may arrive later.
FileLoaded ==
  (fpc = "open" /\ result.rc >= 0) =>
    /\ IsPrefixOfFile(Resolved(result.want))
    /\ data = Content(Resolved(result.want)) /\ result.rc = Len(data)
=============================================================================
