-------------------------------- MODULE Dhcp --------------------------------
(***************************************************************************)
(* The DHCP client, lib/libnet/dhcp.c, with the loop of dhcp() in          *)
(* netload.c around it.  A call has one transaction number for all its     *)
(* attempts, so replies to an earlier attempt are accepted in a later one; *)
(* and packets are handled whenever the network is polled, also while the  *)
(* name of the TFTP server is looked up or a file is loaded.  A reply      *)
(* without a message type is a BOOTP reply and is accepted in any state.   *)
(*                                                                         *)
(* The network loses, delays, repeats and reorders: any answer to anything *)
(* sent so far can arrive at any time.  A message is the server it is from,*)
(* its type and transaction; what it says is Content[server].  dgot and    *)
(* dmixed are history variables: the replies that ended an attempt, and    *)
(* whether a BOOTP reply came after one.                                   *)
(***************************************************************************)
EXTENDS Naturals, Sequences, SequencesExt

CONSTANTS
    DServers,     \* the servers
    Content,      \* what each puts into its replies
    MaxCalls,     \* bound: calls of dhcp()
    Retries,
    Unset         \* no address, no name, no option

\* kind "dhcp", "bootp" or "ext" (BOOTP with options); si, sname, file: the
\* fields of the header; vend, fileopts, snameopts: options, which are
\* sequences of [code, data] with data a sequence.
ASSUME ServersAssumption == \A s \in DServers : Content[s].kind \in {"dhcp", "bootp", "ext"}

VARIABLES
    dpc,       \* "idle", "attempt", "dns", "run" (dhcp() has returned)
    dxid,      \* dhcp_xid
    dtry,      \* attempts left
    dstate,    \* dhcp_state
    dcfg,      \* dhcp_own_ip, dhcp_server_ip, dhcp_siaddr_ip, dhcp_tftp_name, dhcp_filename
    dstack,    \* the address, router and DNS server of the IPv4 layer
    dwant,     \* the address the caller asks for, or Unset
    dsent,     \* messages to the servers
    dfn,       \* fn_ip on return
    dret, dgot, dmixed

dvars == <<dpc, dxid, dtry, dstate, dcfg, dstack, dwant, dsent, dfn, dret, dgot, dmixed>>

NoConfig == [own |-> Unset, server |-> Unset, si |-> Unset, name |-> <<>>, file |-> <<>>]
NoStack == [addr |-> Unset, router |-> FALSE, dns |-> FALSE]

DhcpInit ==
    /\ dpc = "idle" /\ dxid = 0 /\ dtry = 0 /\ dstate = "none"
    /\ dcfg = NoConfig /\ dstack = NoStack /\ dwant = Unset
    /\ dsent = {} /\ dfn = NoConfig /\ dret = Unset /\ dgot = {} /\ dmixed = FALSE

-----------------------------------------------------------------------------
(* Options.                                                                *)

ENDOPT == [code |-> "end", data |-> <<>>]
Cut == [code |-> "cut", data |-> <<>>]     \* an option longer than the field

\* What comes before the end option.
BeforeEnd(opts) ==
    LET ends == {i \in DOMAIN opts : opts[i] = ENDOPT}
    IN IF ends = {} THEN opts ELSE SubSeq(opts, 1, (CHOOSE i \in ends : \A j \in ends : i <= j) - 1)

Present(opts, code) == {i \in DOMAIN opts : opts[i].code = code}

\* The place of an option, 0 if there is none before the end.
dhcp_find_option(opts, code) ==
    LET at == Present(BeforeEnd(opts), code)
    IN IF at = {} THEN 0 ELSE CHOOSE i \in at : \A j \in at : i <= j

dhcp_append_option(opts, o) == Append(opts, o)

dhcp_combine_option(opts, i, o) == [opts EXCEPT ![i].data = @ \o o.data]

\* The options of the file or sname field continue those of the vend field.
dhcp_merge_options(dst, src) ==
    LET one(opts, o) == IF o.code = "pad" THEN opts
                        ELSE IF dhcp_find_option(opts, o.code) = 0 THEN dhcp_append_option(opts, o)
                        ELSE dhcp_combine_option(opts, dhcp_find_option(opts, o.code), o)
    IN FoldLeft(one, BeforeEnd(dst), BeforeEnd(src))

\* All options before the end; an option that runs over the end of the field,
\* or an impossible message type, makes the message unreadable.
dhcp_decode_options(opts) ==
    LET o == BeforeEnd(opts)
        last(code) == LET at == Present(o, code) IN
                      IF at = {} THEN Unset ELSE o[CHOOSE i \in at : \A j \in at : j <= i].data
    IN [ok |-> Cut \notin {o[i] : i \in DOMAIN o} /\ last("type") # <<"invalid">>,
        has |-> {o[i].code : i \in DOMAIN o},
        overload |-> last("overload"), type |-> last("type"),
        tftp |-> last("tftp"), file |-> last("file")]

\* The options of a message of the client; Unset is left out.
dhcp_encode_options(type, requested, server) ==
    [type |-> type, requested |-> requested, server |-> server]

\* The fields that the overload option declares to hold options are merged.
Options(c, type) ==
    LET vend == (IF type \in {"bootp", "ext"} THEN <<>> ELSE <<[code |-> "type", data |-> <<type>>]>>) \o c.vend
        first == dhcp_decode_options(vend)
        withFile == IF first.overload \in {<<"file">>, <<"both">>}
                    THEN dhcp_merge_options(vend, c.fileopts) ELSE vend
        all == IF first.overload \in {<<"sname">>, <<"both">>}
               THEN dhcp_merge_options(withFile, c.snameopts) ELSE withFile
    IN IF ~first.ok \/ first.overload = Unset THEN first ELSE dhcp_decode_options(all)

-----------------------------------------------------------------------------
(* Messages.                                                               *)

dhcp_send_discover(xid) ==
    [xid |-> xid, ciaddr |-> Unset, opts |-> dhcp_encode_options("discover", Unset, Unset)]
dhcp_send_request(own, server) ==
    [xid |-> dxid, ciaddr |-> Unset, opts |-> dhcp_encode_options("request", own, server)]
dhcp_send_release(own, server) ==
    [xid |-> dxid, ciaddr |-> own, opts |-> dhcp_encode_options("release", Unset, server)]

\* The fields of a BOOTP reply.
BootpConfig(c, s) ==
    [own |-> s, server |-> s, si |-> c.si,
     name |-> IF c.sname # <<>> /\ c.si = Unset THEN c.sname ELSE dcfg.name,
     file |-> IF c.file # <<>> THEN c.file ELSE dcfg.file]

\* A variant that keeps the address of the offer.
KeepOffered(s) == IF dcfg.own = Unset THEN s ELSE dcfg.own
AckAddress(s) == s

\* The fields and options of a DHCPACK.
AckName(c, o, old) ==
    IF "tftp" \in o.has THEN o.tftp
    ELSE IF o.overload \notin {<<"sname">>, <<"both">>} /\ c.si = Unset THEN c.sname
    ELSE old
AckFile(c, o) ==
    IF "file" \in o.has THEN o.file
    ELSE IF o.overload \notin {<<"file">>, <<"both">>} THEN c.file ELSE <<>>
AckConfig(c, s, o) ==
    [own |-> AckAddress(s), server |-> s, si |-> c.si,
     name |-> AckName(c, o, dcfg.name), file |-> AckFile(c, o)]

\* A successful reply also configures the IPv4 layer - a plain BOOTP reply does
\* not.
Configure(own, o) ==
    dstack' = [addr |-> own,
               router |-> dstack.router \/ {"mask", "router"} \subseteq o.has,
               dns |-> dstack.dns \/ "dns" \in o.has]

Succeed(p, cfg) ==
    /\ dcfg' = cfg /\ dstate' = "success"
    /\ dgot' = dgot \cup {p} /\ dmixed' = (dmixed \/ dstate = "success")

handle_dhcp(p) ==
    LET c == Content[p.srv]
        o == Options(c, p.type)
    IN /\ p.xid = dxid
       /\ \/ p.type = "bootp" /\ Succeed(p, BootpConfig(c, p.srv)) /\ UNCHANGED <<dstack, dsent>>
          \/ p.type = "ext" /\ o.ok
             /\ Succeed(p, BootpConfig(c, p.srv)) /\ Configure(p.srv, o) /\ UNCHANGED dsent
          \/ p.type = "offer" /\ o.ok /\ dstate = "select"
             /\ dcfg' = [dcfg EXCEPT !.own = p.srv, !.server = p.srv]
             /\ dsent' = dsent \cup {dhcp_send_request(p.srv, p.srv)}
             /\ dstate' = "request"
             /\ UNCHANGED <<dstack, dgot, dmixed>>
          \/ p.type = "nack" /\ o.ok /\ dstate = "request"
             /\ dcfg' = [dcfg EXCEPT !.own = Unset, !.server = Unset]
             /\ dstate' = "fault"
             /\ UNCHANGED <<dstack, dsent, dgot, dmixed>>
          \/ p.type = "ack" /\ o.ok /\ dstate = "request"
             /\ Succeed(p, AckConfig(c, p.srv, o)) /\ Configure(AckAddress(p.srv), o) /\ UNCHANGED dsent

-----------------------------------------------------------------------------
(* The client.                                                             *)

\* dhcpv4 starts afresh but for the addresses; dhcp_attempt sends a DISCOVER.
StartAttempt(xid) ==
    /\ dcfg' = [dcfg EXCEPT !.name = <<>>, !.file = <<>>]
    /\ dsent' = dsent \cup {dhcp_send_discover(xid)}
    /\ dstate' = "select" /\ dgot' = {} /\ dmixed' = FALSE
    /\ dpc' = "attempt"

\* dhcp(): a new transaction number, and Retries attempts.
dhcp ==
    /\ dpc = "idle" /\ dxid < MaxCalls
    /\ dxid' = dxid + 1 /\ dtry' = Retries
    /\ StartAttempt(dxid')
    /\ dwant' \in {Unset, "asked"}
    /\ dfn' = NoConfig /\ dret' = Unset
    /\ UNCHANGED <<dstack>>

\* receive_ether, wherever the client polls the network.
Receive(p) ==
    /\ \/ dpc \in {"dns", "run"}
       \/ dpc = "attempt" /\ dstate \notin {"success", "fault"}
    /\ handle_dhcp(p)
    /\ UNCHANGED <<dpc, dxid, dtry, dwant, dfn, dret>>

Return(rc, cfg) == /\ dpc' = "run" /\ dret' = rc /\ dfn' = cfg
                   /\ UNCHANGED <<dxid, dtry, dstate, dstack, dwant, dsent, dgot, dmixed>>

\* The caller's own address overrides the one received.
Overridden == [dcfg EXCEPT !.own = IF dwant # Unset THEN dwant ELSE @]

\* The attempt has succeeded: the TFTP server is siaddr, or the server's name
\* is an address, or is looked up.
dhcpv4 ==
    /\ dpc = "attempt" /\ dstate = "success"
    /\ dcfg' = Overridden
    /\ IF dcfg.name = <<>>
       THEN IF dcfg.si = Unset THEN Return(-3, NoConfig)
            ELSE Return(0, [Overridden EXCEPT !.server = dcfg.si])
       ELSE IF dcfg.name = <<"address">> THEN Return(0, [Overridden EXCEPT !.server = dcfg.name])
       ELSE dpc' = "dns" /\ UNCHANGED <<dxid, dtry, dstate, dstack, dwant, dsent, dfn, dret, dgot, dmixed>>

\* dns_get_ip finds the address, or siaddr must do.  The rest of the
\* configuration is taken as it is then.
NameResolved ==
    /\ dpc = "dns"
    /\ \/ dstack.dns /\ Return(0, [dcfg EXCEPT !.server = dcfg.name])
       \/ dcfg.si # Unset /\ Return(0, [dcfg EXCEPT !.server = dcfg.si])
       \/ dcfg.si = Unset /\ Return(-4, NoConfig)
    /\ UNCHANGED dcfg

\* A variant that never counts.
Uncounted == dtry
CountDown == dtry - 1

\* dhcp_attempt ends in a FAULT or after two seconds: another attempt, or -1.
dhcp_attempt ==
    /\ dpc = "attempt" /\ dstate # "success"
    /\ IF dtry > 1
       THEN StartAttempt(dxid) /\ dtry' = CountDown /\ UNCHANGED <<dxid, dstack, dwant, dfn, dret>>
       ELSE Return(-1, NoConfig) /\ UNCHANGED dcfg

\* netload is done: it gives the address back if it used DHCP only.
Done ==
    /\ dpc = "run"
    /\ dpc' = "idle"
    /\ dsent' \in {dsent, IF dret = 0 THEN dsent \cup {dhcp_send_release(dcfg.own, dcfg.server)} ELSE dsent}
    /\ UNCHANGED <<dxid, dtry, dstate, dcfg, dstack, dwant, dfn, dret, dgot, dmixed>>

-----------------------------------------------------------------------------
(* The servers (external): each answers what it likes to what was sent.    *)

AnswersTo(m) ==
    LET one(t, s) == [type |-> t, srv |-> s, xid |-> m.xid]
    IN CASE m.opts.type = "discover" -> {one(IF Content[s].kind = "dhcp" THEN "offer" ELSE Content[s].kind, s) : s \in DServers}
         [] m.opts.type = "request"  -> {one(t, m.opts.server) : t \in {"ack", "nack"}}
         [] OTHER -> {}

DhcpNext ==
    \/ dhcp \/ dhcpv4 \/ NameResolved \/ dhcp_attempt \/ Done
    \/ (\E m \in dsent : \E p \in AnswersTo(m) : Receive(p))

DhcpSpec == DhcpInit /\ [][DhcpNext]_dvars

-----------------------------------------------------------------------------

\* The reference for what a server tells: every option is the concatenation of
\* its parts, in the vend, file and sname fields in this order.
Concat(c, code) ==
    LET part(opts) == FoldLeft(LAMBDA a, o : IF o.code = code THEN a \o o.data ELSE a, <<>>, BeforeEnd(opts))
        over == part(c.vend)
    IN over \o (IF "fileopts" \in c.used THEN part(c.fileopts) ELSE <<>>)
            \o (IF "snameopts" \in c.used THEN part(c.snameopts) ELSE <<>>)

Told(c) ==
    [file |-> IF Concat(c, "file") # <<>> /\ c.kind = "dhcp" THEN Concat(c, "file") ELSE c.file,
     name |-> IF Concat(c, "tftp") # <<>> /\ c.kind = "dhcp" THEN Concat(c, "tftp")
              ELSE IF c.si = Unset THEN c.sname ELSE <<>>]

\* None of the names is the value that stands for no name.
ASSUME NamesAssumption == \A s \in DServers : Told(Content[s]).name # Unset

\* The options of every acknowledgement, as dhcp_merge_options and
\* dhcp_decode_options read them, are what the server tells.
DecodesAsTold ==
    \A s \in DServers :
        LET c == Content[s]
            o == Options(c, "ack")
        IN c.kind = "dhcp" /\ o.ok =>
               AckName(c, o, <<>>) = Told(c).name /\ AckFile(c, o) = Told(c).file

\* What dhcp() returns was told by one server, in a reply to this call: address,
\* boot file and boot server are never put together from several replies,
\* unless a BOOTP reply arrived after the configuration was complete (dhcpv4,
\* handle_dhcp).
OneReply ==
    (dpc = "run" /\ dret = 0 /\ ~dmixed) =>
        \E p \in dgot :
            LET t == Told(Content[p.srv]) IN
            /\ p.xid = dxid
            /\ dfn.own = (IF dwant # Unset THEN dwant ELSE p.srv)
            /\ dfn.file = t.file
            /\ dfn.server \in {Content[p.srv].si, t.name}
            /\ dfn.server # Unset

\* An address is given back only to the server that assigned it, as long as the
\* caller has not asked for an address of its own (dhcp_send_release).
ReleasedOurs ==
    \A m \in dsent : m.opts.type = "release" /\ m.ciaddr # "asked" => m.ciaddr = m.opts.server

\* What dhcp() returns is the configuration of one server, told in a reply to
\* this call, with options put together from the fields they were split over;
\* and an address is given back only to the server that assigned it (dhcpv4,
\* handle_dhcp, dhcp_merge_options, dhcp_send_release).
LeaseConsistent == OneReply /\ ReleasedOurs

\* The call comes to an end, whatever the servers do (dhcp).
DhcpReturns == dpc = "attempt" ~> dpc = "run"
=============================================================================
