-------------------------------- MODULE Ipv6 --------------------------------
(***************************************************************************)
(* IPv6 with its neighbour and router discovery and stateless DHCP:        *)
(* ipv6.c, icmpv6.c, ndp.c, dhcpv6.c, and the dispatch of frames in        *)
(* ethernet.c and udp.c.                                                   *)
(*                                                                         *)
(* To send to a neighbour that is not in the cache, send_ipv6 stores the   *)
(* frame, asks for the neighbour's MAC address and polls the network for a *)
(* second; what arrives meanwhile is handled inside the call, and if that  *)
(* sends something itself, the calls nest: awaited is the stack of them.   *)
(* The frame stored is sent by the handler of the advertisement.           *)
(*                                                                         *)
(* An address is [prefix, iface].  vout is what we sent.  The network      *)
(* loses, delays, repeats and reorders: whatever the others may have sent  *)
(* so far can arrive at any time (Arriving).                               *)
(***************************************************************************)
EXTENDS Naturals, Sequences, FiniteSets, SequencesExt, TLC

CONSTANTS
    Hosts,        \* the other addresses: hosts and routers
    OnLink,       \* those of them on our link
    Servers,      \* those of them that are DHCPv6 servers
    MacOf,        \* their MAC addresses
    Adverts,      \* router advertisements: [src, slla, prefixes]
    V6Replies,    \* the boot URLs of DHCPv6 replies: [scheme, kind, host, file]
    MaxNest,      \* bound: nested sends
    MaxSends,     \* bound: packets the upper layers send
    MaxAttempts,  \* bound: attempts of dhcp() over IPv6
    Words         \* words of an address in the text functions (8)

VARIABLES
    vpc,       \* "off", "init", "up", "dhcp"
    vlist,     \* own addresses, first_ip6 ...
    vown,      \* own_ip6
    ra_received,
    vrouters,  \* [ip, mac] in list order
    vnbrs,     \* [ip, mac, status, frame] in list order
    awaited,   \* the neighbours that calls of send_ipv6 wait for, innermost last
    vout, vsends,
    vstate,    \* dhcpv6_state
    vtid, vcfg,
    vgot       \* the transaction of the reply accepted last

vvars == <<vpc, vlist, vown, ra_received, vrouters, vnbrs, awaited, vout, vsends, vstate, vtid, vcfg, vgot>>

Addr(p, i) == [prefix |-> p, iface |-> i]
AllNodes == Addr("mc", "nodes")
AllRouters == Addr("mc", "routers")
AllServers == Addr("mc", "servers")
OwnMac == "own"
NullMac == "null"
NoFrame == [dst |-> AllNodes, body |-> "none"]
NoAddr == Addr("none", "none")

ip6_is_multicast(a) == a.prefix \in {"mc", "sol"}
ip6_is_linklocal(a) == a.prefix = "ll"
ip6_cmp(a, b) == a = b
mac2eui64(mac) == mac
ip6_create_ll_address(mac) == Addr("ll", mac2eui64(mac))
ip6_prefix2addr(prefix) == Addr(prefix, mac2eui64(OwnMac))
\* The multicast MAC address of a multicast address.
ip6_to_multicast_mac(a) == a.iface
SolicitedNode(a) == Addr("sol", a.iface)

get_ipv6_address == vown
find_ip6addr(list, a) == \E i \in DOMAIN list : ip6_cmp(list[i], a)
unknown_prefix(list, a) == \A i \in DOMAIN list : list[i].prefix # a.prefix
is_ip6addr_in_my_net(a) == ~unknown_prefix(vlist, a)

\* A variant that listens to the address itself only.
AddAlone(list, a) == IF find_ip6addr(list, a) THEN list ELSE Append(list, a)
\* With a unicast address comes its solicited-node multicast address.
ip6addr_add(list, a) ==
    IF find_ip6addr(list, a) THEN list
    ELSE LET s == SolicitedNode(a)
             more == IF ip6_is_multicast(a) \/ find_ip6addr(list, s) THEN list ELSE Append(list, s)
         IN Append(more, a)

-----------------------------------------------------------------------------
(* Neighbours and routers.                                                 *)

neighbor_create(ip, mac) == [ip |-> ip, mac |-> mac, status |-> "incomplete", frame |-> NoFrame]
neighbor_add(nbrs, n) == Append(nbrs, n)
\* A variant that looks at the prefix only.
NeighbourOfNet(nbrs, ip) == {i \in DOMAIN nbrs : nbrs[i].ip.prefix = ip.prefix}
find_neighbor(nbrs, ip) == {i \in DOMAIN nbrs : ip6_cmp(nbrs[i].ip, ip)}

router_create(ip, mac) == [ip |-> ip, mac |-> mac]
router_add(r) == Append(vrouters, r)
find_router(ip) == {i \in DOMAIN vrouters : ip6_cmp(vrouters[i].ip, ip)}

\* The first router with the prefix of the source address, else the first.
ipv6_get_default_router(src) ==
    LET near == {i \in DOMAIN vrouters : vrouters[i].ip.prefix = src.prefix}
    IN IF near # {} THEN vrouters[CHOOSE i \in near : \A j \in near : i <= j] ELSE vrouters[1]

-----------------------------------------------------------------------------
(* Sending.                                                                *)

Packet(dst, body) == [dst |-> dst, body |-> body]
fill_ethhdr(mac, pkt) == [mac |-> mac, pkt |-> pkt]

send_router_solicitation == fill_ethhdr(ip6_to_multicast_mac(AllRouters), Packet(AllRouters, "rs"))
send_neighbour_solicitation(a) ==
    fill_ethhdr(ip6_to_multicast_mac(SolicitedNode(a)), Packet(SolicitedNode(a), "ns"))
send_info_request == fill_ethhdr(ip6_to_multicast_mac(AllServers), Packet(AllServers, "info"))

\* A packet is sent, is stored and waited for (a call more on the stack), or is
\* dropped: no router, or another frame waits for the same neighbour already.
send_ipv6(pkt) ==
    LET at == find_neighbor(vnbrs, pkt.dst)
        n == vnbrs[CHOOSE i \in at : TRUE]
        out(mac) == vout' = vout \cup {fill_ethhdr(mac, pkt)} /\ UNCHANGED <<vnbrs, awaited>>
        drop == UNCHANGED <<vout, vnbrs, awaited>>
    IN IF ip6_is_multicast(pkt.dst) THEN out(ip6_to_multicast_mac(pkt.dst))
       ELSE IF ~is_ip6addr_in_my_net(pkt.dst)
       THEN IF vrouters = <<>> THEN drop ELSE out(ipv6_get_default_router(get_ipv6_address).mac)
       ELSE IF at # {} /\ n.mac # NullMac THEN out(n.mac)
       ELSE IF at # {} THEN drop
       ELSE /\ vnbrs' = neighbor_add(vnbrs, [ip |-> pkt.dst, mac |-> NullMac, status |-> "probe", frame |-> pkt])
            /\ vout' = vout \cup {send_neighbour_solicitation(pkt.dst)}
            /\ awaited' = Append(awaited, pkt.dst)

\* TFTP, DNS and so on send something.
UpperSends(dst) ==
    /\ vpc = "up" /\ awaited = <<>> /\ vsends < MaxSends
    /\ vsends' = vsends + 1
    /\ send_ipv6(Packet(dst, "data"))
    /\ UNCHANGED <<vpc, vlist, vown, ra_received, vrouters, vstate, vtid, vcfg, vgot>>

\* A call waits no longer: its neighbour has answered, or the second is over -
\* that of the inner call is that of the outer ones as well.
Reachable(ip) == \E i \in find_neighbor(vnbrs, ip) : vnbrs[i].status = "reachable"
WaitEnds ==
    /\ awaited # <<>>
    /\ awaited' \in {IF Reachable(Last(awaited)) THEN Front(awaited) ELSE <<>>, <<>>}
    /\ UNCHANGED <<vpc, vlist, vown, ra_received, vrouters, vnbrs, vout, vsends, vstate, vtid, vcfg, vgot>>

-----------------------------------------------------------------------------
(* Receiving: a frame is [mac, dst, from, src, kind, ...].                 *)

\* A prefix option: a new address, unless we have one with that prefix.
handle_prefixoption(list, prefix) ==
    IF prefix = "ll" \/ ~unknown_prefix(list, ip6_prefix2addr(prefix)) THEN list
    ELSE ip6addr_add(list, ip6_prefix2addr(prefix))

handle_source_lladdr(r, slla) == IF slla = NullMac THEN r ELSE [r EXCEPT !.mac = slla]
process_ra_options(list, ra) == FoldLeft(handle_prefixoption, list, ra.prefixes)

handle_ra(ra) ==
    LET at == find_router(ra.src)
    IN /\ vrouters' = IF at = {} THEN router_add(handle_source_lladdr(router_create(ra.src, NullMac), ra.slla))
                      ELSE [vrouters EXCEPT ![CHOOSE i \in at : TRUE] = handle_source_lladdr(@, ra.slla)]
       /\ vlist' = process_ra_options(vlist, ra)
       /\ ra_received' = TRUE
       /\ UNCHANGED <<vnbrs, vout, awaited, vstate, vcfg, vgot>>

\* An advertisement completes a known neighbour and sends its stored frame.
handle_na(f) ==
    LET at == find_neighbor(vnbrs, f.src)
        i == CHOOSE i \in at : TRUE
    IN /\ IF at = {}
          THEN vnbrs' = neighbor_add(vnbrs, neighbor_create(f.src, f.from)) /\ UNCHANGED vout
          ELSE /\ vnbrs' = [vnbrs EXCEPT ![i] = [@ EXCEPT !.mac = f.from, !.status = "reachable", !.frame = NoFrame]]
               /\ vout' = IF vnbrs[i].frame = NoFrame THEN vout
                          ELSE vout \cup {fill_ethhdr(f.from, vnbrs[i].frame)}
       /\ UNCHANGED <<vlist, ra_received, vrouters, awaited, vstate, vcfg, vgot>>

\* A solicitation is answered to its sender.
send_neighbour_advertisement(f) ==
    /\ Len(awaited) < MaxNest
    /\ send_ipv6(Packet(f.src, "na"))
    /\ UNCHANGED <<vlist, ra_received, vrouters, vstate, vcfg, vgot>>

handle_icmpv6(f) ==
    \/ f.kind = "ns" /\ send_neighbour_advertisement(f)
    \/ f.kind = "na" /\ handle_na(f)
    \/ f.kind = "ra" /\ handle_ra(f.ra)

OwnTid(f) == f.tid = vtid

\* A boot URL "tftp://[address]/file" or "tftp://name/file"; for a name, it is
\* the text of the address looked up that is stored as the address.
parse_tftp_args(url) ==
    IF url.scheme # "tftp" \/ url.file = "" THEN vcfg
    ELSE [file |-> url.file, server |-> IF url.kind = "address" THEN url.host ELSE "text"]

dhcp6_process_options(r) == parse_tftp_args(r)
handle_dhcpv6(f) ==
    /\ f.kind = "dhcp" /\ OwnTid(f)
    /\ vstate' = "success" /\ vcfg' = dhcp6_process_options(f.reply)
    /\ vgot' = f.tid
    /\ UNCHANGED <<vlist, ra_received, vrouters, vnbrs, vout, awaited>>

\* By port: only DHCPv6 is followed further here.
handle_udp(f) == handle_dhcpv6(f)

handle_ipv6(f) == find_ip6addr(vlist, f.dst) /\ (handle_icmpv6(f) \/ handle_udp(f))
is_multicast_mac(mac) == mac \notin {OwnMac, NullMac}
\* Frames to our MAC address or to a multicast one.
receive_ether(f) ==
    /\ f.mac = OwnMac \/ is_multicast_mac(f.mac)
    /\ handle_ipv6(f)

ReceiveV6(f) ==
    /\ vpc # "off"
    /\ receive_ether(f)
    /\ UNCHANGED <<vpc, vown, vsends, vtid>>

-----------------------------------------------------------------------------
(* Addresses and DHCP.                                                     *)

ndp_init == vrouters' = <<>> /\ vnbrs' = <<>>

\* set_ipv6_address starts with our link-local address, and solicits routers.
StartIpv6 ==
    /\ vlist' = ip6addr_add(ip6addr_add(vlist, ip6_create_ll_address(OwnMac)), AllNodes)
    /\ vown' = ip6_create_ll_address(OwnMac)
    /\ ndp_init
    /\ vout' = vout \cup {send_router_solicitation}
    /\ vpc' = "init"

\* dhcp() for IPv6: one transaction for all its attempts.
dhcpv6_generate_transaction_id ==
    /\ vpc = "off" \/ (vpc = "up" /\ awaited = <<>> /\ vtid = 1)
    /\ vtid' = vtid + 1 /\ vsends' = 0
    /\ StartIpv6
    /\ vgot' = 0
    /\ UNCHANGED <<ra_received, awaited, vstate, vcfg>>

\* The first address that is neither multicast nor link-local, if there is one.
Preferred ==
    LET global == SelectSeq(vlist, LAMBDA a : ~ip6_is_multicast(a) /\ ~ip6_is_linklocal(a))
    IN IF global = <<>> THEN vown ELSE global[1]

\* ipv6_init has waited for an advertisement, if none was received before;
\* then dhcpv6_attempt sends its request.
ipv6_init ==
    /\ vpc = "init" /\ awaited = <<>>
    /\ vown' = Preferred
    /\ vpc' = "dhcp" /\ vstate' = "select"
    /\ vout' = vout \cup {send_info_request}
    /\ vsends' = vsends + 1
    /\ UNCHANGED <<vlist, ra_received, vrouters, vnbrs, awaited, vtid, vcfg, vgot>>

\* The attempt has succeeded, or two seconds have passed: again, or give up.
dhcpv6_attempt ==
    /\ vpc = "dhcp" /\ awaited = <<>>
    /\ \/ vstate = "success" /\ vpc' = "up" /\ vsends' = 0 /\ UNCHANGED <<vlist, vown, vrouters, vnbrs, vout>>
       \/ vstate # "success" /\ vsends < MaxAttempts /\ StartIpv6 /\ UNCHANGED vsends
       \/ vstate # "success" /\ vsends = MaxAttempts /\ vpc' = "up"
          /\ vsends' = 0 /\ UNCHANGED <<vlist, vown, vrouters, vnbrs, vout>>
    /\ UNCHANGED <<ra_received, awaited, vstate, vtid, vcfg, vgot>>

Ipv6Init ==
    /\ vpc = "off" /\ vlist = <<>> /\ vown = NoAddr /\ ra_received = FALSE
    /\ vrouters = <<>> /\ vnbrs = <<>> /\ awaited = <<>> /\ vout = {} /\ vsends = 0
    /\ vstate = "none" /\ vtid = 0 /\ vcfg = [file |-> "", server |-> ""] /\ vgot = 0

-----------------------------------------------------------------------------
(* The others on the link (external).                                      *)

FrameFrom(src, kind, mac, dst) ==
    [mac |-> mac, dst |-> dst, from |-> MacOf[src], src |-> src, kind |-> kind,
     ra |-> [src |-> src, slla |-> NullMac, prefixes |-> <<>>], tid |-> 0, reply |-> [scheme |-> "", kind |-> "", host |-> "", file |-> ""]]

ReplyFrom(h, t, r) ==
    [FrameFrom(h, "dhcp", OwnMac, ip6_create_ll_address(OwnMac)) EXCEPT !.tid = t, !.reply = r]

\* Answers to our solicitations, solicitations for us, router advertisements
\* and DHCPv6 replies to the requests of this or an earlier call.
Asked(h) == fill_ethhdr(h.iface, Packet(SolicitedNode(h), "ns")) \in vout
Arriving ==
    {FrameFrom(h, "na", OwnMac, vown) : h \in {h \in Hosts : Asked(h)}}
    \cup {FrameFrom(h, "ns", vown.iface, SolicitedNode(vown)) : h \in OnLink}
    \cup {[FrameFrom(ra.src, "ra", "nodes", AllNodes) EXCEPT !.ra = ra] : ra \in Adverts}
    \cup (IF send_info_request \notin vout THEN {}
          ELSE {ReplyFrom(x[1], x[2], x[3]) : x \in Servers \X (1..vtid) \X V6Replies})

Ipv6Next ==
    \/ dhcpv6_generate_transaction_id \/ ipv6_init \/ dhcpv6_attempt \/ WaitEnds
    \/ (\E h \in Hosts : UpperSends(h)) \/ (\E f \in Arriving : ReceiveV6(f))

Ipv6Spec == Ipv6Init /\ [][Ipv6Next]_vvars

-----------------------------------------------------------------------------
(* Addresses as text, a sequence of characters.                            *)

WordText(w) == CASE w = 0 -> <<"0">> [] w = 1 -> <<"1">> [] OTHER -> <<"1", "0">>
IsAt(s, i, t) == i + Len(t) - 1 <= Len(s) /\ SubSeq(s, i, i + Len(t) - 1) = t
Text == Seq(STRING)
SkipZeros[s \in Text] == IF IsAt(s, 1, <<"0", ":">>) THEN SkipZeros[SubSeq(s, 3, Len(s))] ELSE s

\* Where two zero words that are followed by another start.
ZeroRuns(s) == {i \in DOMAIN s : IsAt(s, i, <<"0", ":", "0", ":">>) /\ (i = 1 \/ s[i - 1] = ":")}

\* The first such run becomes "::".
ipv6_to_str(ip) ==
    LET full == FoldLeft(LAMBDA a, w : IF a = <<>> THEN WordText(w) ELSE a \o <<":">> \o WordText(w), <<>>, ip)
        at == CHOOSE i \in ZeroRuns(full) : \A j \in ZeroRuns(full) : i <= j
        s == SubSeq(full, 1, at - 1) \o (IF at = 1 THEN <<":", ":">> ELSE <<":">>)
             \o SkipZeros[SubSeq(full, at + 4, Len(full))]
    IN IF ZeroRuns(full) = {} THEN full ELSE IF s = <<":", ":", "0">> THEN <<":", ":">> ELSE s

\* Single colons less double ones; 0 if they do not make an address.
check_colons(s) ==
    LET colons == {i \in DOMAIN s : s[i] = ":"}
        double == {i \in colons : i + 1 \in colons}
        col == Cardinality(colons \ double) - Cardinality(double)
        dcol == Cardinality(double)
    IN ~(dcol > 1 \/ (dcol = 1 /\ col > Words - 3) \/ (dcol = 0 /\ col # Words - 1)) /\ col + dcol # 0

TextWord(t) == CASE t = <<"0">> -> 0 [] t = <<"1">> -> 1 [] OTHER -> 16
\* The words of a text without "::"; <<>> if there is none.
ipv6str_to_bytes[s \in Text] ==
    LET colon == SelectInSeq(s, LAMBDA c : c = ":")
    IN IF s = <<>> THEN <<>>
       ELSE IF colon = 0 THEN <<TextWord(s)>>
       ELSE <<TextWord(SubSeq(s, 1, colon - 1))>> \o ipv6str_to_bytes[SubSeq(s, colon + 1, Len(s))]

\* <<>> for a text that is no address; so for "::" with nothing before or
\* nothing after it, but for "::1".
str_to_ipv6(s) ==
    LET doubles == {i \in DOMAIN s : IsAt(s, i, <<":", ":">>)}
        at == CHOOSE i \in doubles : \A j \in doubles : i <= j
        top == ipv6str_to_bytes[SubSeq(s, 1, at - 1)]
        bottom == ipv6str_to_bytes[SubSeq(s, at + 2, Len(s))]
    IN IF ~check_colons(s) THEN <<>>
       ELSE IF doubles = {} THEN ipv6str_to_bytes[s]
       ELSE IF s = <<":", ":", "1">> THEN [i \in 1..Words |-> IF i = Words THEN 1 ELSE 0]
       ELSE IF top = <<>> \/ bottom = <<>> THEN <<>>
       ELSE top \o [i \in 1..Words - Len(top) - Len(bottom) |-> 0] \o bottom

-----------------------------------------------------------------------------

\* A frame to a neighbour goes to that neighbour's MAC address, also when it was
\* stored while others were sent, and so does one through a router that told
\* its address (send_ipv6, handle_na, handle_ra).
FramesRight ==
    \A f \in vout :
        (~ip6_is_multicast(f.pkt.dst) /\ f.mac # NullMac) =>
            \/ f.mac = MacOf[f.pkt.dst]
            \/ \E ra \in Adverts : ra.slla = f.mac

\* The neighbour cache has no two entries for one address, no frame is stored
\* for another neighbour or with a neighbour whose address is known, and a call
\* waits only for a neighbour that is in the cache (send_ipv6, handle_na).
CacheSound ==
    /\ \A i, j \in DOMAIN vnbrs : vnbrs[i].ip = vnbrs[j].ip => i = j
    /\ \A i \in DOMAIN vnbrs :
         vnbrs[i].frame # NoFrame => vnbrs[i].frame.dst = vnbrs[i].ip /\ vnbrs[i].mac = NullMac
    /\ \A i \in DOMAIN awaited : find_neighbor(vnbrs, awaited[i]) # {}

\* Under IPv6 frames go to the neighbour or router they are meant for, also those
\* stored while the neighbour's address was asked for, in nested calls too
\* (send_ipv6, handle_na).
NeighboursRight == FramesRight /\ CacheSound

\* We listen to the address we send from and to the solicited-node address of
\* each of our addresses, and have no two addresses with one prefix
\* (ip6addr_add, handle_prefixoption, set_ipv6_address).
AddressesSound ==
    /\ \A i \in DOMAIN vlist : ~ip6_is_multicast(vlist[i]) => find_ip6addr(vlist, SolicitedNode(vlist[i]))
    /\ \A i, j \in DOMAIN vlist :
         i # j => vlist[i] # vlist[j] /\ (ip6_is_multicast(vlist[i]) \/ vlist[i].prefix # vlist[j].prefix)
    /\ vpc # "off" => find_ip6addr(vlist, get_ipv6_address)

\* What DHCP over IPv6 tells is from a reply to this call of dhcp()
\* (handle_dhcpv6).
V6ConfigOwn == (vpc = "up" /\ vstate = "success") =>
    /\ vgot = vtid
    /\ vcfg.file = "" \/ vcfg.server = "text"
       \/ \E u \in V6Replies : u.scheme = "tftp" /\ vcfg = [file |-> u.file, server |-> u.host]

\* An address that is printed is read back as the same, unless its text starts
\* with "::" (ipv6_to_str, str_to_ipv6).
TextRoundTrip ==
    vpc = "off" => \A ip \in [1..Words -> {0, 1, 16}] :
        ~IsAt(ipv6_to_str(ip), 1, <<":", ":">>) => str_to_ipv6(ipv6_to_str(ip)) = ip
=============================================================================
