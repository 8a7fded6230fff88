-------------------------------- MODULE Arp --------------------------------
(***************************************************************************)
(* Sending IPv4 packets and resolving MAC addresses, lib/libnet/ipv4.c:    *)
(* send_ipv4, lookup_mac_addr, arp_send_request and handle_arp with the    *)
(* ring arp_table and the one frame pending_pkt_frame that waits for an    *)
(* ARP reply.  send_ipv4 calls receive_ether once after it has stored a    *)
(* frame (eth_len is never set, so its loop ends after one round); the     *)
(* packet this call handles is the next step of the model.                 *)
(*                                                                         *)
(* A host's MAC address is written as its IP address.  An IP packet is     *)
(* represented by its destination.                                         *)
(***************************************************************************)
EXTENDS Integers, FiniteSets

CONSTANTS
    ARP_ENTRIES, \* slots of the ring
    Subnet,      \* addresses in our subnet
    Outside,     \* addresses behind the router
    router_ip,   \* the router's address
    None, Broadcast

ASSUME ArpAssumption ==
    /\ ARP_ENTRIES \in Nat /\ ARP_ENTRIES > 1
    /\ router_ip \in Subnet
    /\ Subnet \cap Outside = {}
    /\ {None, Broadcast} \cap (Subnet \cup Outside) = {}
    /\ None # Broadcast

Slot == 0 .. (ARP_ENTRIES - 1)

VARIABLES
    arp_table,                   \* [ipv4_addr, mac_addr, pkt_pending]
    arp_consumer, arp_producer,
    pending_pkt_frame,           \* the packet in it
    requests, replies,           \* ARP packets under way
    wire                         \* the last IP frame on the wire: its packet and MAC

arpvars == <<arp_table, arp_consumer, arp_producer, pending_pkt_frame, requests, replies, wire>>

NoEntry == [ipv4_addr |-> None, mac_addr |-> None, pkt_pending |-> FALSE]

\* ipv4_init
ArpInit ==
    /\ arp_table = [i \in Slot |-> NoEntry]
    /\ arp_consumer = 0 /\ arp_producer = 0
    /\ pending_pkt_frame = None
    /\ requests = {} /\ replies = {}
    /\ wire = [dst |-> None, mac |-> None, from |-> "none"]

\* The slots from arp_consumer up to, and without, arp_producer.
Live == {i \in Slot : (i - arp_consumer) % ARP_ENTRIES < (arp_producer - arp_consumer) % ARP_ENTRIES}

\* lookup_mac_addr: the slot of an address, if it has one.
lookup_mac_addr(ip) == {i \in Live : arp_table[i].ipv4_addr = ip}

\* Where a packet goes next.
NextHop(dst) == IF dst \in Subnet THEN dst ELSE router_ip

Resolved(i) == arp_table[i].mac_addr # None

SendBroadcast ==
    /\ wire' = [dst |-> Broadcast, mac |-> Broadcast, from |-> "direct"]
    /\ UNCHANGED <<arp_table, arp_consumer, arp_producer, pending_pkt_frame, requests, replies>>

\* The MAC address is known.
SendDirect(dst) ==
    /\ \E i \in lookup_mac_addr(NextHop(dst)) :
          /\ Resolved(i)
          /\ wire' = [dst |-> dst, mac |-> arp_table[i].mac_addr, from |-> "direct"]
    /\ UNCHANGED <<arp_table, arp_consumer, arp_producer, pending_pkt_frame, requests, replies>>

\* An ARP request is outstanding: it is repeated and the packet dropped.
SendDrops(dst) ==
    /\ \E i \in lookup_mac_addr(NextHop(dst)) : ~Resolved(i)
    /\ requests' = requests \cup {NextHop(dst)}
    /\ UNCHANGED <<arp_table, arp_consumer, arp_producer, pending_pkt_frame, replies, wire>>

\* Variant: the consumer index stays when the producer meets it.
KeepOldest(producer) == arp_consumer

\* A full ring drops its oldest entry.
DropOldest(producer) ==
    IF arp_consumer = producer THEN (arp_consumer + 1) % ARP_ENTRIES ELSE arp_consumer

\* A new entry; the packet is stored.
SendStores(dst) ==
    /\ lookup_mac_addr(NextHop(dst)) = {}
    /\ requests' = requests \cup {NextHop(dst)}
    /\ arp_table' = [arp_table EXCEPT ![arp_producer] =
                        [ipv4_addr |-> NextHop(dst), mac_addr |-> None, pkt_pending |-> TRUE]]
    /\ arp_producer' = (arp_producer + 1) % ARP_ENTRIES
    /\ arp_consumer' = DropOldest((arp_producer + 1) % ARP_ENTRIES)
    /\ pending_pkt_frame' = dst
    /\ UNCHANGED <<replies, wire>>

send_ipv4 ==
    \/ SendBroadcast
    \/ \E dst \in Subnet \cup Outside : SendDirect(dst) \/ SendDrops(dst) \/ SendStores(dst)

\* The entry a reply is for: one we asked for and that is not resolved yet.
Answered(ip) == {i \in lookup_mac_addr(ip) : ~Resolved(i)}

\* handle_arp for a reply that is expected: the stored frame is sent.
ArpReply ==
    \E ip \in replies : \E i \in Answered(ip) :
        /\ replies' = replies \ {ip}
        /\ arp_table' = [arp_table EXCEPT ![i].mac_addr = ip, ![i].pkt_pending = FALSE]
        /\ wire' = IF arp_table[i].pkt_pending
                   THEN [dst |-> pending_pkt_frame, mac |-> ip, from |-> "pending"] ELSE wire
        /\ UNCHANGED <<arp_consumer, arp_producer, pending_pkt_frame, requests>>

\* handle_arp for a reply nobody waits for.
ArpReplyIgnored ==
    \E ip \in replies :
        /\ Answered(ip) = {}
        /\ replies' = replies \ {ip}
        /\ UNCHANGED <<arp_table, arp_consumer, arp_producer, pending_pkt_frame, requests, wire>>

\* A host answers a request, or sends a reply again; a packet is lost.
HostAnswers ==
    /\ \E ip \in requests :
          /\ replies' = replies \cup {ip}
          /\ requests' = requests \ {ip} \/ requests' = requests
    /\ UNCHANGED <<arp_table, arp_consumer, arp_producer, pending_pkt_frame, wire>>

LosePacket ==
    /\ \/ \E ip \in requests : requests' = requests \ {ip} /\ UNCHANGED replies
       \/ \E ip \in replies : replies' = replies \ {ip} /\ UNCHANGED requests
    /\ UNCHANGED <<arp_table, arp_consumer, arp_producer, pending_pkt_frame, wire>>

ArpNext == send_ipv4 \/ ArpReply \/ ArpReplyIgnored \/ HostAnswers \/ LosePacket

ArpSpec == ArpInit /\ [][ArpNext]_arpvars

-----------------------------------------------------------------------------

Known == Subnet \cup {None}

\* The table, the ring's indices and the stored frame have their types.
ArpTypeOK ==
    /\ arp_table \in [Slot -> [ipv4_addr : Known, mac_addr : Known, pkt_pending : BOOLEAN]]
    /\ arp_consumer \in Slot /\ arp_producer \in Slot
    /\ pending_pkt_frame \in Subnet \cup Outside \cup {None}
    /\ requests \subseteq Subnet /\ replies \subseteq Subnet

\* No address has two entries, so a reply reaches the entry its request was made for,
\* also after the ring has dropped entries and an address has come back.
EntriesDistinct ==
    \A i, j \in Live : arp_table[i].ipv4_addr = arp_table[j].ipv4_addr => i = j

\* Sending never empties the table: a ring that is full keeps its newest entries.
NewestKept ==
    (\E i \in Slot : arp_table[i] # NoEntry) => (arp_producer - 1) % ARP_ENTRIES \in Live

\* A packet sent straight away goes to the host it is for, or to the router.
DirectFramesRight ==
    (wire.from = "direct" /\ wire.dst # Broadcast) => wire.mac = NextHop(wire.dst)

\* Sending over IPv4: no address has two entries, a full ring keeps the newest, and a
\* packet whose next hop is resolved goes there (send_ipv4, handle_arp).
ArpTableRight == ArpTypeOK /\ EntriesDistinct /\ NewestKept /\ DirectFramesRight

\* "we store the packet and send it later if we receive the ARP response": the stored
\* packet goes to the host it is for.
StoredFramesRight == (wire.from = "pending") => wire.mac = NextHop(wire.dst)
=============================================================================
