----------------------------- MODULE BootProof -----------------------------
(***************************************************************************)
(* Proofs about booting.                                                   *)
(*                                                                         *)
(* Arp, for every size of the table and every set of hosts: no address has *)
(* two entries, a full table keeps the newest, and a packet whose next hop *)
(* is resolved goes there.                                                 *)
(*                                                                         *)
(* Vtpm, for every size of the command queue and every number of commands: *)
(* an answer is matched with the command it belongs to.                    *)
(*                                                                         *)
(* Dhcp, for any servers and any number of calls: what a call returns was  *)
(* told by one server.                                                     *)
(*                                                                         *)
(* Ipv6, for any hosts, routers and servers: frames reach the neighbour    *)
(* they are for, and a configuration was told to the call that returns it. *)
(*                                                                         *)
(* Sha, for messages of every length: they are padded as the standard says.*)
(***************************************************************************)
EXTENDS Dhcp, Ipv6, Arp, Vtpm, Sha, WellFoundedInduction, TLAPS

-----------------------------------------------------------------------------
(* The inductive invariant of Arp. *)

\* A resolved entry holds the MAC address of its host.
MacsRight == \A i \in Slot : arp_table[i].mac_addr \in {None, arp_table[i].ipv4_addr}

\* A table that was ever written to is not empty.
NotEmptied == (\E i \in Slot : arp_table[i] # NoEntry) => arp_consumer # arp_producer

ArpInv == ArpTypeOK /\ EntriesDistinct /\ MacsRight /\ NotEmptied /\ DirectFramesRight

-----------------------------------------------------------------------------
(* The inductive invariant of Vtpm. *)

CrqSlot == 0 .. (CrqEntries - 1)

Waits == {"wait_init", "wait_size", "wait_cmd"}

Errors == {"crq", "reg", "timeout", "rtce", "send", "handed_over"}

Driver ==
    [qaddr : BOOLEAN, unit : BOOLEAN, cur : CrqSlot, err : Errors \cup {"none"},
     initialized : BOOLEAN, completed : BOOLEAN, size : Int, resp : CrqSlot]

Hypervisor == [open : BOOLEAN, next : CrqSlot, todo : Seq(Int)]

\* The variables have their types.
CrqTypeOK ==
    /\ spapr_vtpm \in Driver
    /\ ring \in [CrqSlot -> Int]
    /\ buffer \in Int /\ sent \in Nat /\ got \in Int
    /\ hv \in Hypervisor
    /\ op \in {"idle", "activate", "registered", "ready"} \cup Waits

\* The message the driver waits for an answer to.
Awaited == CASE op = "wait_init" -> InitMsg
             [] op = "wait_size" -> SizeMsg
             [] OTHER -> sent

\* Both sides are at the same entry and nothing is under way.
InStep == hv.todo = << >> /\ hv.next = spapr_vtpm.cur

\* The message is with the hypervisor, which is at the cleared entry.
Unanswered == /\ hv.todo = <<Awaited>> /\ hv.next = spapr_vtpm.resp
              /\ ring[spapr_vtpm.resp] = Nothing

\* Its answer has arrived, in the entry the driver looks at.
AnswerArrived == /\ InStep
                 /\ ring[spapr_vtpm.resp] = Awaited
                 /\ op \in {"wait_cmd", "ready"} => buffer = sent

\* As long as no operation has failed, at most one message is under way and the two
\* walks of the ring differ by this message only.
OneUnderWay ==
    Working =>
        /\ op \in {"idle", "activate", "registered"} => (hv.open => InStep)
        /\ op = "registered" => hv.open
        /\ op \in Waits => /\ hv.open
                           /\ spapr_vtpm.cur = (spapr_vtpm.resp + 1) % CrqEntries
                           /\ Unanswered \/ AnswerArrived
        /\ op = "ready" => AnswerArrived
        /\ op \in {"wait_cmd", "ready"} => sent > 0

\* A failure ends the operation; from then on nothing is sent or returned.
FailureEnds == ~Working => op \in {"idle", "activate"}

\* What was returned belongs to the latest command.
ReturnedOwn == got # Nothing => got = sent

CrqInv == CrqTypeOK /\ OneUnderWay /\ FailureEnds /\ ReturnedOwn

-----------------------------------------------------------------------------
(* Arithmetic of rings. *)

\* A number less than one lap away from the range is brought back by one lap.
LEMMA OneLap ==
    ASSUME NEW n \in Nat \ {0}, NEW x \in Int, -n <= x, x <= n
    PROVE  x % n = IF x < 0 THEN x + n ELSE IF x < n THEN x ELSE 0
  <1>1. \A q \in Int, r \in 0 .. (n - 1) : (q * n + r) % n = r
    OBVIOUS
  <1>2. CASE x < 0
    <2>1. x + n \in 0 .. (n - 1) /\ (-1) * n + (x + n) = x
      BY <1>2
    <2> QED
      BY <1>1, <1>2, <2>1
  <1>3. CASE 0 <= x /\ x < n
    BY <1>3
  <1>4. CASE x = n
    <2>1. 0 \in 0 .. (n - 1) /\ 1 * n + 0 = x
      BY <1>4
    <2> QED
      BY <1>1, <1>4, <2>1
  <1> QED
    BY <1>2, <1>3, <1>4

-----------------------------------------------------------------------------
(* Arp. *)

\* The constants, as the proofs use them.
LEMMA ArpConstants ==
    /\ ARP_ENTRIES \in Nat \ {0} /\ ARP_ENTRIES > 1
    /\ router_ip \in Subnet /\ None \notin Subnet
    /\ Broadcast \notin Subnet /\ Broadcast \notin Outside
  BY ArpAssumption

\* Slots and the one that follows, without remainders.
LEMMA SlotSteps ==
    ASSUME NEW i \in Slot, NEW c \in Slot
    PROVE  /\ (i - c) % ARP_ENTRIES = IF i < c THEN (i - c) + ARP_ENTRIES ELSE i - c
           /\ (i + 1) % ARP_ENTRIES = IF i + 1 = ARP_ENTRIES THEN 0 ELSE i + 1
           /\ (i - 1) % ARP_ENTRIES = IF i = 0 THEN ARP_ENTRIES - 1 ELSE i - 1
           /\ (i + 1) % ARP_ENTRIES \in Slot
           /\ (i - 1) % ARP_ENTRIES \in Slot
  <1> DEFINE n == ARP_ENTRIES
             x == i - c
             y == i + 1
             z == i - 1
  <1>1. n \in Nat \ {0} /\ n > 1 /\ i \in 0 .. (n - 1) /\ c \in 0 .. (n - 1)
    BY ArpConstants DEF Slot
  <1>2. /\ x \in Int /\ -n <= x /\ x <= n
        /\ y \in Int /\ -n <= y /\ y <= n
        /\ z \in Int /\ -n <= z /\ z <= n
    BY <1>1
  <1> HIDE DEF n, x, y, z
  <1>3. x % n = IF x < 0 THEN x + n ELSE IF x < n THEN x ELSE 0
    BY <1>1, <1>2, OneLap
  <1>4. y % n = IF y < 0 THEN y + n ELSE IF y < n THEN y ELSE 0
    BY <1>1, <1>2, OneLap
  <1>5. z % n = IF z < 0 THEN z + n ELSE IF z < n THEN z ELSE 0
    BY <1>1, <1>2, OneLap
  <1>6. x % n = IF i < c THEN x + n ELSE x
    BY <1>1, <1>2, <1>3 DEF x
  <1>7. y % n = (IF i + 1 = n THEN 0 ELSE i + 1) /\ y % n \in 0 .. (n - 1)
    BY <1>1, <1>2, <1>4 DEF y
  <1>8. z % n = (IF i = 0 THEN n - 1 ELSE i - 1) /\ z % n \in 0 .. (n - 1)
    BY <1>1, <1>2, <1>5 DEF z
  <1> QED
    BY <1>6, <1>7, <1>8 DEF n, x, y, z, Slot

\* When a slot is in use.
LEMMA LiveIs ==
    ASSUME arp_consumer \in Slot, arp_producer \in Slot, NEW i \in Slot
    PROVE  i \in Live <=>
              (IF i < arp_consumer THEN (i - arp_consumer) + ARP_ENTRIES ELSE i - arp_consumer)
                < (IF arp_producer < arp_consumer
                   THEN (arp_producer - arp_consumer) + ARP_ENTRIES
                   ELSE arp_producer - arp_consumer)
  <1>1. (i - arp_consumer) % ARP_ENTRIES =
           IF i < arp_consumer THEN (i - arp_consumer) + ARP_ENTRIES ELSE i - arp_consumer
    BY SlotSteps
  <1>2. (arp_producer - arp_consumer) % ARP_ENTRIES =
           IF arp_producer < arp_consumer THEN (arp_producer - arp_consumer) + ARP_ENTRIES
                                          ELSE arp_producer - arp_consumer
    BY SlotSteps
  <1> QED
    BY <1>1, <1>2 DEF Live

\* The addresses a packet may be sent to next.
LEMMA HopKnown ==
    ASSUME NEW dst \in Subnet \cup Outside
    PROVE  NextHop(dst) \in Subnet
  BY ArpConstants DEF NextHop

\* The empty table.
LEMMA ArpInitRight ==
    ASSUME ArpInit
    PROVE  ArpInv
  <1>1. ArpTypeOK
    <2>1. NoEntry \in [ipv4_addr : Known, mac_addr : Known, pkt_pending : BOOLEAN]
      BY DEF NoEntry, Known
    <2>2. 0 \in Slot
      BY ArpConstants DEF Slot
    <2> QED
      BY <2>1, <2>2 DEF ArpInit, ArpTypeOK
  <1>2. Live = {}
    <2>1. ASSUME NEW i \in Slot, i \in Live PROVE FALSE
      BY <2>1, <1>1, LiveIs, ArpConstants DEF ArpInit, Slot, ArpTypeOK
    <2> QED
      BY <2>1 DEF Live
  <1> QED
    BY <1>1, <1>2 DEF ArpInit, ArpInv, EntriesDistinct, MacsRight, NotEmptied, DirectFramesRight,
                      NoEntry

\* The steps that leave the table alone.
LEMMA ArpTableKept ==
    ASSUME ArpInv, UNCHANGED <<arp_table, arp_consumer, arp_producer>>,
           pending_pkt_frame' \in Subnet \cup Outside \cup {None},
           requests' \subseteq Subnet, replies' \subseteq Subnet, DirectFramesRight'
    PROVE  ArpInv'
  <1>1. ArpTypeOK'
    BY DEF ArpInv, ArpTypeOK
  <1>2. EntriesDistinct' /\ MacsRight' /\ NotEmptied'
    BY DEF ArpInv, EntriesDistinct, Live, MacsRight, NotEmptied
  <1> QED
    BY <1>1, <1>2 DEF ArpInv

\* send_ipv4 with a known MAC address.
LEMMA SendDirectRight ==
    ASSUME ArpInv, NEW dst \in Subnet \cup Outside, SendDirect(dst)
    PROVE  ArpInv'
  <1>1. PICK i \in lookup_mac_addr(NextHop(dst)) :
           /\ Resolved(i)
           /\ wire' = [dst |-> dst, mac |-> arp_table[i].mac_addr, from |-> "direct"]
    BY DEF SendDirect
  <1>2. i \in Slot /\ arp_table[i].ipv4_addr = NextHop(dst)
    BY DEF lookup_mac_addr, Live
  <1>3. arp_table[i].mac_addr = NextHop(dst)
    BY <1>1, <1>2 DEF ArpInv, MacsRight, Resolved
  <1>4. DirectFramesRight'
    BY <1>1, <1>3 DEF DirectFramesRight, NextHop
  <1>5. UNCHANGED <<arp_table, arp_consumer, arp_producer, pending_pkt_frame, requests, replies>>
    BY DEF SendDirect
  <1> QED
    BY <1>4, <1>5, ArpTableKept DEF ArpInv, ArpTypeOK

\* send_ipv4 with no entry for the next hop: a slot is taken, perhaps the oldest
\* entry's.
LEMMA SendStoresRight ==
    ASSUME ArpInv, NEW dst \in Subnet \cup Outside, SendStores(dst)
    PROVE  ArpInv'
  <1> DEFINE p == arp_producer
             c == arp_consumer
             e == [ipv4_addr |-> NextHop(dst), mac_addr |-> None, pkt_pending |-> TRUE]
             next == (p + 1) % ARP_ENTRIES
  <1>1. /\ arp_table \in [Slot -> [ipv4_addr : Known, mac_addr : Known, pkt_pending : BOOLEAN]]
        /\ c \in Slot /\ p \in Slot
    BY DEF ArpInv, ArpTypeOK
  <1>2. /\ arp_table' = [arp_table EXCEPT ![p] = e]
        /\ arp_producer' = next
        /\ arp_consumer' = IF c = next THEN (c + 1) % ARP_ENTRIES ELSE c
        /\ pending_pkt_frame' = dst /\ requests' = requests \cup {NextHop(dst)}
        /\ UNCHANGED <<replies, wire>>
        /\ lookup_mac_addr(NextHop(dst)) = {}
    BY DEF SendStores, DropOldest
  <1>3. NextHop(dst) \in Subnet
    BY HopKnown
  <1>4. /\ next = (IF p + 1 = ARP_ENTRIES THEN 0 ELSE p + 1) /\ next \in Slot
        /\ (c + 1) % ARP_ENTRIES = (IF c + 1 = ARP_ENTRIES THEN 0 ELSE c + 1)
        /\ (c + 1) % ARP_ENTRIES \in Slot
    BY <1>1, SlotSteps
  <1>5. e \in [ipv4_addr : Known, mac_addr : Known, pkt_pending : BOOLEAN]
        /\ e.ipv4_addr = NextHop(dst) /\ e.mac_addr = None /\ e # NoEntry
    <2>1. e \in [ipv4_addr : Known, mac_addr : Known, pkt_pending : BOOLEAN]
      BY <1>3 DEF Known
    <2>2. e.ipv4_addr = NextHop(dst) /\ e.mac_addr = None
      OBVIOUS
    <2>3. NextHop(dst) # None
      BY <1>3, ArpConstants
    <2> QED
      BY <2>1, <2>2, <2>3 DEF NoEntry
  <1> HIDE DEF e, next
  <1>6. ArpTypeOK'
    BY <1>1, <1>2, <1>3, <1>4, <1>5 DEF ArpInv, ArpTypeOK
  <1>7. arp_consumer' # arp_producer'
    BY <1>1, <1>2, <1>4, ArpConstants DEF Slot
  <1>8. ASSUME NEW i \in Live' PROVE i = p \/ i \in Live
    <2>1. i \in Slot
      BY DEF Live
    <2>2. arp_consumer' \in Slot /\ arp_producer' \in Slot
      BY <1>6 DEF ArpTypeOK
    <2>3. (IF i < arp_consumer' THEN (i - arp_consumer') + ARP_ENTRIES ELSE i - arp_consumer')
                < (IF arp_producer' < arp_consumer'
                   THEN (arp_producer' - arp_consumer') + ARP_ENTRIES
                   ELSE arp_producer' - arp_consumer')
      <3>1. (i - arp_consumer') % ARP_ENTRIES =
               IF i < arp_consumer' THEN (i - arp_consumer') + ARP_ENTRIES ELSE i - arp_consumer'
        BY <2>1, <2>2, SlotSteps
      <3>2. (arp_producer' - arp_consumer') % ARP_ENTRIES =
               IF arp_producer' < arp_consumer' THEN (arp_producer' - arp_consumer') + ARP_ENTRIES
                                                ELSE arp_producer' - arp_consumer'
        BY <2>2, SlotSteps
      <3> QED
        BY <3>1, <3>2 DEF Live
    <2>4. i \in Live <=>
              (IF i < c THEN (i - c) + ARP_ENTRIES ELSE i - c)
                < (IF p < c THEN (p - c) + ARP_ENTRIES ELSE p - c)
      BY <1>1, <2>1, LiveIs
    <2> QED
      BY <1>1, <1>2, <1>4, <2>1, <2>3, <2>4, ArpConstants DEF Slot
  <1>9. p \notin Live
    BY <1>1, LiveIs, ArpConstants DEF Slot
  <1>10. ASSUME NEW i \in Live' PROVE i \in Slot /\ (i # p => i \in Live /\ arp_table'[i] = arp_table[i])
    <2>1. i \in Slot
      BY DEF Live
    <2> QED
      BY <1>1, <1>2, <1>8, <2>1
  <1>11. arp_table'[p] = e
    BY <1>1, <1>2
  <1>12. ASSUME NEW i \in Live PROVE arp_table[i].ipv4_addr # NextHop(dst)
    BY <1>2 DEF lookup_mac_addr
  <1>13. EntriesDistinct'
    <2> SUFFICES ASSUME NEW i \in Live', NEW j \in Live',
                        arp_table'[i].ipv4_addr = arp_table'[j].ipv4_addr
                 PROVE  i = j
      BY DEF EntriesDistinct
    <2>1. CASE i # p /\ j # p
      BY <1>10, <2>1 DEF ArpInv, EntriesDistinct
    <2>2. CASE i = p /\ j # p
      BY <1>5, <1>10, <1>11, <1>12, <2>2
    <2>3. CASE i # p /\ j = p
      BY <1>5, <1>10, <1>11, <1>12, <2>3
    <2> QED
      BY <2>1, <2>2, <2>3
  <1>14. MacsRight'
    BY <1>1, <1>2, <1>5 DEF ArpInv, MacsRight
  <1>15. NotEmptied' /\ DirectFramesRight'
    BY <1>2, <1>7 DEF ArpInv, NotEmptied, DirectFramesRight, NextHop
  <1> QED
    BY <1>6, <1>13, <1>14, <1>15 DEF ArpInv

\* An expected reply.
LEMMA ArpReplyRight ==
    ASSUME ArpInv, ArpReply
    PROVE  ArpInv'
  <1>0. PICK ip \in replies : \E i \in Answered(ip) :
           /\ replies' = replies \ {ip}
           /\ arp_table' = [arp_table EXCEPT ![i].mac_addr = ip, ![i].pkt_pending = FALSE]
           /\ wire' = IF arp_table[i].pkt_pending
                      THEN [dst |-> pending_pkt_frame, mac |-> ip, from |-> "pending"] ELSE wire
           /\ UNCHANGED <<arp_consumer, arp_producer, pending_pkt_frame, requests>>
    BY DEF ArpReply
  <1>1. PICK i \in Answered(ip) :
           /\ replies' = replies \ {ip}
           /\ arp_table' = [arp_table EXCEPT ![i].mac_addr = ip, ![i].pkt_pending = FALSE]
           /\ wire' = IF arp_table[i].pkt_pending
                      THEN [dst |-> pending_pkt_frame, mac |-> ip, from |-> "pending"] ELSE wire
           /\ UNCHANGED <<arp_consumer, arp_producer, pending_pkt_frame, requests>>
    BY <1>0
  <1>2. /\ arp_table \in [Slot -> [ipv4_addr : Known, mac_addr : Known, pkt_pending : BOOLEAN]]
        /\ arp_consumer \in Slot /\ arp_producer \in Slot /\ ip \in Subnet
    BY DEF ArpInv, ArpTypeOK
  <1>3. i \in Slot /\ i \in Live /\ arp_table[i].ipv4_addr = ip
    BY DEF Answered, lookup_mac_addr, Live
  <1> DEFINE t == [arp_table EXCEPT ![i].mac_addr = ip, ![i].pkt_pending = FALSE]
  <1>4. /\ t \in [Slot -> [ipv4_addr : Known, mac_addr : Known, pkt_pending : BOOLEAN]]
        /\ t[i].mac_addr = ip
        /\ \A j \in Slot : t[j].ipv4_addr = arp_table[j].ipv4_addr
        /\ \A j \in Slot : j # i => t[j] = arp_table[j]
    BY <1>2, <1>3 DEF Known
  <1>5. arp_table' = t
    BY <1>1
  <1> HIDE DEF t
  <1>6. ArpTypeOK'
    BY <1>1, <1>4, <1>5 DEF ArpInv, ArpTypeOK
  <1>7. Live' = Live
    BY <1>1 DEF Live
  <1>8. EntriesDistinct'
    BY <1>4, <1>5, <1>7 DEF ArpInv, EntriesDistinct, Live
  <1>9. MacsRight'
    BY <1>3, <1>4, <1>5 DEF ArpInv, MacsRight
  <1>10. NotEmptied'
    <2>1. arp_consumer # arp_producer
      BY <1>2, <1>3, LiveIs, ArpConstants DEF Slot
    <2> QED
      BY <1>1, <2>1 DEF NotEmptied
  <1>11. DirectFramesRight'
    BY <1>1 DEF ArpInv, DirectFramesRight, NextHop
  <1> QED
    BY <1>6, <1>8, <1>9, <1>10, <1>11 DEF ArpInv

\* Every step of the IPv4 layer and of the network keeps the invariant of Arp.
LEMMA ArpInductive ==
    ASSUME ArpInv, [ArpNext]_arpvars
    PROVE  ArpInv'
  <1>1. CASE SendBroadcast
    <2>1. DirectFramesRight'
      BY <1>1 DEF SendBroadcast, DirectFramesRight
    <2> QED
      BY <1>1, <2>1, ArpTableKept DEF SendBroadcast, ArpInv, ArpTypeOK
  <1>2. ASSUME NEW dst \in Subnet \cup Outside, SendDirect(dst) PROVE ArpInv'
    BY <1>2, SendDirectRight
  <1>3. ASSUME NEW dst \in Subnet \cup Outside, SendDrops(dst) PROVE ArpInv'
    <2>1. NextHop(dst) \in Subnet
      BY HopKnown
    <2>2. DirectFramesRight'
      BY <1>3 DEF SendDrops, ArpInv, DirectFramesRight, NextHop
    <2> QED
      BY <1>3, <2>1, <2>2, ArpTableKept DEF SendDrops, ArpInv, ArpTypeOK
  <1>4. ASSUME NEW dst \in Subnet \cup Outside, SendStores(dst) PROVE ArpInv'
    BY <1>4, SendStoresRight
  <1>5. CASE ArpReply
    BY <1>5, ArpReplyRight
  <1>6. CASE ArpReplyIgnored \/ HostAnswers \/ LosePacket \/ UNCHANGED arpvars
    <2>1. /\ UNCHANGED <<arp_table, arp_consumer, arp_producer, pending_pkt_frame, wire>>
          /\ requests' \subseteq requests /\ replies' \subseteq replies \cup requests
      BY <1>6 DEF ArpReplyIgnored, HostAnswers, LosePacket, arpvars
    <2>2. DirectFramesRight'
      BY <2>1 DEF ArpInv, DirectFramesRight, NextHop
    <2>3. requests' \subseteq Subnet /\ replies' \subseteq Subnet
      BY <2>1 DEF ArpInv, ArpTypeOK
    <2> QED
      BY <2>1, <2>2, <2>3, ArpTableKept DEF ArpInv, ArpTypeOK
  <1> QED
    BY <1>1, <1>2, <1>3, <1>4, <1>5, <1>6 DEF ArpNext, send_ipv4

\* The newest entry is in use unless the table was never written to.
LEMMA NewestIsLive ==
    ASSUME ArpInv
    PROVE  NewestKept
  <1> SUFFICES ASSUME \E i \in Slot : arp_table[i] # NoEntry
               PROVE  (arp_producer - 1) % ARP_ENTRIES \in Live
    BY DEF NewestKept
  <1> DEFINE x == (arp_producer - 1) % ARP_ENTRIES
  <1>1. /\ arp_consumer \in Slot /\ arp_producer \in Slot /\ arp_consumer # arp_producer
    BY DEF ArpInv, ArpTypeOK, NotEmptied
  <1>2. x \in Slot /\ x = IF arp_producer = 0 THEN ARP_ENTRIES - 1 ELSE arp_producer - 1
    BY <1>1, SlotSteps
  <1> HIDE DEF x
  <1>3. x \in Live
    BY <1>1, <1>2, LiveIs, ArpConstants DEF Slot
  <1> QED
    BY <1>3 DEF x

\* Sending over IPv4, for every size of the ARP table and every set of hosts: no address
\* has two entries, also after the ring has dropped entries and an address has come back;
\* a full table keeps its newest entry; and a packet whose next hop is resolved goes
\* there (send_ipv4, lookup_mac_addr, handle_arp).
THEOREM ArpRight == ArpSpec => []ArpTableRight
  <1>1. ArpInit => ArpInv
    BY ArpInitRight
  <1>2. ArpInv /\ [ArpNext]_arpvars => ArpInv'
    BY ArpInductive
  <1>3. ArpInv => ArpTableRight
    BY NewestIsLive DEF ArpInv, ArpTableRight
  <1> QED
    BY <1>1, <1>2, <1>3, PTL DEF ArpSpec

-----------------------------------------------------------------------------
(* Vtpm. *)

\* The ring has an entry.
LEMMA CrqConstants ==
    /\ CrqEntries \in Nat \ {0} /\ CrqEntries > 1 /\ 0 \in CrqSlot /\ MinSize \in Nat
  BY CrqAssumption DEF CrqSlot

\* The entry that follows, for the driver and for the hypervisor.
LEMMA EntryFollowing ==
    ASSUME NEW x \in CrqSlot
    PROVE  /\ (x + 1) % CrqEntries \in CrqSlot
           /\ (x + 1) % CrqEntries = IF x + 1 = CrqEntries THEN 0 ELSE x + 1
           /\ (x + 1) % CrqEntries # x
  <1> DEFINE y == x + 1
             n == CrqEntries
  <1>1. n \in Nat \ {0} /\ n > 1 /\ x \in 0 .. (n - 1)
    BY CrqConstants DEF CrqSlot
  <1>2. y \in Int /\ -n <= y /\ y <= n
    BY <1>1
  <1> HIDE DEF y, n
  <1>3. y % n = IF y < 0 THEN y + n ELSE IF y < n THEN y ELSE 0
    BY <1>1, <1>2, OneLap
  <1> QED
    BY <1>1, <1>2, <1>3 DEF y, n, CrqSlot

\* The entry after one stays in the ring.
LEMMA NextEntryIs ==
    ASSUME NEW d, d.cur \in CrqSlot
    PROVE  NextEntry(d) = (d.cur + 1) % CrqEntries
  BY EntryFollowing DEF NextEntry

\* The driver before its first call.
LEMMA CrqInitRight ==
    ASSUME CrqInit
    PROVE  CrqInv
  <1>1. spapr_vtpm \in Driver /\ hv \in Hypervisor /\ ring \in [CrqSlot -> Int]
    BY CrqConstants DEF CrqInit, vtpm_init, Driver, Hypervisor, CrqSlot, Nothing
  <1>2. CrqTypeOK
    BY <1>1 DEF CrqInit, CrqTypeOK, Nothing
  <1>3. OneUnderWay /\ FailureEnds /\ ReturnedOwn
    BY DEF CrqInit, OneUnderWay, FailureEnds, ReturnedOwn, Waits, Working, vtpm_init
  <1> QED
    BY <1>2, <1>3 DEF CrqInv

\* A message is sent: its entry is cleared and it is the only one under way.
LEMMA MessageSent ==
    ASSUME CrqInv, Working, hv.open, op \in {"idle", "registered"}, NEW c \in Int,
           ring' = Cleared, hv_send_crq(c),
           spapr_vtpm' = spapr_get_response_crq(spapr_vtpm)
    PROVE  /\ spapr_vtpm' \in Driver /\ ring' \in [CrqSlot -> Int] /\ hv' \in Hypervisor
           /\ Working' /\ hv'.open
           /\ spapr_vtpm'.cur = (spapr_vtpm'.resp + 1) % CrqEntries
           /\ hv'.todo = <<c>> /\ hv'.next = spapr_vtpm'.resp
           /\ ring'[spapr_vtpm'.resp] = Nothing
  <1> DEFINE x == spapr_vtpm.cur
  <1>1. /\ spapr_vtpm \in Driver /\ x \in CrqSlot /\ spapr_vtpm.err = "none"
        /\ hv \in Hypervisor /\ hv.todo \in Seq(Int) /\ ring \in [CrqSlot -> Int]
    BY DEF CrqInv, CrqTypeOK, Driver, Hypervisor, Working
  <1>2. hv.todo = << >> /\ hv.next = x
    BY DEF CrqInv, OneUnderWay, InStep
  <1>3. NextEntry(spapr_vtpm) = (x + 1) % CrqEntries /\ (x + 1) % CrqEntries \in CrqSlot
    BY <1>1, NextEntryIs, EntryFollowing
  <1>4. /\ spapr_vtpm' \in Driver /\ spapr_vtpm'.resp = x
        /\ spapr_vtpm'.cur = (x + 1) % CrqEntries /\ spapr_vtpm'.err = "none"
    BY <1>1, <1>3 DEF spapr_get_response_crq, Driver
  <1>5. ring' \in [CrqSlot -> Int] /\ ring'[x] = Nothing
    BY <1>1 DEF Cleared, spapr_get_crq, Nothing
  <1>6. hv' \in Hypervisor /\ hv'.todo = <<c>> /\ hv'.next = x /\ hv'.open = hv.open
    <2> DEFINE t == Append(hv.todo, c)
    <2>1. t = <<c>> /\ t \in Seq(Int)
      BY <1>1, <1>2
    <2>2. hv' = [hv EXCEPT !.todo = t]
      BY DEF hv_send_crq
    <2> HIDE DEF t
    <2>3. hv' \in Hypervisor /\ hv'.todo = t /\ hv'.next = hv.next /\ hv'.open = hv.open
      BY <1>1, <2>1, <2>2 DEF Hypervisor
    <2> QED
      BY <1>2, <2>1, <2>3
  <1> QED
    BY <1>4, <1>5, <1>6 DEF Working

\* An operation fails: whatever the queue holds, nothing is waited for any more.
LEMMA Failed ==
    ASSUME spapr_vtpm' \in Driver, spapr_vtpm'.err # "none", op' \in {"idle", "activate"},
           ring' \in [CrqSlot -> Int], hv' \in Hypervisor,
           buffer' \in Int, sent' \in Nat, got' \in Int, ReturnedOwn'
    PROVE  CrqInv'
  BY DEF CrqInv, CrqTypeOK, OneUnderWay, FailureEnds, Working, Waits

\* The error exit of spapr_vtpm_activate.
LEMMA ErrExitFails ==
    ASSUME NEW d \in Driver, NEW e \in Errors, ErrExit(vtpm_drv_state_set(d, e))
    PROVE  /\ spapr_vtpm' \in Driver /\ spapr_vtpm'.err # "none"
           /\ hv' \in Hypervisor /\ op' = "idle"
  <1>1. hv' = [open |-> FALSE, next |-> 0, todo |-> << >>] /\ op' = "idle"
    BY DEF ErrExit
  <1>2. hv' \in Hypervisor
    BY <1>1, CrqConstants DEF Hypervisor
  <1>3. spapr_vtpm' = [[d EXCEPT !.err = e] EXCEPT !.unit = FALSE]
    BY DEF ErrExit, vtpm_drv_state_set
  <1>4. spapr_vtpm' \in Driver /\ spapr_vtpm'.err = e
    BY <1>3 DEF Driver
  <1>5. e # "none"
    BY DEF Errors
  <1> QED
    BY <1>1, <1>2, <1>4, <1>5

\* The parts of the driver's state that spapr_get_response_crq sets.
LEMMA ResponseType ==
    ASSUME NEW d \in Driver
    PROVE  spapr_get_response_crq(d) \in Driver
  <1>1. d.cur \in CrqSlot
    BY DEF Driver
  <1>2. NextEntry(d) \in CrqSlot
    BY <1>1, NextEntryIs, EntryFollowing
  <1> QED
    BY <1>1, <1>2 DEF spapr_get_response_crq, Driver

\* An entry that is cleared is still an entry.
LEMMA ClearedType ==
    ASSUME CrqTypeOK
    PROVE  Cleared \in [CrqSlot -> Int]
  BY DEF CrqTypeOK, Driver, Cleared, spapr_get_crq, Nothing

-----------------------------------------------------------------------------
(* One lemma per operation. *)

\* spapr_is_vtpm_present.
LEMMA ProbeRight ==
    ASSUME CrqInv, spapr_vtpm_probe \/ spapr_is_vtpm_present
    PROVE  CrqInv'
  <1>1. UNCHANGED <<ring, buffer, hv, sent, got>> /\ op = "idle" /\ op' \in {"idle", "activate"}
    BY DEF spapr_vtpm_probe, spapr_is_vtpm_present
  <1>2. spapr_vtpm \in Driver
    BY DEF CrqInv, CrqTypeOK
  <1>3. /\ spapr_vtpm' \in Driver /\ spapr_vtpm'.err = spapr_vtpm.err
        /\ spapr_vtpm'.cur = spapr_vtpm.cur
    <2>1. CASE spapr_is_vtpm_present
      BY <2>1, <1>2 DEF spapr_is_vtpm_present
    <2>2. CASE spapr_vtpm_probe
      <3>1. PICK unit \in BOOLEAN :
               spapr_vtpm' = [spapr_vtpm EXCEPT !.qaddr = TRUE, !.unit = unit]
        BY <2>2 DEF spapr_vtpm_probe
      <3> QED
        BY <3>1, <1>2 DEF Driver
    <2> QED
      BY <2>1, <2>2
  <1>4. CrqTypeOK'
    BY <1>1, <1>3 DEF CrqInv, CrqTypeOK
  <1>5. OneUnderWay'
    BY <1>1, <1>3 DEF CrqInv, OneUnderWay, Working, InStep, Waits
  <1>6. FailureEnds' /\ ReturnedOwn'
    BY <1>1 DEF CrqInv, FailureEnds, ReturnedOwn
  <1> QED
    BY <1>4, <1>5, <1>6 DEF CrqInv

\* The start of the activation.
LEMMA ActivateRight ==
    ASSUME CrqInv, spapr_vtpm_activate
    PROVE  CrqInv'
  <1>1. UNCHANGED <<ring, buffer, sent, got>> /\ op = "activate"
    BY DEF spapr_vtpm_activate
  <1>2. spapr_vtpm \in Driver /\ hv \in Hypervisor
    BY DEF CrqInv, CrqTypeOK
  <1>3. FailureEnds' /\ ReturnedOwn' /\ CrqTypeOK' /\ OneUnderWay'
    <2>1. CASE ~Working
      <3>1. op' = "idle" /\ UNCHANGED <<spapr_vtpm, hv>>
        BY <2>1 DEF spapr_vtpm_activate, vtpm_drv_error_get
      <3> QED
        BY <1>1, <2>1, <3>1 DEF CrqInv, CrqTypeOK, FailureEnds, ReturnedOwn, OneUnderWay, Working
    <2>2. CASE /\ Working
               /\ hv' = [open |-> TRUE, next |-> 0, todo |-> << >>]
               /\ spapr_vtpm' = [spapr_vtpm EXCEPT !.cur = 0]
               /\ op' = "registered"
      <3>1. /\ spapr_vtpm' \in Driver /\ spapr_vtpm'.cur = 0 /\ spapr_vtpm'.err = "none"
        BY <1>2, <2>2, CrqConstants DEF Driver, Working
      <3>2. hv' \in Hypervisor /\ hv'.open /\ hv'.next = 0 /\ hv'.todo = << >>
        BY <2>2, CrqConstants DEF Hypervisor
      <3>3. CrqTypeOK'
        BY <1>1, <2>2, <3>1, <3>2 DEF CrqInv, CrqTypeOK
      <3>4. OneUnderWay'
        BY <2>2, <3>1, <3>2 DEF OneUnderWay, Waits, InStep
      <3>5. FailureEnds' /\ ReturnedOwn'
        BY <1>1, <3>1 DEF CrqInv, FailureEnds, ReturnedOwn, Working
      <3> QED
        BY <3>3, <3>4, <3>5
    <2>3. CASE /\ Working
               /\ spapr_vtpm' = vtpm_drv_state_set(spapr_vtpm, "reg")
               /\ op' = "idle" /\ UNCHANGED hv
      <3>1. spapr_vtpm' \in Driver /\ spapr_vtpm'.err # "none"
        BY <1>2, <2>3 DEF Driver, vtpm_drv_state_set, Errors
      <3>2. ReturnedOwn'
        BY <1>1 DEF CrqInv, ReturnedOwn
      <3>3. CrqInv'
        BY <1>1, <2>3, <3>1, <3>2, Failed DEF CrqInv, CrqTypeOK
      <3> QED
        BY <3>3 DEF CrqInv
    <2> QED
      BY <2>1, <2>2, <2>3 DEF spapr_vtpm_activate, vtpm_drv_error_get
  <1> QED
    BY <1>3 DEF CrqInv

\* The two set-up messages.
LEMMA SetUpSent ==
    ASSUME CrqInv, op = "registered", UNCHANGED <<buffer, sent, got>>,
           NEW c, NEW w,
           (c = InitMsg /\ w = "wait_init") \/ (c = SizeMsg /\ w = "wait_size"),
           spapr_send_crq_and_wait(c, w)
    PROVE  CrqInv'
  <1> DEFINE d == spapr_get_response_crq(spapr_vtpm)
  <1>1. Working /\ ReturnedOwn' /\ ring' = Cleared
    BY DEF CrqInv, FailureEnds, ReturnedOwn, spapr_send_crq_and_wait
  <1>2. CASE hv.open /\ hv_send_crq(c) /\ op' = w /\ spapr_vtpm' = d
    <2>1. c \in Int
      BY DEF InitMsg, SizeMsg
    <2>2. /\ spapr_vtpm' \in Driver /\ ring' \in [CrqSlot -> Int] /\ hv' \in Hypervisor
          /\ Working' /\ hv'.open
          /\ spapr_vtpm'.cur = (spapr_vtpm'.resp + 1) % CrqEntries
          /\ hv'.todo = <<c>> /\ hv'.next = spapr_vtpm'.resp
          /\ ring'[spapr_vtpm'.resp] = Nothing
      BY <1>1, <1>2, <2>1, MessageSent
    <2>3. op' = w /\ w \in {"wait_init", "wait_size"} /\ Awaited' = c
      BY <1>2 DEF Awaited
    <2>4. CrqTypeOK'
      BY <2>2, <2>3 DEF CrqInv, CrqTypeOK, Waits
    <2>5. Unanswered'
      BY <2>2, <2>3 DEF Unanswered
    <2>6. OneUnderWay'
      BY <2>2, <2>3, <2>5 DEF OneUnderWay
    <2>7. FailureEnds'
      BY <2>2 DEF FailureEnds
    <2> QED
      BY <1>1, <2>4, <2>6, <2>7 DEF CrqInv
  <1>3. CASE ErrExit(vtpm_drv_state_set(d, "crq"))
    <2>1. d \in Driver /\ "crq" \in Errors
      BY ResponseType DEF CrqInv, CrqTypeOK, Errors
    <2> HIDE DEF d
    <2>2. /\ spapr_vtpm' \in Driver /\ spapr_vtpm'.err # "none"
          /\ hv' \in Hypervisor /\ op' = "idle"
      BY <1>3, <2>1, ErrExitFails
    <2>3. ring' \in [CrqSlot -> Int]
      BY <1>1, ClearedType DEF CrqInv
    <2> QED
      BY <1>1, <2>2, <2>3, Failed DEF CrqInv, CrqTypeOK
  <1> QED
    BY <1>2, <1>3 DEF spapr_send_crq_and_wait

\* The driver sends INIT.
LEMMA SendInitRight ==
    ASSUME CrqInv, SendInit
    PROVE  CrqInv'
  BY SetUpSent DEF SendInit

\* The driver asks for the version or the size of the buffer.
LEMMA GetParamsRight ==
    ASSUME CrqInv, spapr_vtpm_get_params
    PROVE  CrqInv'
  <1>1. op = "registered" /\ UNCHANGED <<buffer, sent, got>>
    BY DEF spapr_vtpm_get_params
  <1>2. CASE op' = "idle" /\ UNCHANGED <<spapr_vtpm, ring, hv>>
    <2>1. CrqTypeOK' /\ FailureEnds' /\ ReturnedOwn'
      BY <1>1, <1>2 DEF CrqInv, CrqTypeOK, FailureEnds, ReturnedOwn, Working
    <2>2. OneUnderWay'
      BY <1>1, <1>2 DEF CrqInv, OneUnderWay, Working, InStep, Waits
    <2> QED
      BY <2>1, <2>2 DEF CrqInv
  <1>3. CASE spapr_send_crq_and_wait(SizeMsg, "wait_size")
    BY <1>1, <1>3, SetUpSent
  <1> QED
    BY <1>2, <1>3 DEF spapr_vtpm_get_params

\* The set-up messages' waits end: with the answer, or by giving up.
LEMMA InitDoneRight ==
    ASSUME CrqInv, InitDone
    PROVE  CrqInv'
  <1>1. op = "wait_init" /\ UNCHANGED <<ring, buffer, sent, got>>
    BY DEF InitDone
  <1>2. spapr_vtpm \in Driver /\ Working /\ ReturnedOwn'
    BY <1>1 DEF CrqInv, CrqTypeOK, FailureEnds, ReturnedOwn
  <1>3. CASE ring[spapr_vtpm.resp] # Nothing
    <2>1. /\ spapr_vtpm' = [spapr_vtpm EXCEPT !.initialized = TRUE]
          /\ op' = "registered" /\ UNCHANGED hv
      BY <1>3 DEF InitDone
    <2>2. /\ spapr_vtpm' \in Driver /\ spapr_vtpm'.cur = spapr_vtpm.cur
          /\ spapr_vtpm'.err = spapr_vtpm.err
      BY <1>2, <2>1 DEF Driver
    <2>3. hv.open /\ InStep
      BY <1>1, <1>2, <1>3 DEF CrqInv, OneUnderWay, Unanswered, AnswerArrived, Waits
    <2>4. CrqTypeOK'
      BY <1>1, <2>1, <2>2 DEF CrqInv, CrqTypeOK
    <2>5. OneUnderWay' /\ FailureEnds'
      BY <1>2, <2>1, <2>2, <2>3 DEF OneUnderWay, FailureEnds, InStep, Waits, Working
    <2> QED
      BY <1>2, <2>4, <2>5 DEF CrqInv
  <1>4. CASE ErrExit(vtpm_drv_state_set(spapr_vtpm, "timeout"))
    <2>1. /\ spapr_vtpm' \in Driver /\ spapr_vtpm'.err # "none"
          /\ hv' \in Hypervisor /\ op' = "idle"
      BY <1>2, <1>4, ErrExitFails DEF Errors
    <2> QED
      BY <1>1, <1>2, <2>1, Failed DEF CrqInv, CrqTypeOK
  <1> QED
    BY <1>3, <1>4 DEF InitDone

\* The driver has its parameters.
LEMMA ParamsDoneRight ==
    ASSUME CrqInv, ParamsDone
    PROVE  CrqInv'
  <1>1. op = "wait_size" /\ UNCHANGED <<ring, buffer, sent, got>>
    BY DEF ParamsDone
  <1>2. spapr_vtpm \in Driver /\ Working /\ ReturnedOwn'
    BY <1>1 DEF CrqInv, CrqTypeOK, FailureEnds, ReturnedOwn
  <1>3. ASSUME NEW size \in {MinSize - 1, MinSize}, ring[spapr_vtpm.resp] # Nothing,
               spapr_vtpm' = [spapr_vtpm EXCEPT !.size = size, !.completed = TRUE],
               op' = "idle", UNCHANGED hv
        PROVE  CrqInv'
    <2>1. size \in Int
      BY CrqConstants
    <2>2. /\ spapr_vtpm' \in Driver /\ spapr_vtpm'.cur = spapr_vtpm.cur
          /\ spapr_vtpm'.err = spapr_vtpm.err
      BY <1>2, <1>3, <2>1 DEF Driver
    <2>3. hv.open /\ InStep
      BY <1>1, <1>2, <1>3 DEF CrqInv, OneUnderWay, Unanswered, AnswerArrived, Waits
    <2>4. CrqTypeOK'
      BY <1>1, <1>3, <2>2 DEF CrqInv, CrqTypeOK
    <2>5. OneUnderWay' /\ FailureEnds'
      BY <1>2, <1>3, <2>2, <2>3 DEF OneUnderWay, FailureEnds, InStep, Waits, Working
    <2> QED
      BY <1>2, <2>4, <2>5 DEF CrqInv
  <1>4. ASSUME NEW d \in Driver, NEW e \in Errors, ErrExit(vtpm_drv_state_set(d, e))
        PROVE  CrqInv'
    <2>1. /\ spapr_vtpm' \in Driver /\ spapr_vtpm'.err # "none"
          /\ hv' \in Hypervisor /\ op' = "idle"
      BY <1>4, ErrExitFails
    <2> QED
      BY <1>1, <1>2, <2>1, Failed DEF CrqInv, CrqTypeOK
  <1>5. ASSUME NEW size \in {MinSize - 1, MinSize} PROVE [spapr_vtpm EXCEPT !.size = size] \in Driver
    <2>1. size \in Int
      BY CrqConstants
    <2> QED
      BY <1>2, <2>1 DEF Driver
  <1>6. "rtce" \in Errors /\ "timeout" \in Errors
    BY DEF Errors
  <1> QED
    BY <1>2, <1>3, <1>4, <1>5, <1>6 DEF ParamsDone

\* A command is sent.
LEMMA SendDataRight ==
    ASSUME CrqInv, spapr_vtpm_senddata
    PROVE  CrqInv'
  <1> DEFINE d == spapr_get_response_crq(spapr_vtpm)
             c == sent + 1
  <1>1. op = "idle" /\ Working /\ got' = Nothing
    BY DEF spapr_vtpm_senddata, vtpm_drv_error_get
  <1>2. ReturnedOwn' /\ got' \in Int
    BY <1>1 DEF ReturnedOwn, Nothing
  <1>3. CASE UNCHANGED <<spapr_vtpm, ring, buffer, hv, op, sent>>
    <2>1. CrqTypeOK' /\ FailureEnds'
      BY <1>2, <1>3 DEF CrqInv, CrqTypeOK, FailureEnds, Working
    <2>2. OneUnderWay'
      BY <1>1, <1>3 DEF CrqInv, OneUnderWay, Working, InStep, Waits
    <2> QED
      BY <1>2, <2>1, <2>2 DEF CrqInv
  <1>4. c \in Int /\ c \in Nat /\ c > 0
    BY DEF CrqInv, CrqTypeOK
  <1>5. ASSUME sent' = c, buffer' = c, ring' = Cleared, hv.open, hv_send_crq(c),
               spapr_vtpm' = d, op' = "wait_cmd"
        PROVE  CrqInv'
    <2> HIDE DEF c
    <2>1. /\ spapr_vtpm' \in Driver /\ ring' \in [CrqSlot -> Int] /\ hv' \in Hypervisor
          /\ Working' /\ hv'.open
          /\ spapr_vtpm'.cur = (spapr_vtpm'.resp + 1) % CrqEntries
          /\ hv'.todo = <<c>> /\ hv'.next = spapr_vtpm'.resp
          /\ ring'[spapr_vtpm'.resp] = Nothing
      BY <1>1, <1>4, <1>5, MessageSent
    <2>2. Awaited' = c
      BY <1>5 DEF Awaited
    <2>3. CrqTypeOK'
      BY <1>2, <1>4, <1>5, <2>1 DEF CrqTypeOK, Waits
    <2>4. Unanswered'
      BY <2>1, <2>2 DEF Unanswered
    <2>5. OneUnderWay'
      BY <1>4, <1>5, <2>1, <2>4 DEF OneUnderWay
    <2>6. FailureEnds'
      BY <2>1 DEF FailureEnds
    <2> QED
      BY <1>2, <2>3, <2>5, <2>6 DEF CrqInv
  <1>6. ASSUME sent' = c, buffer' = c, ring' = Cleared,
               spapr_vtpm' = vtpm_drv_state_set(d, "send"), op' = "idle", UNCHANGED hv
        PROVE  CrqInv'
    <2>1. d \in Driver /\ hv \in Hypervisor
      BY ResponseType DEF CrqInv, CrqTypeOK
    <2> HIDE DEF c, d
    <2>2. spapr_vtpm' \in Driver /\ spapr_vtpm'.err # "none"
      BY <1>6, <2>1 DEF vtpm_drv_state_set, Driver, Errors
    <2>3. ring' \in [CrqSlot -> Int]
      BY <1>6, ClearedType DEF CrqInv
    <2> QED
      BY <1>2, <1>4, <1>6, <2>1, <2>2, <2>3, Failed
  <1> QED
    BY <1>3, <1>5, <1>6 DEF spapr_vtpm_senddata

\* The wait for a command's answer ends.
LEMMA WaitRight ==
    ASSUME CrqInv, spapr_vtpm_waitresponseready
    PROVE  CrqInv'
  <1>1. op = "wait_cmd" /\ UNCHANGED <<ring, buffer, hv, sent, got>>
    BY DEF spapr_vtpm_waitresponseready
  <1>2. spapr_vtpm \in Driver /\ Working /\ ReturnedOwn'
    BY <1>1 DEF CrqInv, CrqTypeOK, FailureEnds, ReturnedOwn
  <1>3. CASE ring[spapr_vtpm.resp] # Nothing /\ op' = "ready" /\ UNCHANGED spapr_vtpm
    <2>1. AnswerArrived /\ sent > 0
      BY <1>1, <1>2, <1>3 DEF CrqInv, OneUnderWay, Unanswered, Waits
    <2>2. AnswerArrived' /\ sent' > 0
      BY <1>1, <1>3, <2>1 DEF AnswerArrived, InStep, Awaited
    <2>3. CrqTypeOK'
      BY <1>1, <1>3 DEF CrqInv, CrqTypeOK
    <2>4. OneUnderWay' /\ FailureEnds'
      BY <1>2, <1>3, <2>2 DEF OneUnderWay, FailureEnds, Waits, Working
    <2> QED
      BY <1>2, <2>3, <2>4 DEF CrqInv
  <1>4. CASE spapr_vtpm' = vtpm_drv_state_set(spapr_vtpm, "timeout") /\ op' = "idle"
    <2>1. spapr_vtpm' \in Driver /\ spapr_vtpm'.err # "none"
      BY <1>2, <1>4 DEF vtpm_drv_state_set, Driver, Errors
    <2> QED
      BY <1>1, <1>2, <1>4, <2>1, Failed DEF CrqInv, CrqTypeOK
  <1> QED
    BY <1>3, <1>4 DEF spapr_vtpm_waitresponseready

\* The answer is read.
LEMMA ReadRight ==
    ASSUME CrqInv, spapr_vtpm_readresponse
    PROVE  CrqInv'
  <1>1. /\ op = "ready" /\ op' = "idle" /\ got' = buffer
        /\ UNCHANGED <<spapr_vtpm, ring, buffer, hv, sent>>
    BY DEF spapr_vtpm_readresponse
  <1>2. Working
    BY <1>1 DEF CrqInv, FailureEnds
  <1>3. AnswerArrived
    BY <1>1, <1>2 DEF CrqInv, OneUnderWay
  <1>4. buffer = sent /\ InStep
    BY <1>1, <1>3 DEF AnswerArrived
  <1>5. CrqTypeOK' /\ ReturnedOwn'
    BY <1>1, <1>4 DEF CrqInv, CrqTypeOK, ReturnedOwn
  <1>6. OneUnderWay' /\ FailureEnds'
    BY <1>1, <1>2, <1>4 DEF OneUnderWay, FailureEnds, InStep, Waits, Working
  <1> QED
    BY <1>5, <1>6 DEF CrqInv

\* The hand-over and the quiesce hook.
LEMMA EndRight ==
    ASSUME CrqInv, spapr_vtpm_set_error \/ spapr_vtpm_finalize
    PROVE  CrqInv'
  <1>1. UNCHANGED <<ring, buffer, op, sent, got>> /\ op = "idle"
    BY DEF spapr_vtpm_set_error, spapr_vtpm_finalize
  <1>2. spapr_vtpm \in Driver /\ ReturnedOwn'
    BY <1>1 DEF CrqInv, CrqTypeOK, ReturnedOwn
  <1>3. CASE spapr_vtpm_set_error
    <2>1. spapr_vtpm' \in Driver /\ spapr_vtpm'.err # "none" /\ UNCHANGED hv
      BY <1>2, <1>3 DEF spapr_vtpm_set_error, vtpm_drv_state_set, Driver, Errors
    <2> QED
      BY <1>1, <1>2, <2>1, Failed DEF CrqInv, CrqTypeOK
  <1>4. CASE spapr_vtpm_finalize
    <2>1. /\ hv' \in Hypervisor /\ hv'.open = FALSE
      BY <1>4, CrqConstants DEF spapr_vtpm_finalize, Hypervisor
    <2>2. spapr_vtpm' \in Driver /\ spapr_vtpm'.err = spapr_vtpm.err
      BY <1>2, <1>4 DEF spapr_vtpm_finalize, Driver
    <2>3. CrqTypeOK'
      BY <1>1, <2>1, <2>2 DEF CrqInv, CrqTypeOK
    <2>4. OneUnderWay' /\ FailureEnds'
      BY <1>1, <2>1, <2>2 DEF CrqInv, OneUnderWay, FailureEnds, Waits, Working
    <2> QED
      BY <1>2, <2>3, <2>4 DEF CrqInv
  <1> QED
    BY <1>3, <1>4

\* The hypervisor answers: if the driver still waits, in the entry it looks at.
LEMMA AnswerRight ==
    ASSUME CrqInv, Answer
    PROVE  CrqInv'
  <1> DEFINE c == Head(hv.todo)
             x == hv.next
             r == spapr_vtpm.resp
             free == ring[x] = Nothing
             nx == (x + 1) % CrqEntries
  <1>1. /\ hv.open /\ hv.todo # << >>
        /\ hv' = [hv EXCEPT !.todo = Tail(hv.todo), !.next = IF free THEN nx ELSE x]
        /\ ring' = IF free THEN [ring EXCEPT ![x] = c] ELSE ring
        /\ buffer' = IF c > 0 THEN c ELSE buffer
        /\ UNCHANGED <<spapr_vtpm, op, sent, got>>
    BY DEF Answer
  <1>2. /\ hv \in Hypervisor /\ hv.todo \in Seq(Int) /\ x \in CrqSlot
        /\ ring \in [CrqSlot -> Int] /\ buffer \in Int
        /\ spapr_vtpm \in Driver /\ r \in CrqSlot
    BY DEF CrqInv, CrqTypeOK, Hypervisor, Driver
  <1>3. c \in Int /\ Tail(hv.todo) \in Seq(Int)
    BY <1>1, <1>2
  <1>4. nx \in CrqSlot
    BY <1>2, EntryFollowing
  <1> HIDE DEF c, x, free, nx, r
  <1>5. /\ hv' \in Hypervisor /\ hv'.open = hv.open
        /\ hv'.todo = Tail(hv.todo) /\ hv'.next = IF free THEN nx ELSE x
    BY <1>1, <1>2, <1>3, <1>4 DEF Hypervisor
  <1>6. CrqTypeOK'
    <2>1. ring' \in [CrqSlot -> Int] /\ buffer' \in Int
      BY <1>1, <1>2, <1>3
    <2> QED
      BY <1>1, <1>5, <2>1 DEF CrqInv, CrqTypeOK
  <1>7. FailureEnds' /\ ReturnedOwn'
    BY <1>1 DEF CrqInv, FailureEnds, ReturnedOwn, Working
  <1>8. CASE ~Working
    BY <1>1, <1>6, <1>7, <1>8 DEF CrqInv, OneUnderWay, Working
  <1>9. CASE Working
    <2>1. op \in Waits
      BY <1>1, <1>9 DEF CrqInv, CrqTypeOK, OneUnderWay, InStep, AnswerArrived, Waits
    <2>2. Unanswered /\ spapr_vtpm.cur = (r + 1) % CrqEntries
      BY <1>1, <1>9, <2>1 DEF CrqInv, OneUnderWay, InStep, AnswerArrived, r
    <2>3. x = r /\ free /\ hv.todo = <<Awaited>>
      BY <2>2 DEF Unanswered, x, r, free
    <2>4. c = Awaited /\ Tail(hv.todo) = << >>
      <3> DEFINE a == Awaited
      <3>1. hv.todo = <<a>>
        BY <2>3
      <3> HIDE DEF a
      <3>2. Head(<<a>>) = a /\ Tail(<<a>>) = << >>
        OBVIOUS
      <3>3. Head(hv.todo) = a /\ Tail(hv.todo) = << >>
        BY <3>1, <3>2
      <3> QED
        BY <3>3 DEF a, c
    <2>5. InStep'
      BY <1>1, <1>5, <2>2, <2>3, <2>4 DEF InStep, nx
    <2>6. ring'[r] = c
      BY <1>1, <1>2, <2>3
    <2>7. /\ Awaited' = Awaited /\ spapr_vtpm'.resp = r
      BY <1>1 DEF Awaited, r
    <2>8. op = "wait_cmd" => sent > 0 /\ Awaited = sent
      BY <1>9 DEF CrqInv, OneUnderWay, Awaited
    <2>9. op = "wait_cmd" => buffer' = sent'
      BY <1>1, <2>4, <2>8
    <2>10. AnswerArrived'
      BY <1>1, <2>1, <2>4, <2>5, <2>6, <2>7, <2>9 DEF AnswerArrived, Waits
    <2>11. OneUnderWay'
      BY <1>1, <1>5, <2>1, <2>2, <2>8, <2>10 DEF OneUnderWay, Waits, r
    <2> QED
      BY <1>6, <1>7, <2>11 DEF CrqInv
  <1> QED
    BY <1>8, <1>9

-----------------------------------------------------------------------------

\* Every step of driver and hypervisor keeps the invariant of Vtpm.
LEMMA CrqInductive ==
    ASSUME CrqInv, [CrqNext]_crqvars
    PROVE  CrqInv'
  <1>1. CASE spapr_vtpm_probe \/ spapr_is_vtpm_present
    BY <1>1, ProbeRight
  <1>2. CASE spapr_vtpm_activate
    BY <1>2, ActivateRight
  <1>3. CASE SendInit
    BY <1>3, SendInitRight
  <1>4. CASE InitDone
    BY <1>4, InitDoneRight
  <1>5. CASE spapr_vtpm_get_params
    BY <1>5, GetParamsRight
  <1>6. CASE ParamsDone
    BY <1>6, ParamsDoneRight
  <1>7. CASE spapr_vtpm_senddata
    BY <1>7, SendDataRight
  <1>8. CASE spapr_vtpm_waitresponseready
    BY <1>8, WaitRight
  <1>9. CASE spapr_vtpm_readresponse
    BY <1>9, ReadRight
  <1>10. CASE spapr_vtpm_set_error \/ spapr_vtpm_finalize
    BY <1>10, EndRight
  <1>11. CASE Answer
    BY <1>11, AnswerRight
  <1>12. CASE UNCHANGED crqvars
    BY <1>12 DEF crqvars, CrqInv, CrqTypeOK, OneUnderWay, FailureEnds, ReturnedOwn, Working,
                 InStep, Unanswered, AnswerArrived, Awaited
  <1> QED
    BY <1>1, <1>2, <1>3, <1>4, <1>5, <1>6, <1>7, <1>8, <1>9, <1>10, <1>11, <1>12 DEF CrqNext

\* What a transmit returns is the answer to the command it sent, for every size of the
\* ring and every number of commands, whatever answers come after their wait was given
\* up (spapr_vtpm_senddata, spapr_vtpm_waitresponseready, spapr_vtpm_readresponse).
THEOREM TransmitMatched == CrqSpec => []AnswersMatched
  <1>1. CrqInit => CrqInv
    BY CrqInitRight
  <1>2. CrqInv /\ [CrqNext]_crqvars => CrqInv'
    BY CrqInductive
  <1>3. CrqInv => AnswersMatched
    BY DEF CrqInv, AnswersMatched, ReturnedOwn, OneUnderWay, FailureEnds, AnswerArrived, Awaited
  <1> QED
    BY <1>1, <1>2, <1>3, PTL DEF CrqSpec

-----------------------------------------------------------------------------
(* Dhcp. *)

IsConfig(c) == DOMAIN c = {"own", "server", "si", "name", "file"}

DhcpTypes ==
    /\ dpc \in {"idle", "attempt", "dns", "run"}
    /\ dstate \in {"none", "select", "request", "success", "fault"}
    /\ dwant \in {Unset, "asked"}
    /\ dmixed \in BOOLEAN
    /\ IsConfig(dcfg)

\* Requests go to DHCP servers that made an offer, releases to who assigned the address.
SentRight ==
    \A m \in dsent :
        /\ m.opts.type = "request" => m.opts.server \in DServers /\ Content[m.opts.server].kind = "dhcp"
        /\ m.opts.type = "release" => m.ciaddr \in {"asked", m.opts.server}

OwnRight == dcfg.own \in {"asked", dcfg.server}

\* An attempt that has not succeeded yet has no name and no file of an earlier one.
AttemptFresh == dpc = "attempt" /\ dstate # "success" => dcfg.name = <<>> /\ dcfg.file = <<>>

ToldBy(p, c) ==
    /\ p.srv \in DServers /\ p.xid = dxid
    /\ c.si = Content[p.srv].si
    /\ c.name = Told(Content[p.srv]).name /\ c.file = Told(Content[p.srv]).file

\* The configuration that ended an attempt, and the one whose server is looked up, are
\* those of one reply.
GotRight ==
    /\ dpc = "attempt" /\ dstate = "success" => \E p \in dgot : ToldBy(p, dcfg) /\ dcfg.own = p.srv
    /\ dpc = "dns" => dstate = "success"
    /\ dpc = "dns" /\ ~dmixed =>
          \E p \in dgot : ToldBy(p, dcfg) /\ dcfg.own = (IF dwant # Unset THEN dwant ELSE p.srv)

DhcpInv == DhcpTypes /\ SentRight /\ OwnRight /\ AttemptFresh /\ GotRight /\ OneReply

\* A configuration that is written down is one.
LEMMA ConfigRecord ==
    ASSUME NEW o, NEW s, NEW i, NEW n, NEW f
    PROVE  IsConfig([own |-> o, server |-> s, si |-> i, name |-> n, file |-> f])
  BY DEF IsConfig

\* The client before its first call.
LEMMA DhcpInitially == DhcpInit => DhcpInv
  <1> SUFFICES ASSUME DhcpInit PROVE DhcpInv
    OBVIOUS
  <1>1. DhcpTypes
    BY ConfigRecord, Zenon DEF DhcpInit, NoConfig, DhcpTypes
  <1>2. OwnRight /\ SentRight /\ AttemptFresh /\ GotRight /\ OneReply
    BY DEF DhcpInit, SentRight, OwnRight, AttemptFresh, GotRight, OneReply, NoConfig
  <1>3. QED
    BY <1>1, <1>2 DEF DhcpInv

\* Both ways to start an attempt, of a new call or of the same.
LEMMA DhcpStarts ==
    ASSUME DhcpInv, NEW xid, StartAttempt(xid), dwant' \in {Unset, "asked"}
    PROVE  DhcpInv'
  <1>1. IsConfig(dcfg') /\ dcfg'.own = dcfg.own /\ dcfg'.server = dcfg.server /\ dcfg'.name = <<>> /\ dcfg'.file = <<>>
    <2>1. IsConfig(dcfg) /\ dcfg' = [dcfg EXCEPT !.name = <<>>, !.file = <<>>]
      BY DEF StartAttempt, DhcpInv, DhcpTypes
    <2>2. QED
      BY <2>1 DEF IsConfig
  <1>2. DhcpTypes' /\ OwnRight' /\ AttemptFresh' /\ GotRight' /\ OneReply'
    BY <1>1 DEF StartAttempt, DhcpInv, DhcpTypes, OwnRight, AttemptFresh, GotRight, OneReply
  <1>3. SentRight'
    BY DEF StartAttempt, DhcpInv, SentRight, dhcp_send_discover, dhcp_encode_options
  <1>4. QED
    BY <1>2, <1>3 DEF DhcpInv

\* dhcpv4 returns, with 0 only for what one server told.
LEMMA DhcpReturned ==
    ASSUME DhcpInv, NEW rc, NEW cfg, Return(rc, cfg), IsConfig(dcfg'), OwnRight',
           rc = 0 => OneReply'
    PROVE  DhcpInv'
  BY DEF Return, DhcpInv, DhcpTypes, SentRight, AttemptFresh, GotRight, OneReply

\* dhcp() starts its first attempt, another one, or gives up.
LEMMA DhcpCalls == DhcpInv /\ (dhcp \/ dhcp_attempt) => DhcpInv'
  <1> SUFFICES ASSUME DhcpInv, dhcp \/ dhcp_attempt PROVE DhcpInv'
    OBVIOUS
  <1>1. CASE dhcp
    BY <1>1, DhcpStarts DEF dhcp
  <1>2. CASE dhcp_attempt /\ dtry > 1
    <2>1. StartAttempt(dxid) /\ dwant' \in {Unset, "asked"}
      BY <1>2 DEF dhcp_attempt, DhcpInv, DhcpTypes
    <2>2. QED
      BY <2>1, DhcpStarts
  <1>3. CASE dhcp_attempt /\ ~(dtry > 1)
    <2>1. Return(-1, NoConfig) /\ UNCHANGED dcfg
      BY <1>3 DEF dhcp_attempt
    <2>2. IsConfig(dcfg') /\ OwnRight' /\ (-1 = 0 => OneReply')
      BY <2>1 DEF DhcpInv, DhcpTypes, OwnRight
    <2>3. QED
      BY <2>1, <2>2, DhcpReturned
  <1>4. QED
    BY <1>1, <1>2, <1>3

\* What is returned for a configuration told by p.
LEMMA ToldReturned ==
    ASSUME NEW p \in dgot, NEW c, ToldBy(p, c), NEW own, NEW server,
           UNCHANGED <<dxid, dgot, dwant>>,
           own = (IF dwant # Unset THEN dwant ELSE p.srv),
           server \in {c.si, c.name}, server # Unset,
           dfn'.own = own, dfn'.server = server, dfn'.file = c.file
    PROVE  OneReply'
  BY DEF OneReply, ToldBy

\* dhcpv4 after an attempt that succeeded.
LEMMA DhcpSucceeds == DhcpInv /\ dhcpv4 => DhcpInv'
  <1> SUFFICES ASSUME DhcpInv, dhcpv4 PROVE DhcpInv'
    OBVIOUS
  <1>1. PICK p \in dgot : ToldBy(p, dcfg) /\ dcfg.own = p.srv
    BY DEF dhcpv4, DhcpInv, GotRight
  <1>2. IsConfig(dcfg) /\ dcfg' = [dcfg EXCEPT !.own = IF dwant # Unset THEN dwant ELSE @]
    BY DEF dhcpv4, Overridden, DhcpInv, DhcpTypes
  <1>3. /\ IsConfig(dcfg') /\ dcfg'.own = (IF dwant # Unset THEN dwant ELSE dcfg.own)
        /\ dcfg'.server = dcfg.server /\ dcfg'.si = dcfg.si /\ dcfg'.name = dcfg.name /\ dcfg'.file = dcfg.file
    BY <1>2 DEF IsConfig
  <1>4. OwnRight'
    BY <1>3 DEF DhcpInv, DhcpTypes, OwnRight
  <1>5. dcfg.name # Unset
    BY <1>1, NamesAssumption DEF ToldBy
  <1>6. ASSUME NEW x, Return(0, [Overridden EXCEPT !.server = x]), x \in {dcfg.si, dcfg.name}, x # Unset
        PROVE  DhcpInv'
    <2>1. /\ dfn' = [dcfg' EXCEPT !.server = x] /\ UNCHANGED <<dxid, dgot, dwant>>
      BY <1>6 DEF Return, dhcpv4
    <2>2. /\ dfn'.own = (IF dwant # Unset THEN dwant ELSE p.srv) /\ dfn'.server = x /\ dfn'.file = dcfg.file
      BY <1>1, <1>3, <2>1 DEF IsConfig
    <2>3. OneReply'
      BY <1>1, <1>6, <2>1, <2>2, ToldReturned
    <2>4. QED
      BY <1>3, <1>4, <1>6, <2>3, DhcpReturned
  <1>7. ASSUME Return(-3, NoConfig) PROVE DhcpInv'
    <2>1. -3 # 0
      OBVIOUS
    <2>2. QED
      BY <1>3, <1>4, <1>7, <2>1, DhcpReturned
  <1>8. ASSUME dpc' = "dns", UNCHANGED <<dxid, dtry, dstate, dstack, dwant, dsent, dfn, dret, dgot, dmixed>>
        PROVE  DhcpInv'
    <2>1. dstate = "success"
      BY DEF dhcpv4
    <2>2. ToldBy(p, dcfg)' /\ dcfg'.own = (IF dwant # Unset THEN dwant ELSE p.srv)
      BY <1>1, <1>3, <1>8 DEF ToldBy
    <2>3. GotRight'
      BY <1>8, <2>1, <2>2 DEF GotRight
    <2>4. DhcpTypes' /\ SentRight' /\ AttemptFresh' /\ OneReply'
      BY <1>3, <1>8 DEF DhcpInv, DhcpTypes, SentRight, AttemptFresh, OneReply
    <2>5. QED
      BY <1>4, <2>3, <2>4 DEF DhcpInv
  <1>9. QED
    BY <1>5, <1>6, <1>7, <1>8 DEF dhcpv4

\* The name of the server is resolved, or siaddr must do.
LEMMA DhcpResolves == DhcpInv /\ NameResolved => DhcpInv'
  <1> SUFFICES ASSUME DhcpInv, NameResolved PROVE DhcpInv'
    OBVIOUS
  <1>1. dpc = "dns" /\ UNCHANGED dcfg /\ IsConfig(dcfg') /\ OwnRight'
    BY DEF NameResolved, DhcpInv, DhcpTypes, OwnRight
  <1>2. ASSUME NEW x, Return(0, [dcfg EXCEPT !.server = x]), x = dcfg.name \/ (x = dcfg.si /\ dcfg.si # Unset)
        PROVE  DhcpInv'
    <2>1. /\ dfn' = [dcfg EXCEPT !.server = x] /\ UNCHANGED <<dxid, dgot, dwant, dmixed>>
      BY <1>2 DEF Return
    <2>2. dfn'.own = dcfg.own /\ dfn'.server = x /\ dfn'.file = dcfg.file
      BY <2>1 DEF DhcpInv, DhcpTypes, IsConfig
    <2>3. ASSUME ~dmixed PROVE OneReply'
      <3>1. PICK p \in dgot : ToldBy(p, dcfg) /\ dcfg.own = (IF dwant # Unset THEN dwant ELSE p.srv)
        BY <1>1, <2>3 DEF DhcpInv, GotRight
      <3>2. x # Unset
        BY <1>2, <3>1, NamesAssumption DEF ToldBy
      <3>3. QED
        BY <1>2, <2>1, <2>2, <3>1, <3>2, ToldReturned
    <2>4. OneReply'
      BY <2>1, <2>3 DEF OneReply
    <2>5. QED
      BY <1>1, <1>2, <2>4, DhcpReturned
  <1>3. ASSUME Return(-4, NoConfig) PROVE DhcpInv'
    <2>1. -4 # 0
      OBVIOUS
    <2>2. QED
      BY <1>1, <1>3, <2>1, DhcpReturned
  <1>4. QED
    BY <1>2, <1>3 DEF NameResolved

\* netload is done and may give the address back.
LEMMA DhcpEnds == DhcpInv /\ Done => DhcpInv'
  <1> SUFFICES ASSUME DhcpInv, Done PROVE DhcpInv'
    OBVIOUS
  <1>1. DhcpTypes' /\ OwnRight' /\ AttemptFresh' /\ GotRight' /\ OneReply'
    BY DEF Done, DhcpInv, DhcpTypes, OwnRight, AttemptFresh, GotRight, OneReply
  <1>2. SentRight'
    BY DEF Done, DhcpInv, SentRight, OwnRight, dhcp_send_release, dhcp_encode_options
  <1>3. QED
    BY <1>1, <1>2 DEF DhcpInv

\* A reply that ends an attempt.
LEMMA DhcpSucceeded ==
    ASSUME DhcpInv, NEW p, NEW cfg, Succeed(p, cfg), IsConfig(cfg), cfg.own = cfg.server,
           dpc = "attempt" => ToldBy(p, cfg) /\ cfg.own = p.srv,
           UNCHANGED <<dpc, dxid, dwant, dfn, dret, dsent>>
    PROVE  DhcpInv'
  <1>1. DhcpTypes' /\ OwnRight' /\ AttemptFresh' /\ SentRight' /\ p \in dgot'
    BY DEF Succeed, DhcpInv, DhcpTypes, OwnRight, AttemptFresh, SentRight
  <1>2. GotRight'
    <2>1. dpc = "attempt" => ToldBy(p, cfg)' /\ cfg.own = p.srv
      BY DEF ToldBy
    <2>2. dpc = "dns" => dmixed'
      BY DEF Succeed, DhcpInv, GotRight
    <2>3. QED
      BY <1>1, <2>1, <2>2 DEF Succeed, GotRight
  <1>3. OneReply'
    BY DEF Succeed, DhcpInv, DhcpTypes, OneReply
  <1>4. QED
    BY <1>1, <1>2, <1>3 DEF DhcpInv

\* What a server answers.
LEMMA AnswersRight ==
    ASSUME DhcpInv, NEW m \in dsent, NEW p \in AnswersTo(m)
    PROVE  /\ p.srv \in DServers
           /\ p.type \in {"bootp", "ext"} => Content[p.srv].kind # "dhcp"
           /\ p.type \in {"offer", "ack", "nack"} => Content[p.srv].kind = "dhcp"
  <1>1. CASE m.opts.type = "discover"
    <2>1. PICK s \in DServers : p = [type |-> IF Content[s].kind = "dhcp" THEN "offer" ELSE Content[s].kind,
                                     srv |-> s, xid |-> m.xid]
      BY <1>1 DEF AnswersTo
    <2>2. QED
      BY <2>1, ServersAssumption
  <1>2. CASE m.opts.type = "request"
    <2>1. m.opts.server \in DServers /\ Content[m.opts.server].kind = "dhcp"
      BY <1>2 DEF DhcpInv, SentRight
    <2>2. PICK t \in {"ack", "nack"} : p = [type |-> t, srv |-> m.opts.server, xid |-> m.xid]
      BY <1>2 DEF AnswersTo
    <2>3. QED
      BY <2>1, <2>2
  <1>3. QED
    BY <1>1, <1>2 DEF AnswersTo

\* handle_dhcp: each type of reply, in each state in which it is accepted.
LEMMA DhcpReceives ==
    ASSUME DecodesAsTold, DhcpInv, NEW m \in dsent, NEW p \in AnswersTo(m), Receive(p)
    PROVE  DhcpInv'
  <1> DEFINE c == Content[p.srv]
             o == Options(c, p.type)
  <1>1. /\ p.srv \in DServers
        /\ p.type \in {"bootp", "ext"} => c.kind # "dhcp"
        /\ p.type \in {"offer", "ack", "nack"} => c.kind = "dhcp"
    BY AnswersRight
  <1>2. /\ p.xid = dxid /\ UNCHANGED <<dpc, dxid, dtry, dwant, dfn, dret>>
        /\ dpc = "attempt" => dcfg.name = <<>> /\ dcfg.file = <<>>
    BY DEF Receive, handle_dhcp, DhcpInv, AttemptFresh
  <1> HIDE DEF o
  <1>3. CASE p.type \in {"bootp", "ext"} /\ Succeed(p, BootpConfig(c, p.srv)) /\ UNCHANGED dsent
    <2> DEFINE cfg == BootpConfig(c, p.srv)
    <2>1. /\ IsConfig(cfg) /\ cfg.own = p.srv /\ cfg.server = p.srv /\ cfg.si = c.si
          /\ cfg.name = (IF c.sname # <<>> /\ c.si = Unset THEN c.sname ELSE dcfg.name)
          /\ cfg.file = (IF c.file # <<>> THEN c.file ELSE dcfg.file)
      BY DEF BootpConfig, IsConfig
    <2>2. dpc = "attempt" => ToldBy(p, cfg)
      <3>1. Told(c).file = c.file /\ Told(c).name = IF c.si = Unset THEN c.sname ELSE <<>>
        BY <1>1, <1>3 DEF Told
      <3>2. QED
        BY <1>1, <1>2, <2>1, <3>1 DEF ToldBy
    <2> HIDE DEF cfg
    <2>3. Succeed(p, cfg)
      BY <1>3 DEF cfg
    <2>4. QED
      BY <1>2, <1>3, <2>1, <2>2, <2>3, DhcpSucceeded
  <1>4. CASE p.type = "ack" /\ o.ok /\ Succeed(p, AckConfig(c, p.srv, o)) /\ UNCHANGED dsent
    <2> DEFINE cfg == AckConfig(c, p.srv, o)
    <2>1. /\ IsConfig(cfg) /\ cfg.own = p.srv /\ cfg.server = p.srv /\ cfg.si = c.si
          /\ cfg.name = AckName(c, o, dcfg.name) /\ cfg.file = AckFile(c, o)
      BY DEF AckConfig, AckAddress, IsConfig
    <2>2. dpc = "attempt" => ToldBy(p, cfg)
      <3>1. AckName(c, o, <<>>) = Told(c).name /\ AckFile(c, o) = Told(c).file
        BY <1>1, <1>4 DEF DecodesAsTold, o
      <3>2. QED
        BY <1>1, <1>2, <2>1, <3>1 DEF ToldBy
    <2> HIDE DEF cfg
    <2>3. Succeed(p, cfg)
      BY <1>4 DEF cfg
    <2>4. QED
      BY <1>2, <1>4, <2>1, <2>2, <2>3, DhcpSucceeded
  <1>5. CASE /\ p.type = "offer" /\ dstate = "select" /\ dstate' = "request"
             /\ dcfg' = [dcfg EXCEPT !.own = p.srv, !.server = p.srv]
             /\ dsent' = dsent \cup {dhcp_send_request(p.srv, p.srv)}
             /\ UNCHANGED <<dgot, dmixed>>
    <2>1. /\ IsConfig(dcfg') /\ dcfg'.own = p.srv /\ dcfg'.server = p.srv
          /\ dcfg'.name = dcfg.name /\ dcfg'.file = dcfg.file
      BY <1>5 DEF DhcpInv, DhcpTypes, IsConfig
    <2>2. DhcpTypes' /\ OwnRight' /\ AttemptFresh' /\ GotRight' /\ OneReply'
      BY <1>2, <1>5, <2>1 DEF DhcpInv, DhcpTypes, OwnRight, AttemptFresh, GotRight, OneReply
    <2>3. SentRight'
      BY <1>1, <1>5 DEF DhcpInv, SentRight, dhcp_send_request, dhcp_encode_options
    <2>4. QED
      BY <2>2, <2>3 DEF DhcpInv
  <1>6. CASE /\ p.type = "nack" /\ dstate = "request" /\ dstate' = "fault"
             /\ dcfg' = [dcfg EXCEPT !.own = Unset, !.server = Unset]
             /\ UNCHANGED <<dsent, dgot, dmixed>>
    <2>1. /\ IsConfig(dcfg') /\ dcfg'.own = Unset /\ dcfg'.server = Unset
          /\ dcfg'.name = dcfg.name /\ dcfg'.file = dcfg.file
      BY <1>6 DEF DhcpInv, DhcpTypes, IsConfig
    <2>2. DhcpTypes' /\ OwnRight' /\ AttemptFresh' /\ GotRight' /\ OneReply' /\ SentRight'
      BY <1>2, <1>6, <2>1 DEF DhcpInv, DhcpTypes, OwnRight, AttemptFresh, GotRight, OneReply, SentRight
    <2>3. QED
      BY <2>2 DEF DhcpInv
  <1>7. QED
    BY <1>3, <1>4, <1>5, <1>6 DEF Receive, handle_dhcp, o

\* Every step of client and servers keeps the invariant of Dhcp.
LEMMA DhcpStep ==
    ASSUME DecodesAsTold, DhcpInv, [DhcpNext]_dvars
    PROVE  DhcpInv'
  <1>1. CASE UNCHANGED dvars
    BY <1>1 DEF dvars, DhcpInv, DhcpTypes, SentRight, OwnRight, AttemptFresh, GotRight, ToldBy, OneReply
  <1>2. CASE DhcpNext
    BY <1>2, DhcpCalls, DhcpSucceeds, DhcpResolves, DhcpEnds, DhcpReceives DEF DhcpNext
  <1>3. QED
    BY <1>1, <1>2

\* What dhcp() returns comes from one reply, of this call and of one server, although
\* several servers answer, answers are lost, repeated and late, and an attempt begins
\* while answers to the one before are under way; and dhcp_send_release names the server
\* that assigned the address. For any servers, number of calls and retries; that a server's
\* options decode to what it tells (dhcp_merge_options) is the hypothesis.
THEOREM LeaseOfOneServer ==
    ASSUME DecodesAsTold
    PROVE  DhcpSpec => []LeaseConsistent
  <1>1. DhcpInit => DhcpInv
    BY DhcpInitially
  <1>2. DhcpInv /\ [DhcpNext]_dvars => DhcpInv'
    BY DhcpStep
  <1>3. DhcpInv => LeaseConsistent
    BY DEF DhcpInv, SentRight, LeaseConsistent, ReleasedOurs
  <1>4. QED
    BY <1>1, <1>2, <1>3, PTL DEF DhcpSpec

-----------------------------------------------------------------------------
(* Sha. *)

\* sha1_do and sha256_do
LEMMA Padded64 ==
    ASSUME NEW len \in Nat
    PROVE  LET b == Blocks(len, 64, 56, 60)
               total == Total(len, 64, 8)
           IN /\ Len(b) * 64 = total
              /\ \A k \in 1 .. Len(b) : \A i \in 0 .. 63 : b[k][i] = PaddedByte(len, total, (k - 1) * 64 + i)
  <1> DEFINE full == len \div 64
             num == len % 64
             total == Total(len, 64, 8)
             whole == [k \in 1 .. full |-> [i \in 0 .. 63 |-> (k - 1) * 64 + i + 1]]
             last == [i \in 0 .. 63 |-> IF i < num THEN full * 64 + i + 1
                                        ELSE IF i = num THEN Mark ELSE Zero]
             w == IF num >= 56 THEN [i \in 0 .. 63 |-> IF i < 60 THEN Zero ELSE last[i]] ELSE last
             end == [i \in 0 .. 63 |-> IF i >= 56 THEN LenByte(i - 56) ELSE w[i]]
             mid == IF num >= 56 THEN <<last>> ELSE << >>
             b == whole \o mid \o <<end>>
             D == [0 .. 63 -> Int]
  <1>1. full \in Nat /\ num \in 0 .. 63 /\ len = full * 64 + num
    OBVIOUS
  <1>2. total = IF num >= 56 THEN (full + 2) * 64 ELSE (full + 1) * 64
    BY <1>1 DEF Total
  <1>3. Blocks(len, 64, 56, 60) = b
    BY DEF Blocks
  <1> HIDE DEF full, num, total
  <1>4. /\ whole \in [1 .. full -> D] /\ last \in D /\ end \in D
    BY <1>1 DEF Mark, Zero, LenByte
  <1>5. \A k \in 1 .. full : \A i \in 0 .. 63 : whole[k][i] = (k - 1) * 64 + i + 1
    BY <1>1
  <1>6. ASSUME NEW i \in 0 .. 63
        PROVE  /\ last[i] = IF i < num THEN full * 64 + i + 1 ELSE IF i = num THEN Mark ELSE Zero
               /\ end[i] = IF i >= 56 THEN LenByte(i - 56)
                          ELSE IF num >= 56 THEN Zero
                          ELSE IF i < num THEN full * 64 + i + 1 ELSE IF i = num THEN Mark ELSE Zero
    BY <1>1
  <1> HIDE DEF whole, last, end, D
  <1>7. mid \in Seq(D) /\ Len(mid) = (IF num >= 56 THEN 1 ELSE 0) /\ (num >= 56 => mid[1] = last)
    <2>1. CASE num >= 56
      BY <1>4, <2>1
    <2>2. CASE ~(num >= 56)
      BY <2>2
    <2>3. QED
      BY <2>1, <2>2
  <1> HIDE DEF mid
  <1>8. /\ Len(b) = full + Len(mid) + 1
        /\ \A k \in 1 .. full : b[k] = whole[k]
        /\ num >= 56 => b[full + 1] = last
        /\ b[full + Len(mid) + 1] = end
    <2>1. Len(mid) \in {0, 1} /\ full \in Nat /\ (num >= 56 => Len(mid) = 1 /\ mid[1] = last)
      BY <1>1, <1>7
    <2>2. whole \in Seq(D) /\ Len(whole) = full
      BY <1>4, <2>1
    <2>3. QED
      BY <1>4, <1>7, <2>1, <2>2
  <1> HIDE DEF b
  <1>9. Len(b) * 64 = total
    BY <1>1, <1>2, <1>7, <1>8
  <1>10. ASSUME NEW k \in 1 .. Len(b), NEW i \in 0 .. 63
         PROVE  b[k][i] = PaddedByte(len, total, (k - 1) * 64 + i)
    <2>1. CASE k \in 1 .. full
      <3>1. b[k][i] = (k - 1) * 64 + i + 1
        BY <1>5, <1>8, <2>1
      <3>2. (k - 1) * 64 + i < len
        BY <1>1, <2>1
      <3>3. QED
        BY <3>1, <3>2 DEF PaddedByte
    <2>2. CASE num >= 56 /\ k = full + 1
      <3>1. b[k][i] = last[i] /\ (k - 1) * 64 + i = full * 64 + i
        BY <1>1, <1>8, <2>2
      <3>2. /\ full * 64 + i < len <=> i < num
            /\ full * 64 + i = len <=> i = num
            /\ ~(full * 64 + i >= total - 8)
        BY <1>1, <1>2, <2>2
      <3>3. b[k][i] = IF i < num THEN full * 64 + i + 1 ELSE IF i = num THEN Mark ELSE Zero
        BY <1>6, <3>1
      <3>4. PaddedByte(len, total, (k - 1) * 64 + i) = PaddedByte(len, total, full * 64 + i)
        BY <3>1
      <3>5. QED
        BY <3>2, <3>3, <3>4 DEF PaddedByte
    <2>3. CASE num >= 56 /\ k = full + 2
      <3>1. b[k][i] = end[i] /\ (k - 1) * 64 + i = full * 64 + 64 + i
        <4>1. Len(mid) = 1 /\ k = full + Len(mid) + 1
          BY <1>1, <1>7, <2>3
        <4>2. b[k] = end
          BY <1>8, <4>1
        <4>3. QED
          BY <1>1, <2>3, <4>2
      <3>2. total - 8 = full * 64 + 120 /\ ~(full * 64 + 64 + i < len) /\ full * 64 + 64 + i # len
        BY <1>1, <1>2, <2>3
      <3>3. b[k][i] = IF i >= 56 THEN LenByte(i - 56) ELSE Zero
        BY <1>6, <2>3, <3>1
      <3>4. PaddedByte(len, total, (k - 1) * 64 + i) = PaddedByte(len, total, full * 64 + 64 + i)
        BY <3>1
      <3>5. /\ full * 64 + 64 + i >= total - 8 <=> i >= 56
            /\ full * 64 + 64 + i - (total - 8) = i - 56
        BY <1>1, <3>2
      <3>6. QED
        <4>1. LenByte(full * 64 + 64 + i - (total - 8)) = LenByte(i - 56)
          BY <3>5
        <4>2. QED
          BY <1>1, <1>2, <3>2, <3>3, <3>4, <3>5, <4>1 DEF PaddedByte
    <2>4. CASE ~(num >= 56) /\ k = full + 1
      <3>1. b[k][i] = end[i] /\ (k - 1) * 64 + i = full * 64 + i
        BY <1>1, <1>7, <1>8, <2>4
      <3>2. total - 8 = full * 64 + 56
        BY <1>1, <1>2, <2>4
      <3>3. b[k][i] = IF i >= 56 THEN LenByte(i - 56)
                      ELSE IF i < num THEN full * 64 + i + 1 ELSE IF i = num THEN Mark ELSE Zero
        BY <1>6, <2>4, <3>1
      <3>4. PaddedByte(len, total, (k - 1) * 64 + i) = PaddedByte(len, total, full * 64 + i)
        BY <3>1
      <3>5. /\ full * 64 + i < len <=> i < num
            /\ full * 64 + i = len <=> i = num
            /\ full * 64 + i >= total - 8 <=> i >= 56
            /\ full * 64 + i - (total - 8) = i - 56
        BY <1>1, <3>2
      <3>6. i < num => ~(i >= 56)
        BY <1>1, <2>4
      <3>7. QED
        <4>1. LenByte(full * 64 + i - (total - 8)) = LenByte(i - 56)
          BY <3>5
        <4>2. QED
          BY <1>1, <1>2, <3>3, <3>4, <3>5, <3>6, <4>1 DEF PaddedByte
    <2>5. QED
      <3>1. k \in Int /\ 1 <= k /\ k <= full + Len(mid) + 1
        BY <1>1, <1>7, <1>8
      <3>2. QED
        BY <1>1, <1>7, <3>1, <2>1, <2>2, <2>3, <2>4
  <1>11. QED
    BY <1>3, <1>9, <1>10 DEF total

\* sha512_do
LEMMA Padded128 ==
    ASSUME NEW len \in Nat
    PROVE  LET b == Blocks(len, 128, 112, 128)
               total == Total(len, 128, 16)
           IN /\ Len(b) * 128 = total
              /\ \A k \in 1 .. Len(b) : \A i \in 0 .. 127 : b[k][i] = PaddedByte(len, total, (k - 1) * 128 + i)
  <1> DEFINE full == len \div 128
             num == len % 128
             total == Total(len, 128, 16)
             whole == [k \in 1 .. full |-> [i \in 0 .. 127 |-> (k - 1) * 128 + i + 1]]
             last == [i \in 0 .. 127 |-> IF i < num THEN full * 128 + i + 1
                                        ELSE IF i = num THEN Mark ELSE Zero]
             w == IF num >= 112 THEN [i \in 0 .. 127 |-> IF i < 128 THEN Zero ELSE last[i]] ELSE last
             end == [i \in 0 .. 127 |-> IF i >= 120 THEN LenByte(i - 120) ELSE w[i]]
             mid == IF num >= 112 THEN <<last>> ELSE << >>
             b == whole \o mid \o <<end>>
             D == [0 .. 127 -> Int]
  <1>1. full \in Nat /\ num \in 0 .. 127 /\ len = full * 128 + num
    OBVIOUS
  <1>2. total = IF num >= 112 THEN (full + 2) * 128 ELSE (full + 1) * 128
    BY <1>1 DEF Total
  <1>3. Blocks(len, 128, 112, 128) = b
    BY DEF Blocks
  <1> HIDE DEF full, num, total
  <1>4. /\ whole \in [1 .. full -> D] /\ last \in D /\ end \in D
    BY <1>1 DEF Mark, Zero, LenByte
  <1>5. \A k \in 1 .. full : \A i \in 0 .. 127 : whole[k][i] = (k - 1) * 128 + i + 1
    BY <1>1
  <1>6. ASSUME NEW i \in 0 .. 127
        PROVE  /\ last[i] = IF i < num THEN full * 128 + i + 1 ELSE IF i = num THEN Mark ELSE Zero
               /\ end[i] = IF i >= 120 THEN LenByte(i - 120)
                          ELSE IF num >= 112 THEN Zero
                          ELSE IF i < num THEN full * 128 + i + 1 ELSE IF i = num THEN Mark ELSE Zero
    BY <1>1
  <1> HIDE DEF whole, last, end, D
  <1>7. mid \in Seq(D) /\ Len(mid) = (IF num >= 112 THEN 1 ELSE 0) /\ (num >= 112 => mid[1] = last)
    <2>1. CASE num >= 112
      BY <1>4, <2>1
    <2>2. CASE ~(num >= 112)
      BY <2>2
    <2>3. QED
      BY <2>1, <2>2
  <1> HIDE DEF mid
  <1>8. /\ Len(b) = full + Len(mid) + 1
        /\ \A k \in 1 .. full : b[k] = whole[k]
        /\ num >= 112 => b[full + 1] = last
        /\ b[full + Len(mid) + 1] = end
    <2>1. Len(mid) \in {0, 1} /\ full \in Nat /\ (num >= 112 => Len(mid) = 1 /\ mid[1] = last)
      BY <1>1, <1>7
    <2>2. whole \in Seq(D) /\ Len(whole) = full
      BY <1>4, <2>1
    <2>3. QED
      BY <1>4, <1>7, <2>1, <2>2
  <1> HIDE DEF b
  <1>9. Len(b) * 128 = total
    BY <1>1, <1>2, <1>7, <1>8
  <1>10. ASSUME NEW k \in 1 .. Len(b), NEW i \in 0 .. 127
         PROVE  b[k][i] = PaddedByte(len, total, (k - 1) * 128 + i)
    <2>1. CASE k \in 1 .. full
      <3>1. b[k][i] = (k - 1) * 128 + i + 1
        BY <1>5, <1>8, <2>1, ZenonT(60)
      <3>2. (k - 1) * 128 + i < len
        BY <1>1, <2>1
      <3>3. QED
        BY <3>1, <3>2 DEF PaddedByte
    <2>2. CASE num >= 112 /\ k = full + 1
      <3>1. b[k][i] = last[i] /\ (k - 1) * 128 + i = full * 128 + i
        <4>1. b[k] = last
          BY <1>8, <2>2
        <4>2. k - 1 = full
          BY <1>1, <2>2
        <4>3. QED
          BY <4>1, <4>2
      <3>2. /\ full * 128 + i < len <=> i < num
            /\ full * 128 + i = len <=> i = num
            /\ ~(full * 128 + i >= total - 8)
        BY <1>1, <1>2, <2>2
      <3>3. b[k][i] = IF i < num THEN full * 128 + i + 1 ELSE IF i = num THEN Mark ELSE Zero
        BY <1>6, <3>1
      <3>4. PaddedByte(len, total, (k - 1) * 128 + i) = PaddedByte(len, total, full * 128 + i)
        BY <3>1
      <3>5. QED
        BY <3>2, <3>3, <3>4 DEF PaddedByte
    <2>3. CASE num >= 112 /\ k = full + 2
      <3>1. b[k][i] = end[i] /\ (k - 1) * 128 + i = full * 128 + 128 + i
        <4>1. Len(mid) = 1 /\ k = full + Len(mid) + 1
          BY <1>1, <1>7, <2>3
        <4>2. b[k] = end
          BY <1>8, <4>1
        <4>3. QED
          BY <1>1, <2>3, <4>2
      <3>2. total - 8 = full * 128 + 248 /\ ~(full * 128 + 128 + i < len) /\ full * 128 + 128 + i # len
        BY <1>1, <1>2, <2>3
      <3>3. b[k][i] = IF i >= 120 THEN LenByte(i - 120) ELSE Zero
        BY <1>6, <2>3, <3>1
      <3>4. PaddedByte(len, total, (k - 1) * 128 + i) = PaddedByte(len, total, full * 128 + 128 + i)
        BY <3>1
      <3>5. /\ full * 128 + 128 + i >= total - 8 <=> i >= 120
            /\ full * 128 + 128 + i - (total - 8) = i - 120
        BY <1>1, <3>2
      <3>6. QED
        <4>1. LenByte(full * 128 + 128 + i - (total - 8)) = LenByte(i - 120)
          BY <3>5
        <4>2. QED
          BY <1>1, <1>2, <3>2, <3>3, <3>4, <3>5, <4>1 DEF PaddedByte
    <2>4. CASE ~(num >= 112) /\ k = full + 1
      <3>1. b[k][i] = end[i] /\ (k - 1) * 128 + i = full * 128 + i
        BY <1>1, <1>7, <1>8, <2>4
      <3>2. total - 8 = full * 128 + 120
        BY <1>1, <1>2, <2>4
      <3>3. b[k][i] = IF i >= 120 THEN LenByte(i - 120)
                      ELSE IF i < num THEN full * 128 + i + 1 ELSE IF i = num THEN Mark ELSE Zero
        BY <1>6, <2>4, <3>1
      <3>4. PaddedByte(len, total, (k - 1) * 128 + i) = PaddedByte(len, total, full * 128 + i)
        BY <3>1
      <3>5. /\ full * 128 + i < len <=> i < num
            /\ full * 128 + i = len <=> i = num
            /\ full * 128 + i >= total - 8 <=> i >= 120
            /\ full * 128 + i - (total - 8) = i - 120
        BY <1>1, <3>2
      <3>6. i < num => ~(i >= 120)
        BY <1>1, <2>4
      <3>7. QED
        <4>1. LenByte(full * 128 + i - (total - 8)) = LenByte(i - 120)
          BY <3>5
        <4>2. QED
          BY <1>1, <1>2, <3>3, <3>4, <3>5, <3>6, <4>1 DEF PaddedByte
    <2>5. QED
      <3>1. k \in Int /\ 1 <= k /\ k <= full + Len(mid) + 1
        BY <1>1, <1>7, <1>8
      <3>2. QED
        BY <1>1, <1>7, <3>1, <2>1, <2>2, <2>3, <2>4
  <1>11. \A k \in 1 .. Len(b) : \A i \in 0 .. 127 : b[k][i] = PaddedByte(len, total, (k - 1) * 128 + i)
    BY <1>10
  <1>12. Blocks(len, 128, 112, 128) = b /\ Total(len, 128, 16) = total
    BY <1>3 DEF total
  <1>13. QED
    BY <1>9, <1>11, <1>12, ZenonT(60)

\* Lengths stay below the width of the counters.
LEMMA ShaTypes == ShaSpec => [](length \in -1 .. MaxLength)
  <1>1. ShaInit => length \in -1 .. MaxLength
    BY ShaAssumption DEF ShaInit
  <1>2. length \in -1 .. MaxLength /\ [ShaNext]_shavars => (length \in -1 .. MaxLength)'
    BY ShaAssumption DEF ShaNext, shavars
  <1>3. QED
    BY <1>1, <1>2, PTL DEF ShaSpec

\* sha1_do, sha256_do and sha512_do cut and pad a message of any length below 2^29 bytes
\* as FIPS 180-4 says, although w is reused from block to block and only partly cleared.
THEOREM HashPadding == ShaSpec => []PaddingRight
  <1>1. length \in -1 .. MaxLength => PaddingRight
    <2> SUFFICES ASSUME length \in Nat, length < Width256 PROVE PaddingRight
      BY ShaAssumption DEF PaddingRight, Width256
    <2>1. Padded(sha1(length), length, 64, 8)
      BY Padded64 DEF Padded, sha1, sha1_do
    <2>2. Padded(sha256(length), length, 64, 8)
      <3>1. length % Width256 = length
        BY DEF Width256
      <3>2. QED
        BY <3>1, Padded64 DEF Padded, sha256, sha256_do
    <2>3. Padded(sha384(length), length, 128, 16) /\ Padded(sha512(length), length, 128, 16)
      BY Padded128 DEF Padded, sha384, sha512, sha512_do
    <2>4. QED
      BY <2>1, <2>2, <2>3 DEF PaddingRight
  <1>2. QED
    BY <1>1, ShaTypes, PTL

-----------------------------------------------------------------------------
(* The inductive invariants of Ipv6. *)

\* The hosts that frames come from, and what the cache and the router list may hold of them.
Peers == Hosts \cup OnLink
PeerMacs == {MacOf[h] : h \in Peers} \cup {NullMac}
RouterMacs == {ra.slla : ra \in Adverts} \cup {NullMac}
PeerFrames == [dst : Peers \cup {AllNodes}, body : {"none", "data", "na"}]
Neighbours == [ip : Peers, mac : PeerMacs, status : {"incomplete", "probe", "reachable"}, frame : PeerFrames]
Routers == [ip : {ra.src : ra \in Adverts}, mac : RouterMacs]

\* The cache and the router list hold hosts that were heard of or sent to, and a wait is for one of
\* them; before a call of dhcpv6 nobody is waited for.
V6Types ==
    /\ vnbrs \in Seq(Neighbours) /\ vrouters \in Seq(Routers)
    /\ awaited \in Seq(Peers)
    /\ vpc = "off" => awaited = <<>>

\* What is known of a neighbour's address is right.
MacsKnown == \A i \in DOMAIN vnbrs : vnbrs[i].mac \in {NullMac, MacOf[vnbrs[i].ip]}

\* The inductive invariant of the neighbour cache.
Ipv6Inv == V6Types /\ MacsKnown /\ FramesRight /\ CacheSound

\* A set of numbers that is not empty has a least one: which router is the first.
LEMMA LeastNumber ==
    ASSUME NEW near \in SUBSET Nat, near # {}
    PROVE  \E i \in near : \A j \in near : i <= j
  <1> DEFINE Before == {p \in Nat \X Nat : p[1] < p[2]}
  <1>1. IsWellFoundedOn(Before, Nat)
    BY NatLessThanWellFounded, Zenon DEF OpToRel
  <1>2. \A i, j \in Nat : j < i => <<j, i>> \in Before
    OBVIOUS
  <1> HIDE DEF Before
  <1>3. PICK i \in near : \A j \in near : <<j, i>> \notin Before
    BY <1>1, WFMin, Zenon
  <1>4. \A j \in near : ~(j < i)
    BY <1>2, <1>3
  <1>5. QED
    BY <1>4

\* The MAC address of a router is one that a router told, or not known.
LEMMA DefaultRouter ==
    ASSUME V6Types, vrouters # <<>>, NEW src
    PROVE  ipv6_get_default_router(src).mac \in RouterMacs
  <1> DEFINE near == {i \in DOMAIN vrouters : vrouters[i].ip.prefix = src.prefix}
  <1>1. vrouters \in Seq(Routers) /\ 1 \in DOMAIN vrouters /\ DOMAIN vrouters \in SUBSET Nat
    BY DEF V6Types
  <1>2. \A i \in DOMAIN vrouters : vrouters[i].mac \in RouterMacs
    <2> SUFFICES ASSUME NEW i \in DOMAIN vrouters PROVE vrouters[i].mac \in RouterMacs
      OBVIOUS
    <2>1. vrouters[i] \in Routers
      BY <1>1
    <2>2. QED
      BY <2>1 DEF Routers
  <1>3. near # {} => (CHOOSE i \in near : \A j \in near : i <= j) \in DOMAIN vrouters
    BY <1>1, LeastNumber
  <1>4. QED
    BY <1>1, <1>2, <1>3 DEF ipv6_get_default_router

\* The invariant holds before the first call.
LEMMA Ipv6Initially == Ipv6Init => Ipv6Inv
  <1> SUFFICES ASSUME Ipv6Init PROVE Ipv6Inv
    OBVIOUS
  <1>1. vnbrs = <<>> /\ vrouters = <<>> /\ awaited = <<>> /\ vout = {}
    BY DEF Ipv6Init
  <1>2. QED
    BY <1>1 DEF Ipv6Inv, V6Types, MacsKnown, FramesRight, CacheSound

\* send_ipv6 keeps the invariant whether it sends the packet, stores it with a new neighbour whom it
\* solicits, or drops it.
LEMMA SendsRight ==
    ASSUME Ipv6Inv, NEW pkt \in PeerFrames, pkt.dst \in Peers, pkt # NoFrame, send_ipv6(pkt),
           vpc # "off", UNCHANGED <<vpc, vrouters>>
    PROVE  Ipv6Inv'
  <1> DEFINE at == find_neighbor(vnbrs, pkt.dst)
             i == CHOOSE i \in at : TRUE
  <1>1. vnbrs \in Seq(Neighbours) /\ vrouters \in Seq(Routers) /\ awaited \in Seq(Peers)
    BY DEF Ipv6Inv, V6Types
  <1>2. at # {} => i \in DOMAIN vnbrs /\ vnbrs[i].ip = pkt.dst
    BY DEF find_neighbor, ip6_cmp
  <1>3. ASSUME NEW mac, vout' = vout \cup {fill_ethhdr(mac, pkt)}, UNCHANGED <<vnbrs, awaited>>,
               ip6_is_multicast(pkt.dst) \/ mac \in RouterMacs \/ mac = MacOf[pkt.dst]
        PROVE  Ipv6Inv'
    <2>1. FramesRight'
      BY <1>3 DEF Ipv6Inv, FramesRight, fill_ethhdr, RouterMacs, ip6_is_multicast
    <2>2. QED
      BY <1>3, <2>1 DEF Ipv6Inv, V6Types, MacsKnown, CacheSound, find_neighbor, ip6_cmp
  <1>4. ASSUME UNCHANGED <<vout, vnbrs, awaited>> PROVE Ipv6Inv'
    BY <1>4 DEF Ipv6Inv, V6Types, MacsKnown, FramesRight, CacheSound, find_neighbor, ip6_cmp
  <1>5. ASSUME at = {},
               vnbrs' = neighbor_add(vnbrs, [ip |-> pkt.dst, mac |-> NullMac, status |-> "probe", frame |-> pkt]),
               vout' = vout \cup {send_neighbour_solicitation(pkt.dst)},
               awaited' = Append(awaited, pkt.dst)
        PROVE  Ipv6Inv'
    <2> DEFINE n == [ip |-> pkt.dst, mac |-> NullMac, status |-> "probe", frame |-> pkt]
    <2>1. n \in Neighbours /\ n.ip = pkt.dst /\ n.mac = NullMac /\ n.frame = pkt
      <3>1. NullMac \in PeerMacs
        BY Zenon DEF PeerMacs
      <3>2. QED
        BY <3>1 DEF Neighbours
    <2> HIDE DEF n
    <2>2. /\ vnbrs' \in Seq(Neighbours) /\ DOMAIN vnbrs' = DOMAIN vnbrs \cup {Len(vnbrs) + 1}
          /\ \A k \in DOMAIN vnbrs : vnbrs'[k] = vnbrs[k]
          /\ vnbrs'[Len(vnbrs) + 1] = n
      BY <1>1, <1>5, <2>1 DEF neighbor_add, n
    <2>3. /\ awaited' \in Seq(Peers) /\ DOMAIN awaited' = DOMAIN awaited \cup {Len(awaited) + 1}
          /\ \A k \in DOMAIN awaited : awaited'[k] = awaited[k]
          /\ awaited'[Len(awaited) + 1] = pkt.dst
      BY <1>1, <1>5
    <2>4. FramesRight'
      <3>1. send_neighbour_solicitation(pkt.dst).pkt.dst.prefix = "sol"
        BY DEF send_neighbour_solicitation, fill_ethhdr, Packet, SolicitedNode, Addr
      <3>2. QED
        BY <1>5, <3>1 DEF Ipv6Inv, FramesRight, ip6_is_multicast
    <2>5. V6Types' /\ MacsKnown'
      BY <2>1, <2>2, <2>3 DEF Ipv6Inv, V6Types, MacsKnown
    <2>6. CacheSound'
      <3>1. \A k \in DOMAIN vnbrs : vnbrs[k].ip # pkt.dst
        BY <1>5 DEF find_neighbor, ip6_cmp
      <3>2. (\A k, l \in DOMAIN vnbrs : vnbrs[k].ip = vnbrs[l].ip => k = l)'
        BY <2>1, <2>2, <3>1 DEF Ipv6Inv, CacheSound
      <3>3. (\A k \in DOMAIN vnbrs :
               vnbrs[k].frame # NoFrame => vnbrs[k].frame.dst = vnbrs[k].ip /\ vnbrs[k].mac = NullMac)'
        BY <2>1, <2>2 DEF Ipv6Inv, CacheSound
      <3>4. (\A k \in DOMAIN awaited : find_neighbor(vnbrs, awaited[k]) # {})'
        BY <2>1, <2>2, <2>3 DEF Ipv6Inv, CacheSound, find_neighbor, ip6_cmp
      <3>5. QED
        BY <3>2, <3>3, <3>4 DEF CacheSound
    <2>7. QED
      BY <2>4, <2>5, <2>6 DEF Ipv6Inv
  <1>6. at # {} /\ vnbrs[i].mac # NullMac => vnbrs[i].mac = MacOf[pkt.dst]
    BY <1>2 DEF Ipv6Inv, MacsKnown
  <1>7. vrouters # <<>> => ipv6_get_default_router(get_ipv6_address).mac \in RouterMacs
    BY DefaultRouter DEF Ipv6Inv
  <1>8. QED
    BY <1>3, <1>4, <1>5, <1>6, <1>7 DEF send_ipv6

\* Of the frames that arrive: a neighbour message comes from the host it names, an advertisement of a
\* router and a reply of a server are of those the network may hold.
LEMMA ArrivesRight ==
    ASSUME NEW f \in Arriving
    PROVE  /\ f.kind \in {"ns", "na"} => f.src \in Peers /\ f.from = MacOf[f.src]
           /\ f.kind = "ra" => f.ra \in Adverts
           /\ f.kind = "dhcp" => f.reply \in V6Replies
  <1>1. CASE \E h \in Hosts : f = FrameFrom(h, "na", OwnMac, vown)
    <2>1. PICK h \in Hosts : f = FrameFrom(h, "na", OwnMac, vown)
      BY <1>1
    <2>2. f.kind = "na" /\ f.src = h /\ f.from = MacOf[h]
      BY <2>1 DEF FrameFrom
    <2>3. QED
      BY <2>2 DEF Peers
  <1>2. CASE \E h \in OnLink : f = FrameFrom(h, "ns", vown.iface, SolicitedNode(vown))
    <2>1. PICK h \in OnLink : f = FrameFrom(h, "ns", vown.iface, SolicitedNode(vown))
      BY <1>2
    <2>2. f.kind = "ns" /\ f.src = h /\ f.from = MacOf[h]
      BY <2>1 DEF FrameFrom
    <2>3. QED
      BY <2>2 DEF Peers
  <1>3. CASE \E ra \in Adverts : f = [FrameFrom(ra.src, "ra", "nodes", AllNodes) EXCEPT !.ra = ra]
    BY <1>3 DEF FrameFrom
  <1>4. CASE \E x \in Servers \X (1..vtid) \X V6Replies : f = ReplyFrom(x[1], x[2], x[3])
    BY <1>4 DEF ReplyFrom, FrameFrom
  <1>5. QED
    <2>1. \/ \E h \in Hosts : f = FrameFrom(h, "na", OwnMac, vown)
          \/ \E h \in OnLink : f = FrameFrom(h, "ns", vown.iface, SolicitedNode(vown))
          \/ \E ra \in Adverts : f = [FrameFrom(ra.src, "ra", "nodes", AllNodes) EXCEPT !.ra = ra]
          \/ \E x \in Servers \X (1..vtid) \X V6Replies : f = ReplyFrom(x[1], x[2], x[3])
      <3> DEFINE nas == {FrameFrom(h, "na", OwnMac, vown) : h \in {h \in Hosts : Asked(h)}}
                 nss == {FrameFrom(h, "ns", vown.iface, SolicitedNode(vown)) : h \in OnLink}
                 ras == {[FrameFrom(ra.src, "ra", "nodes", AllNodes) EXCEPT !.ra = ra] : ra \in Adverts}
                 told == {ReplyFrom(x[1], x[2], x[3]) : x \in Servers \X (1..vtid) \X V6Replies}
      <3>1. f \in nas \cup nss \cup ras \cup told
        <4>1. Arriving = nas \cup nss \cup ras \cup (IF send_info_request \notin vout THEN {} ELSE told)
          BY Zenon DEF Arriving
        <4> HIDE DEF nas, nss, ras, told
        <4>2. QED
          BY <4>1
      <3>2. f \in nas => \E h \in Hosts : f = FrameFrom(h, "na", OwnMac, vown)
        BY Zenon
      <3>3. f \in nss => \E h \in OnLink : f = FrameFrom(h, "ns", vown.iface, SolicitedNode(vown))
        BY Zenon
      <3>4. f \in ras => \E ra \in Adverts : f = [FrameFrom(ra.src, "ra", "nodes", AllNodes) EXCEPT !.ra = ra]
        BY Zenon
      <3>5. f \in told => \E x \in Servers \X (1..vtid) \X V6Replies : f = ReplyFrom(x[1], x[2], x[3])
        BY Zenon
      <3> HIDE DEF nas, nss, ras, told
      <3>6. QED
        BY <3>1, <3>2, <3>3, <3>4, <3>5
    <2>2. QED
      BY <2>1, <1>1, <1>2, <1>3, <1>4

\* handle_na keeps the invariant: it fills in the entry of the host, or makes one, and sends the frame
\* that waited in the entry.
LEMMA AdvertisedRight ==
    ASSUME Ipv6Inv, NEW f, f.src \in Peers, f.from = MacOf[f.src], handle_na(f), UNCHANGED vpc
    PROVE  Ipv6Inv'
  <1> DEFINE at == find_neighbor(vnbrs, f.src)
             i == CHOOSE i \in at : TRUE
  <1>1. /\ vnbrs \in Seq(Neighbours) /\ UNCHANGED <<vrouters, awaited>>
        /\ f.from \in PeerMacs
    BY DEF Ipv6Inv, V6Types, handle_na, PeerMacs
  <1>2. NoFrame \in PeerFrames
    BY DEF NoFrame, PeerFrames
  <1>3. CASE at = {}
    <2> DEFINE n == neighbor_create(f.src, f.from)
    <2>1. n \in Neighbours /\ n.ip = f.src /\ n.mac = f.from /\ n.frame = NoFrame
      BY <1>1, <1>2 DEF neighbor_create, Neighbours
    <2> HIDE DEF n
    <2>2. vnbrs' = Append(vnbrs, n) /\ UNCHANGED vout
      BY <1>3 DEF handle_na, neighbor_add, n
    <2>3. /\ vnbrs' \in Seq(Neighbours) /\ DOMAIN vnbrs' = DOMAIN vnbrs \cup {Len(vnbrs) + 1}
          /\ \A k \in DOMAIN vnbrs : vnbrs'[k] = vnbrs[k]
          /\ vnbrs'[Len(vnbrs) + 1] = n
      BY <1>1, <2>1, <2>2
    <2>4. \A k \in DOMAIN vnbrs : vnbrs[k].ip # f.src
      BY <1>3 DEF find_neighbor, ip6_cmp
    <2>5. V6Types' /\ MacsKnown' /\ FramesRight'
      BY <1>1, <2>1, <2>2, <2>3 DEF Ipv6Inv, V6Types, MacsKnown, FramesRight
    <2>6. CacheSound'
      BY <1>1, <2>1, <2>3, <2>4 DEF Ipv6Inv, CacheSound, find_neighbor, ip6_cmp
    <2>7. QED
      BY <2>5, <2>6 DEF Ipv6Inv
  <1>4. CASE at # {}
    <2> DEFINE n == [vnbrs[i] EXCEPT !.mac = f.from, !.status = "reachable", !.frame = NoFrame]
    <2>1. i \in DOMAIN vnbrs /\ vnbrs[i].ip = f.src /\ vnbrs[i] \in Neighbours
      <3>1. i \in at
        BY <1>4
      <3>2. QED
        BY <1>1, <3>1 DEF find_neighbor, ip6_cmp
    <2>2. n \in Neighbours /\ n.ip = f.src /\ n.mac = f.from /\ n.frame = NoFrame
      BY <1>1, <1>2, <2>1 DEF Neighbours
    <2>3. /\ vnbrs' = [vnbrs EXCEPT ![i] = n]
          /\ vout' = IF vnbrs[i].frame = NoFrame THEN vout
                     ELSE vout \cup {fill_ethhdr(f.from, vnbrs[i].frame)}
      BY <1>4 DEF handle_na
    <2> HIDE DEF n, i
    <2>4. /\ vnbrs' \in Seq(Neighbours) /\ DOMAIN vnbrs' = DOMAIN vnbrs /\ vnbrs'[i] = n
          /\ \A k \in DOMAIN vnbrs : k # i => vnbrs'[k] = vnbrs[k]
      BY <1>1, <2>1, <2>2, <2>3
    <2>5. \A k \in DOMAIN vnbrs : vnbrs'[k].ip = vnbrs[k].ip
      BY <2>1, <2>2, <2>4
    <2>6. FramesRight'
      <3>1. vnbrs[i].frame # NoFrame => vnbrs[i].frame.dst = f.src
        BY <2>1 DEF Ipv6Inv, CacheSound
      <3>2. QED
        BY <2>3, <3>1 DEF Ipv6Inv, FramesRight, fill_ethhdr
    <2>7. V6Types' /\ MacsKnown'
      BY <1>1, <2>2, <2>4 DEF Ipv6Inv, V6Types, MacsKnown
    <2>8. CacheSound'
      BY <1>1, <2>2, <2>4, <2>5 DEF Ipv6Inv, CacheSound, find_neighbor, ip6_cmp
    <2>9. QED
      BY <2>6, <2>7, <2>8 DEF Ipv6Inv
  <1>5. QED
    BY <1>3, <1>4

\* handle_ra keeps the invariant: the router list changes, the neighbour cache does not.
LEMMA RouterRight ==
    ASSUME Ipv6Inv, NEW ra \in Adverts, handle_ra(ra), UNCHANGED vpc
    PROVE  Ipv6Inv'
  <1>1. vrouters \in Seq(Routers) /\ UNCHANGED <<vnbrs, vout, awaited>>
    BY DEF Ipv6Inv, V6Types, handle_ra
  <1>2. ASSUME NEW r \in Routers PROVE handle_source_lladdr(r, ra.slla) \in Routers
    BY DEF handle_source_lladdr, Routers, RouterMacs
  <1>3. router_create(ra.src, NullMac) \in Routers
    <2>1. NullMac \in RouterMacs
      BY Zenon DEF RouterMacs
    <2>2. QED
      BY <2>1 DEF router_create, Routers
  <1>4. vrouters' \in Seq(Routers)
    <2>1. CASE find_router(ra.src) = {}
      <3>1. vrouters' = Append(vrouters, handle_source_lladdr(router_create(ra.src, NullMac), ra.slla))
        BY <2>1 DEF handle_ra, router_add
      <3>2. QED
        BY <1>1, <1>2, <1>3, <3>1
    <2>2. CASE find_router(ra.src) # {}
      <3>1. PICK i \in DOMAIN vrouters :
              vrouters' = [vrouters EXCEPT ![i] = handle_source_lladdr(vrouters[i], ra.slla)]
        BY <2>2 DEF handle_ra, find_router
      <3>2. vrouters[i] \in Routers
        BY <1>1
      <3>3. handle_source_lladdr(vrouters[i], ra.slla) \in Routers
        BY <1>2, <3>2
      <3>4. QED
        BY <1>1, <3>1, <3>3
    <2>3. QED
      BY <2>1, <2>2
  <1>5. QED
    BY <1>1, <1>4, ZenonT(60) DEF Ipv6Inv, V6Types, MacsKnown, FramesRight, CacheSound, find_neighbor, ip6_cmp

\* Whatever frame arrives, its handler keeps the invariant.
LEMMA ReceivesRight ==
    ASSUME Ipv6Inv, NEW f \in Arriving, ReceiveV6(f)
    PROVE  Ipv6Inv'
  <1>1. vpc # "off" /\ UNCHANGED vpc /\ (handle_icmpv6(f) \/ handle_udp(f))
    BY DEF ReceiveV6, receive_ether, handle_ipv6
  <1>2. CASE f.kind = "ns" /\ send_neighbour_advertisement(f)
    <2> DEFINE pkt == Packet(f.src, "na")
    <2>1. f.src \in Peers
      BY <1>2, ArrivesRight
    <2>2. pkt \in PeerFrames /\ pkt.dst \in Peers /\ pkt # NoFrame
      BY <2>1 DEF Packet, PeerFrames, NoFrame
    <2>3. send_ipv6(pkt) /\ UNCHANGED <<vpc, vrouters>>
      BY <1>1, <1>2 DEF send_neighbour_advertisement
    <2> HIDE DEF pkt
    <2>4. QED
      BY <1>1, <2>2, <2>3, SendsRight
  <1>3. CASE f.kind = "na" /\ handle_na(f)
    BY <1>1, <1>3, ArrivesRight, AdvertisedRight
  <1>4. CASE f.kind = "ra" /\ handle_ra(f.ra)
    BY <1>1, <1>4, ArrivesRight, RouterRight
  <1>5. CASE handle_udp(f)
    BY <1>1, <1>5 DEF handle_udp, handle_dhcpv6, Ipv6Inv, V6Types, MacsKnown, FramesRight, CacheSound,
                      find_neighbor, ip6_cmp
  <1>6. QED
    BY <1>1, <1>2, <1>3, <1>4, <1>5 DEF handle_icmpv6

\* ndp_init empties the cache; nobody is waited for when it does, so no wait loses its entry.
LEMMA StartsRight ==
    ASSUME Ipv6Inv, awaited = <<>>, StartIpv6, UNCHANGED awaited
    PROVE  Ipv6Inv'
  <1>1. vnbrs' = <<>> /\ vrouters' = <<>> /\ vout' = vout \cup {send_router_solicitation}
    BY DEF StartIpv6, ndp_init
  <1>2. send_router_solicitation.pkt.dst.prefix = "mc"
    BY DEF send_router_solicitation, fill_ethhdr, Packet, AllRouters, Addr
  <1>3. FramesRight'
    BY <1>1, <1>2 DEF Ipv6Inv, FramesRight, ip6_is_multicast
  <1>4. V6Types' /\ MacsKnown' /\ CacheSound'
    BY <1>1 DEF V6Types, MacsKnown, CacheSound
  <1>5. QED
    BY <1>3, <1>4 DEF Ipv6Inv

\* Every step of IPv6 keeps the invariant.
LEMMA Ipv6Step == Ipv6Inv /\ [Ipv6Next]_vvars => Ipv6Inv'
  <1> SUFFICES ASSUME Ipv6Inv, [Ipv6Next]_vvars PROVE Ipv6Inv'
    OBVIOUS
  <1> USE DEF find_neighbor, ip6_cmp
  <1>1. CASE UNCHANGED vvars
    BY <1>1 DEF vvars, Ipv6Inv, V6Types, MacsKnown, FramesRight, CacheSound
  <1>2. CASE dhcpv6_generate_transaction_id
    BY <1>2, StartsRight DEF dhcpv6_generate_transaction_id, Ipv6Inv, V6Types
  <1>3. CASE ipv6_init
    <2>1. /\ vpc' = "dhcp" /\ vout' = vout \cup {send_info_request}
          /\ UNCHANGED <<vrouters, vnbrs, awaited>>
      BY <1>3 DEF ipv6_init
    <2>2. send_info_request.pkt.dst.prefix = "mc"
      BY DEF send_info_request, fill_ethhdr, Packet, AllServers, Addr
    <2>3. FramesRight'
      BY <2>1, <2>2 DEF Ipv6Inv, FramesRight, ip6_is_multicast
    <2>4. V6Types' /\ MacsKnown' /\ CacheSound'
      BY <2>1 DEF Ipv6Inv, V6Types, MacsKnown, CacheSound
    <2>5. QED
      BY <2>3, <2>4 DEF Ipv6Inv
  <1>4. CASE dhcpv6_attempt
    <2>1. CASE StartIpv6
      BY <1>4, <2>1, StartsRight DEF dhcpv6_attempt
    <2>2. CASE vpc' = "up" /\ UNCHANGED <<vlist, vown, vrouters, vnbrs, vout>>
      BY <1>4, <2>2 DEF dhcpv6_attempt, Ipv6Inv, V6Types, MacsKnown, FramesRight, CacheSound
    <2>3. QED
      BY <1>4, <2>1, <2>2 DEF dhcpv6_attempt
  <1>5. CASE WaitEnds
    <2>1. /\ awaited # <<>> /\ (awaited' = Front(awaited) \/ awaited' = <<>>)
          /\ UNCHANGED <<vpc, vrouters, vnbrs, vout>>
      BY <1>5 DEF WaitEnds
    <2>2. /\ awaited' \in Seq(Peers) /\ DOMAIN awaited' \subseteq DOMAIN awaited
          /\ \A k \in DOMAIN awaited' : awaited'[k] = awaited[k]
      <3>1. awaited \in Seq(Peers)
        BY DEF Ipv6Inv, V6Types
      <3>2. QED
        <4>1. CASE awaited' = <<>>
          BY <4>1
        <4>2. CASE awaited' = Front(awaited)
          <5>1. awaited' = SubSeq(awaited, 1, Len(awaited) - 1) /\ Len(awaited) \in Nat \ {0}
            BY <2>1, <3>1, <4>2 DEF Front
          <5>2. QED
            BY <3>1, <5>1
        <4>3. QED
          BY <2>1, <4>1, <4>2
    <2>3. QED
      BY <2>1, <2>2 DEF Ipv6Inv, V6Types, MacsKnown, FramesRight, CacheSound
  <1>6. ASSUME NEW h \in Hosts, UpperSends(h) PROVE Ipv6Inv'
    <2> DEFINE pkt == Packet(h, "data")
    <2>1. pkt \in PeerFrames /\ pkt.dst \in Peers /\ pkt # NoFrame
      BY DEF Packet, PeerFrames, NoFrame, Peers
    <2>2. vpc = "up" /\ send_ipv6(pkt) /\ UNCHANGED <<vpc, vrouters>>
      BY <1>6 DEF UpperSends
    <2> HIDE DEF pkt
    <2>3. QED
      BY <2>1, <2>2, SendsRight
  <1>7. QED
    BY <1>1, <1>2, <1>3, <1>4, <1>5, <1>6, ReceivesRight DEF Ipv6Next

\* For every network and every order of messages: a unicast frame that send_ipv6 or handle_na sends
\* goes to the MAC address of its destination or of a router, a host has one entry in the neighbour
\* cache, a stored frame waits in the entry of its destination until handle_na fills it in, and a wait
\* in send_ipv6 is for a host that has an entry.
THEOREM NeighboursReached == Ipv6Spec => []NeighboursRight
  <1>1. Ipv6Inv => NeighboursRight
    BY DEF Ipv6Inv, NeighboursRight
  <1>2. QED
    BY <1>1, Ipv6Initially, Ipv6Step, PTL DEF Ipv6Spec

\* What the reply accepted last told, if any.
ConfigTold ==
    \/ vcfg.file = "" \/ vcfg.server = "text"
    \/ \E u \in V6Replies : u.scheme = "tftp" /\ vcfg = [file |-> u.file, server |-> u.host]

\* The inductive invariant of dhcpv6: success was set by the reply to this call.
V6ConfigInv ==
    /\ vpc \in {"dhcp", "up"} /\ vstate = "success" => vgot = vtid
    /\ ConfigTold

\* handle_dhcpv6 keeps the invariant: it takes a reply of its own transaction only.
LEMMA ReplyTaken ==
    ASSUME V6ConfigInv, NEW f \in Arriving, handle_dhcpv6(f), UNCHANGED <<vpc, vtid>>
    PROVE  V6ConfigInv'
  <1>1. f.reply \in V6Replies /\ vgot' = vtid
    BY ArrivesRight DEF handle_dhcpv6, OwnTid
  <1>2. vcfg' = parse_tftp_args(f.reply)
    BY DEF handle_dhcpv6, dhcp6_process_options
  <1>3. ConfigTold'
    <2>1. CASE f.reply.scheme # "tftp" \/ f.reply.file = ""
      BY <1>2, <2>1 DEF parse_tftp_args, V6ConfigInv, ConfigTold
    <2>2. CASE ~(f.reply.scheme # "tftp" \/ f.reply.file = "")
      <3>1. vcfg' = [file |-> f.reply.file, server |-> IF f.reply.kind = "address" THEN f.reply.host ELSE "text"]
        BY <1>2, <2>2 DEF parse_tftp_args
      <3>2. QED
        BY <1>1, <2>2, <3>1 DEF ConfigTold
    <2>3. QED
      BY <2>1, <2>2
  <1>4. QED
    BY <1>1, <1>3 DEF V6ConfigInv

\* For every set of servers, replies and calls: when dhcpv6 returns success, handle_dhcpv6 took a reply
\* to the transaction of this very call, and the boot file and server are those of one reply's URL.
THEOREM ConfigOfThisCall == Ipv6Spec => []V6ConfigOwn
  <1>1. Ipv6Init => V6ConfigInv
    <2> SUFFICES ASSUME Ipv6Init PROVE V6ConfigInv
      OBVIOUS
    <2>1. vpc = "off" /\ vcfg = [file |-> "", server |-> ""]
      BY DEF Ipv6Init
    <2>2. vcfg.file = ""
      BY <2>1
    <2>3. QED
      BY <2>1, <2>2 DEF V6ConfigInv, ConfigTold
  <1>2. V6ConfigInv /\ [Ipv6Next]_vvars => V6ConfigInv'
    <2> SUFFICES ASSUME V6ConfigInv, [Ipv6Next]_vvars PROVE V6ConfigInv'
      OBVIOUS
    <2>1. ASSUME UNCHANGED <<vpc, vstate, vgot, vtid, vcfg>> PROVE V6ConfigInv'
      BY <2>1 DEF V6ConfigInv, ConfigTold
    <2>2. CASE UNCHANGED vvars
      BY <2>1, <2>2 DEF vvars
    <2>3. CASE dhcpv6_generate_transaction_id
      BY <2>3 DEF dhcpv6_generate_transaction_id, StartIpv6, V6ConfigInv, ConfigTold
    <2>4. CASE ipv6_init
      BY <2>4 DEF ipv6_init, V6ConfigInv, ConfigTold
    <2>5. CASE dhcpv6_attempt
      BY <2>5 DEF dhcpv6_attempt, StartIpv6, V6ConfigInv, ConfigTold
    <2>6. CASE WaitEnds
      BY <2>1, <2>6 DEF WaitEnds
    <2>7. ASSUME NEW h \in Hosts, UpperSends(h) PROVE V6ConfigInv'
      BY <2>1, <2>7 DEF UpperSends
    <2>8. ASSUME NEW f \in Arriving, ReceiveV6(f) PROVE V6ConfigInv'
      <3>1. UNCHANGED <<vpc, vtid>> /\ (handle_icmpv6(f) \/ handle_dhcpv6(f))
        BY <2>8 DEF ReceiveV6, receive_ether, handle_ipv6, handle_udp
      <3>2. handle_icmpv6(f) => UNCHANGED <<vstate, vcfg, vgot>>
        BY DEF handle_icmpv6, handle_na, handle_ra, send_neighbour_advertisement
      <3>3. QED
        BY <2>1, <3>1, <3>2, ReplyTaken
    <2>9. QED
      BY <2>2, <2>3, <2>4, <2>5, <2>6, <2>7, <2>8 DEF Ipv6Next
  <1>3. V6ConfigInv => V6ConfigOwn
    BY DEF V6ConfigInv, ConfigTold, V6ConfigOwn
  <1>4. QED
    BY <1>1, <1>2, <1>3, PTL DEF Ipv6Spec
=============================================================================
