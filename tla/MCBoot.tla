------------------------------- MODULE MCBoot -------------------------------
(***************************************************************************)
(* Booting for TLC: from the network, with DHCP, name lookup, ARP, IPv6    *)
(* and netload with pxelinux; and measured by the TPM, with the            *)
(* measurements and their log, the driver's command queue, and the padding *)
(* of the hash functions.  Each behaviour of the model follows one of the  *)
(* parts; they share no state beyond the results each module describes.    *)
(* tcgbios.c relies on the driver for what Tcgbios!spapr_transmit says,    *)
(* and AnswersMatched is its counterpart.                                  *)
(***************************************************************************)
EXTENDS Dhcp, Ipv6, Arp, Vtpm, Sha, TLC

CONSTANTS
    MaxName, LongLabel, MaxLookups, MaxQueries, HaveServer,
    Addrs, Numbers, MaxEntries, Room, BootRetries,
    LogSize, GptParts, MaxParts, MaxFaults, MaxTpmCalls

Opt(c, d) == [code |-> c, data |-> d]
EndOpt == Opt("end", <<>>)
Plain(kind, si, sname, file) ==
    [kind |-> kind, si |-> si, sname |-> sname, file |-> file, vend |-> <<EndOpt>>,
     fileopts |-> <<>>, snameopts |-> <<>>, used |-> {}]

\* A fills in the header; B uses the file and sname fields for options that go
\* on from one to the next; C names its server by address; D speaks BOOTP only.
MCContent ==
    [s \in DServers |->
       CASE s = "A" -> [Plain("dhcp", <<"A">>, <<>>, <<"fa">>) EXCEPT
                          !.vend = <<Opt("mask", <<"m">>), Opt("router", <<"r">>), EndOpt>>]
         [] s = "B" -> [Plain("dhcp", Unset, <<>>, <<>>) EXCEPT
                          !.vend = <<Opt("overload", <<"both">>), Opt("pad", <<>>), Opt("tftp", <<"t1">>),
                                     Opt("dns", <<"d">>), EndOpt>>,
                          !.fileopts = <<Opt("tftp", <<"t2">>), Opt("file", <<"f1">>), EndOpt, Opt("file", <<"no">>)>>,
                          !.snameopts = <<Opt("pad", <<>>), Opt("file", <<"f2">>)>>,
                          !.used = {"fileopts", "snameopts"}]
         [] s = "C" -> Plain("ext", Unset, <<"address">>, <<"fc">>)
         [] s = "D" -> Plain("bootp", Unset, <<>>, <<"fd">>)]

Urls == {<<"http", "://", "me", ":", "pw", "@", "www", ".", "org", ":", "80", "/", "x">>,
         <<"ftp", ".", "org", "/">>, <<"host", ".", "org", ".">>, <<"gone", ".", "org">>,
         <<"/">>, <<"a", ".", "long">>, <<".", "org">>}
Zone == (<<"www", "org">> :> [type |-> "CNAME", to |-> <<"host", "org">>])
        @@ (<<"host", "org">> :> [type |-> "A", to |-> <<"a1">>])
        @@ (<<"ftp", "org">> :> [type |-> "A", to |-> <<"a2">>])

HostNear == [prefix |-> "net", iface |-> "h1"]
HostNet == [prefix |-> "net", iface |-> "h2"]
HostFar == [prefix |-> "far", iface |-> "h3"]
Router == [prefix |-> "ll", iface |-> "r"]
MCHosts == {HostNear, HostNet, HostFar}
MCOnLink == {HostNet}
MCServers == {HostNet}
MCMacOf == (HostNear :> "m1") @@ (HostNet :> "m2") @@ (HostFar :> "m3") @@ (Router :> "mr")
MCAdverts == {[src |-> Router, slla |-> "mr", prefixes |-> <<"ll", "net", "net">>],
            [src |-> Router, slla |-> "null", prefixes |-> <<>>]}
MCV6Replies == {[scheme |-> "tftp", kind |-> "address", host |-> "s", file |-> "f"],
              [scheme |-> "tftp", kind |-> "name", host |-> "n", file |-> "f"],
              [scheme |-> "http", kind |-> "address", host |-> "h", file |-> "f"]}

ArgStrings == {<<>>, <<"dhcp">>, <<"bootp", "s", "f", "c", "g", "5", "7">>, <<"ipv6", "s", "f", "c">>,
               <<"ipv6", "">>, <<"s", "f", "c">>, <<"s", "", "c">>, <<"f">>, <<"bootp", "", "", "", "g">>, <<"s">>}
Line(c, a) == [cmd |-> c, arg |-> a]
Configs == {<<>>,
            <<Line("default", "b"), Line("label", "a"), Line("kernel", "ka"),
              Line("label", "b"), Line("kernel", "kb"), Line("initrd", "ib"), Line("append", "x")>>,
            <<Line("#", ""), Line("kernel", "k0"), Line("label", "a"), Line("kernel", "ka"),
              Line("kernel", "ka2"), Line("label", "b"), Line("kernel", "kb")>>,
            <<Line("default", "c"), Line("label", "a"), Line("kernel", "ka"), Line("label", "b"),
              Line("kernel", "kb"), Line("label", "c"), Line("kernel", "kc")>>}
\* "1.2.3.4", "1.2.3.256", "1.2.3.255\24", "1.2.3.4\32", "1.2.3", "1.2.3.4.5", ...
Texts == {<<1, -1, 2, -1, 3, -1, 4>>, <<1, -1, 2, -1, 3, -1, 256>>, <<1, -1, 2, -1, 3, -1, 255, -2, 24>>,
          <<1, -1, 2, -1, 3, -1, 4, -2, 32>>, <<1, -1, 2, -1, 3>>, <<1, -1, 2, -1, 3, -1, 4, -1, 5>>,
          <<>>, <<-3>>, <<1, -1, -1, 3, -1, 4>>, <<1, -1, 2, -1, 3, -2, 8>>, <<1, -1, 2, -1, 3, -1, 4, -2>>,
          <<1, -1, 2, -1, 3, -1, 4, -1>>, <<0, -1, 0, -1, 0, -1, 0, -3>>}

\* A bank switched off, an algorithm without implementation, one the firmware
\* does not know (active or not), and two malformed structures.
Bank(a, s) == [alg |-> a, select |-> s]
Banks(e, n, t) == [entries |-> e, count |-> n, tail |-> t]
Selections ==
    {Banks(<<Bank("sha1", "none"), Bank("sha256", "low")>>, 2, FALSE),
     Banks(<<Bank("sha256", "low"), Bank("sm3_256", "low")>>, 2, FALSE),
     Banks(<<Bank("sha512", "low"), Bank("other", "none")>>, 2, FALSE),
     Banks(<<Bank("other", "low")>>, 1, FALSE),
     Banks(<<Bank("sha256", "low"), Bank("sha1", "high")>>, 1, FALSE),
     Banks(<<Bank("sha256", "low")>>, 1, TRUE)}

VARIABLES
    part,
    qpc, qurl, qname, qcname, qres, qerr, qn, qcalls, qasked, qret,
    npc, nargs, nover, nver, ninit, nfn, nfd, npkt, ncfgbuf, nrc, nfiles, ncfg, nentry, nmem,
    ninitrd, nsent, ntries, npong,
    tpm, drv, tpm_state, uefi_gpt_data, phase, hist

qvars == <<qpc, qurl, qname, qcname, qres, qerr, qn, qcalls, qasked, qret>>
nvars == <<npc, nargs, nover, nver, ninit, nfn, nfd, npkt, ncfgbuf, nrc, nfiles, ncfg, nentry, nmem,
           ninitrd, nsent, ntries, npong>>
tvars == <<tpm, drv, tpm_state, uefi_gpt_data, phase, hist>>
tpmvars == <<tvars, crqvars, shavars>>
netvars == <<dvars, qvars, vvars, nvars, arpvars>>

Q == INSTANCE Dns
N == INSTANCE Netload
T == INSTANCE Tcgbios WITH Parts <- GptParts, MaxCalls <- MaxTpmCalls

ASSUME DecodesAssumption == DecodesAsTold

Init ==
    /\ DhcpInit /\ Q!dns_init /\ Ipv6Init /\ N!Init /\ ArpInit /\ T!Init /\ CrqInit /\ ShaInit
    /\ part \in {"dhcp", "dns", "ipv6", "netload", "arp", "tcg", "crq", "sha"}
    /\ part # "tcg" => drv = "ok" /\ tpm = T!Fresh(CHOOSE sel \in Selections : TRUE)
    /\ part # "netload" => nargs = <<>> /\ ~nover /\ nfiles = {} /\ ncfg = <<>>

Next ==
    /\ UNCHANGED part
    /\ \/ part = "dhcp" /\ DhcpNext /\ UNCHANGED <<qvars, vvars, nvars, arpvars, tpmvars>>
       \/ part = "dns" /\ Q!Next /\ UNCHANGED <<dvars, vvars, nvars, arpvars, tpmvars>>
       \/ part = "ipv6" /\ Ipv6Next /\ UNCHANGED <<dvars, qvars, nvars, arpvars, tpmvars>>
       \/ part = "netload" /\ N!Next /\ UNCHANGED <<dvars, qvars, vvars, arpvars, tpmvars>>
       \/ part = "arp" /\ ArpNext /\ UNCHANGED <<dvars, qvars, vvars, nvars, tpmvars>>
       \/ part = "tcg" /\ T!Next /\ UNCHANGED <<netvars, crqvars, shavars>>
       \/ part = "crq" /\ CrqNext /\ UNCHANGED <<netvars, tvars, shavars>>
       \/ part = "sha" /\ ShaNext /\ UNCHANGED <<netvars, tvars, crqvars>>

\* The client's own steps: the network is polled until the timer runs out, and
\* it does run out.
Others == <<part, qvars, vvars, nvars, arpvars, tpmvars>>
Fairness == /\ WF_dvars(part = "dhcp" /\ dhcpv4 /\ UNCHANGED Others)
            /\ WF_dvars(part = "dhcp" /\ NameResolved /\ UNCHANGED Others)
            /\ WF_dvars(part = "dhcp" /\ dhcp_attempt /\ UNCHANGED Others)

Spec == Init /\ [][Next]_<<part, netvars, tpmvars>> /\ Fairness

\* A name lookup returns the address of the host asked for, whatever answers to
\* earlier lookups arrive (dns_get_ip, handle_dns).
LookupRight == Q!LookupRight

\* We listen to the IPv6 addresses we use, take DHCPv6 replies of our own call
\* only, and read back the addresses we print (ip6addr_add, handle_dhcpv6,
\* ipv6_to_str).
Ipv6Sound == part = "ipv6" => AddressesSound /\ V6ConfigOwn /\ TextRoundTrip

\* Kernel and initrd are whole and are those of the entry that the pxelinux
\* configuration makes the default; the addresses given as arguments are read
\* right and have precedence over what BOOTP or DHCP told; and socket and buffers
\* are given back whichever way it ends (net_pxelinux_load, pxelinux_parse_cfg,
\* parse_args, strtoip_netmask, netload, ping).
LoadedAsTold ==
    part = "netload" =>
        /\ N!LoadedWhole /\ N!EntryRight
        /\ N!ArgumentsRule /\ N!AddressesRead
        /\ N!AllReturned

\* Replaying the log gives the PCRs of every active bank, up to measurements
\* that were reported as failed, and the partition table measured is the one on
\* the disk; after the hand-over neither the log nor a PCR changes, and a TPM
\* given up is left disabled (tpm_add_measurement_to_log, tpm_gpt_add_entry,
\* tpm_driver_set_failure_reason, sml-handover, tpm_set_failure).
MeasurementsRight ==
    part = "tcg" =>
        /\ T!LogExplainsPcrs /\ T!GptMeasured
        /\ T!HandedOverFinal /\ T!GivenUpDisabled
=============================================================================
