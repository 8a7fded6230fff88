------------------------------ MODULE Netload -------------------------------
(***************************************************************************)
(* Booting from the network: netload.c with its arguments (args.c), BOOTP  *)
(* (bootp.c), pxelinux.cfg files (pxelinux.c) and ping.c.  DHCP and TFTP   *)
(* are modules of their own; here they are calls that end in one of their  *)
(* results.                                                                *)
(*                                                                         *)
(* The argument string is a sequence of the texts between its commas, and  *)
(* NULL is a pointer past the last one.  The memory a file is loaded to is *)
(* a function on 0..Room-1, so that what lies where can be seen.           *)
(***************************************************************************)
EXTENDS Integers, Sequences, SequencesExt

CONSTANTS
    ArgStrings,   \* the argument strings
    Addrs,        \* texts that are addresses
    Numbers,      \* texts that are numbers
    Texts,        \* texts strtoip_netmask is tried on, in the form it is given below
    Configs,      \* contents of the pxelinux.cfg file: lines [cmd, arg]
    MaxEntries,   \* MAX_PL_CFG_ENTRIES
    Room,         \* maxloadlen
    BootRetries   \* DEFAULT_BOOT_RETRIES

NULL == <<"NULL">>
\* An entry field the configuration does not set: entries[] is not initialised.
Junk == "?"
Free == "-"

VARIABLES
    npc, nargs, nover,   \* next step, argument string, longer than 255
    nver, ninit,         \* ip_version, ip_init
    nfn,                 \* fn_ip: own, server, file, cfg (a file name of option 209)
    nfd, npkt, ncfgbuf,  \* open socket, pkt_buffer, cfgbuf
    nrc,
    nfiles, ncfg,        \* the pxelinux.cfg files of the server, and their content
    nentry,              \* entries[def]
    nmem, ninitrd,       \* the buffer; the range told in the device tree
    nsent,               \* what was sent: requests of bootp(), the release
    ntries,
    npong

nvars == <<npc, nargs, nover, nver, ninit, nfn, nfd, npkt, ncfgbuf, nrc, nfiles, ncfg,
           nentry, nmem, ninitrd, nsent, ntries, npong>>

-----------------------------------------------------------------------------
(* Arguments.                                                              *)

get_arg_ptr(args) == IF Len(args) > 1 /\ args # NULL THEN Tail(args) ELSE NULL
get_args_count(args) == Len(args)
get_arg_length(args) == IF args[1] = "" THEN 0 ELSE 1
\* The buffer keeps what it has if there is no argument.
argncpy(args, buf) == IF args = NULL THEN buf ELSE args[1]

\* The text of an address is a sequence of numbers (runs of digits) and of the
\* other characters: Dot, Backslash, or what is neither.
Dot == -1
Backslash == -2
From(text, c) == SubSeq(text, SelectInSeq(text, LAMBDA x : x = c), Len(text))

IsOctet(n) == n \in 0..255

\* "a.b.c.d" or "a.b.c.d\nn".  An octet is the number that the part before the
\* next dot starts with.
RECURSIVE ReadOctets(_, _)
ReadOctets(text, ip) ==
    LET bad == [ok |-> FALSE, ip |-> ip]
        rest == IF Contains(text, Dot) THEN Tail(From(text, Dot))
                ELSE IF Contains(text, Backslash) THEN Tail(From(text, Backslash)) ELSE <<>>
        masked == ~Contains(text, Dot) /\ Contains(text, Backslash)
    IN IF text = <<>> THEN [ok |-> Len(ip) = 4, ip |-> ip]
       ELSE IF Len(ip) > 3 \/ text[1] < 0 \/ ~IsOctet(text[1]) THEN bad
       ELSE IF ~masked THEN ReadOctets(rest, Append(ip, text[1]))
       ELSE IF rest = <<>> THEN bad
       ELSE [ok |-> rest[1] \in 1..31 /\ Len(ip) = 3, ip |-> Append(ip, text[1])]

strtoip_netmask(text) == ReadOctets(text, <<>>)

\* In argument strings the texts in Addrs are addresses.
strtoip(text) == text \in Addrs


\* An address, if the next argument is one or empty; any other is left where it is.
TakeAddr(args, argc) ==
    IF argc = 0 THEN [addr |-> "", args |-> args, argc |-> 0]
    ELSE IF strtoip(args[1]) \/ get_arg_length(args) = 0
    THEN [addr |-> args[1], args |-> get_arg_ptr(args), argc |-> argc - 1]
    ELSE [addr |-> "", args |-> args, argc |-> argc]

TakeFile(args, argc) ==
    IF argc = 0 THEN [file |-> "", args |-> args, argc |-> 0]
    ELSE [file |-> args[1], args |-> get_arg_ptr(args), argc |-> argc - 1]

\* parse_ipv4args and parse_ipv6args do the same, with addresses of their kind.
parse_ipv4args(args, argc) ==
    LET s == TakeAddr(args, argc)
        f == TakeFile(s.args, s.argc)
        c == TakeAddr(f.args, f.argc)
        g == TakeAddr(c.args, c.argc)
    IN [si |-> s.addr, file |-> f.file, ci |-> c.addr, gi |-> g.addr, rest |-> g.args]
parse_ipv6args(args, argc) == parse_ipv4args(args, argc)

\* A number of retries; argc is not the number of arguments that are left, as
\* the functions above count down their own copy of it.
TakeRetries(args, argc, buf, default) ==
    LET text == argncpy(args, buf)
    IN IF argc = 0 \/ text = "" THEN default ELSE IF text \in Numbers THEN text ELSE "some number"

Methods == {"bootp", "dhcp", "ipv6"}

parse_args(args) ==
    LET named == args[1] \in Methods
        argc == get_args_count(args) - IF named THEN 1 ELSE 0
        first == IF named THEN get_arg_ptr(args) ELSE args
        p == IF args[1] = "ipv6" THEN parse_ipv6args(first, argc) ELSE parse_ipv4args(first, argc)
    IN [init |-> IF named THEN args[1] ELSE "default", ver |-> IF args[1] = "ipv6" THEN 6 ELSE 4,
        si |-> p.si, file |-> p.file, ci |-> p.ci, gi |-> p.gi,
        bootp |-> TakeRetries(p.rest, argc, args[1], "default"),
        tftp |-> TakeRetries(get_arg_ptr(p.rest), argc - 1,
                             argncpy(p.rest, args[1]), "default")]

NoArgs == [init |-> "default", ver |-> 4, si |-> "", file |-> "", ci |-> "", gi |-> "",
           bootp |-> "default", tftp |-> "default"]

Args == IF nargs = <<>> THEN NoArgs ELSE parse_args(nargs)

-----------------------------------------------------------------------------
(* pxelinux.                                                               *)

get_uuid == "uuid"

\* The names tried, most specific first; 8 to 1 stand for the leading digits of
\* the client's IPv4 address.
ConfigNames == (IF nfn.cfg # "" THEN <<nfn.cfg>> ELSE <<>>) \o <<get_uuid, "mac">>
               \o (IF nver = 4 THEN <<"ip8", "ip7", "ip1">> ELSE <<>>) \o <<"default">>

pxelinux_tftp_load(name) == name \in nfiles
Tried == SelectSeq(ConfigNames, pxelinux_tftp_load)
pxelinux_load_cfg == IF Tried = <<>> THEN "" ELSE Tried[1]

\* A variant that takes the last entry for the default when no label fits.
LastLabel(st, arg) == Len(st.entries)
\* Index of the default entry once a label has been read.
DefEnt(st, arg) == IF st.default # "" /\ arg = st.default THEN Len(st.entries) ELSE st.def

ParseLine(st, l) ==
    LET n == Len(st.entries)
        set(field) == [st EXCEPT !.entries[n] = [@ EXCEPT ![field] = l.arg]]
    IN IF n = MaxEntries THEN st
       ELSE CASE l.cmd = "default" -> [st EXCEPT !.default = l.arg]
              [] l.cmd = "label" ->
                   LET s == [st EXCEPT !.entries = Append(@, [label |-> l.arg, kernel |-> Junk,
                                                              initrd |-> Junk, append |-> Junk])]
                   IN [s EXCEPT !.def = DefEnt(s, l.arg)]
              [] l.cmd \in {"kernel", "initrd", "append"} /\ n > 0 -> set(l.cmd)
              [] OTHER -> st

\* def counts from 1; no label fits: the first entry.
pxelinux_parse_cfg(lines) == FoldLeft(ParseLine, [entries |-> <<>>, def |-> 1, default |-> ""], lines)

pxelinux_load_parse_cfg == IF pxelinux_load_cfg = "" THEN <<>> ELSE pxelinux_parse_cfg(ncfg).entries

-----------------------------------------------------------------------------

Init ==
    /\ npc = "start" /\ nargs \in ArgStrings /\ nover \in BOOLEAN
    /\ nver = 4 /\ ninit = "" /\ nfn = [own |-> "", server |-> "", file |-> "", cfg |-> ""]
    /\ nfd = FALSE /\ npkt = FALSE /\ ncfgbuf = FALSE /\ nrc = 0
    /\ nfiles \in {{}, {"mac", "default"}, {"option"}, {"ip7", "ip1", "default"}}
    /\ ncfg \in Configs
    /\ nentry = [label |-> Junk, kernel |-> Junk, initrd |-> Junk, append |-> Junk]
    /\ nmem = [i \in 0..Room - 1 |-> Free] /\ ninitrd = <<0, 0>>
    /\ nsent = {} /\ ntries = 0 /\ npong = FALSE

Go(next) == npc' = next
\* err_out and the end of netload: pkt_buffer is freed.
Out(rc) == npc' = "out" /\ nrc' = rc /\ npkt' = FALSE

\* netload: allocate, and open the socket, up to ten times a second apart.
Open ==
    /\ npc = "start"
    /\ \/ npc' = "out" /\ nrc' = -1 /\ UNCHANGED <<nfd, npkt>>
       \/ Out(-100) /\ UNCHANGED nfd
       \/ Out(-101) /\ UNCHANGED nfd
       \/ Go("args") /\ nfd' = TRUE /\ npkt' = TRUE /\ UNCHANGED nrc
    /\ UNCHANGED <<nargs, nover, nver, ninit, nfn, ncfgbuf, nfiles, ncfg, nentry, nmem, ninitrd, nsent, ntries, npong>>

\* How the address is to be found: everything may be in the arguments.
InitMethod(a) ==
    IF a.ver = 4
    THEN IF a.ci # "" /\ a.si # "" /\ a.file # "" THEN "none" ELSE a.init
    ELSE IF a.si # "" /\ a.file # "" THEN "manual" ELSE "ipv6"

\* A string that is too long: the socket stays open.
ReadArgs ==
    /\ npc = "args"
    /\ IF nargs # <<>> /\ nover
       THEN Out(-7) /\ UNCHANGED <<nver, ninit, nfn, ntries>>
       ELSE /\ nver' = Args.ver /\ ninit' = InitMethod(Args)
            /\ nfn' = [nfn EXCEPT !.own = IF ninit' = "bootp" THEN "" ELSE Args.ci, !.server = IF ninit' \in {"none", "manual"} THEN Args.si ELSE
                                                              IF ninit' = "bootp" THEN Args.gi ELSE @]
            /\ ntries' = BootRetries + 1
            /\ Go(IF ninit' = "bootp" THEN "bootp" ELSE "address")
            /\ UNCHANGED <<nrc, npkt>>
    /\ UNCHANGED <<nargs, nover, nfd, ncfgbuf, nfiles, ncfg, nentry, nmem, ninitrd, nsent, npong>>

\* The frames that may arrive while BOOTP waits.
Frames == {"reply", "request", "other mac", "bad checksum", "other port", "not udp"}
send_bootp == [type |-> "bootp", to |-> IF nfn.server = "" THEN "broadcast" ELSE nfn.server]
receive_bootp(frame) == frame = "reply"

\* A request, and the frame that ends the wait; none within a second: again.
bootp ==
    /\ npc = "bootp"
    /\ IF ntries = 0 THEN nrc' = -1 /\ Go("check") /\ UNCHANGED <<ntries, nsent, nfn>>
       ELSE /\ ntries' = ntries - 1 /\ nsent' = nsent \cup {send_bootp}
            /\ \/ UNCHANGED <<npc, nrc, nfn>>
               \/ /\ \E f \in Frames : receive_bootp(f)
                  /\ Go("check") /\ nrc' = 0
                  /\ \E file \in {"", "dir/", "boot"} :
                        nfn' = [nfn EXCEPT !.own = "leased", !.server = "bootserver", !.file = file]
    /\ UNCHANGED <<nargs, nover, nver, ninit, nfd, npkt, ncfgbuf, nfiles, ncfg, nentry, nmem, ninitrd, npong>>

\* dhcp() of the netload kind asks over IPv4 (but for "ipv6"), then over IPv6
\* (but for "dhcp").
DhcpResults(method) ==
    (IF method # "ipv6" THEN {[rc |-> r, ver |-> 4] : r \in {0, -3, -4}} ELSE {})
    \cup (IF method # "dhcp" THEN {[rc |-> r, ver |-> 6] : r \in {0, -1}} ELSE {[rc |-> -1, ver |-> 4]})

GetAddress ==
    /\ npc = "address"
    /\ Go("check")
    /\ IF ninit \in {"none", "manual"}
       THEN /\ nrc' = 0 /\ UNCHANGED nver
            /\ nfn' = [nfn EXCEPT !.own = IF @ = "" THEN "autoconf" ELSE @]
       ELSE \E r \in DhcpResults(ninit) :
              /\ nrc' = r.rc /\ nver' = r.ver
              /\ IF r.rc = 0
                 THEN \E file \in {"", "dir/", "boot"}, cfg \in {"", "option"} :
                        nfn' = [nfn EXCEPT !.own = "leased", !.server = "bootserver", !.file = file, !.cfg = cfg]
                 ELSE UNCHANGED nfn
    /\ UNCHANGED <<nargs, nover, ninit, nfd, npkt, ncfgbuf, nfiles, ncfg, nentry, nmem, ninitrd, nsent, ntries, npong>>

\* Addresses given as arguments have precedence.
Override(arg, got) == IF arg # "" THEN arg ELSE got

\* Errors close the socket.  IPv4 arguments do not count if only DHCPv6 answered.
CheckAddress ==
    /\ npc = "check"
    /\ IF nrc < 0
       THEN Out(IF nrc = -1 THEN -101 ELSE -107) /\ nfd' = FALSE /\ UNCHANGED nfn
       ELSE /\ Go("load")
            /\ nfn' = [nfn EXCEPT !.own = Override(IF Args.ver = nver THEN Args.ci ELSE "", @),
                                  !.server = Override(IF Args.ver = nver THEN Args.si ELSE "", @),
                                  !.file = IF Args.file # "" THEN Args.file ELSE @]
            /\ UNCHANGED <<nrc, npkt, nfd>>
    /\ UNCHANGED <<nargs, nover, nver, ninit, ncfgbuf, nfiles, ncfg, nentry, nmem, ninitrd, nsent, ntries, npong>>

IsDir(file) == file \in {"", "dir/"}

\* A file of n bytes at base.
tftp_load(base, n, what) == [i \in 0..Room - 1 |-> IF i \in base..base + n - 1 THEN what ELSE nmem[i]]

\* The codes tftp() fails with, and what netload makes of them.
TftpFailures == {-1, -3, -12, -41}
tftp_get_error_info(rc) ==
    CASE rc \in -2..-1   -> rc - 102
      [] rc \in -7..-3   -> rc - 105
      [] rc \in -9..-8   -> rc - 108
      [] rc \in -15..-10 -> -105
      [] rc \in -42..-40 -> rc - 73
      [] OTHER           -> rc

LoadFile ==
    /\ npc = "load"
    /\ \E n \in {tftp_get_error_info(e) : e \in TftpFailures} \cup (IF IsDir(nfn.file) \/ nfn.cfg # "" THEN {0} ELSE 1..Room) :
         /\ n < 0 => ~(IsDir(nfn.file) \/ nfn.cfg # "")
         /\ nrc' = n
         /\ nmem' = IF n > 0 THEN tftp_load(0, n, "kernel") ELSE nmem
         /\ Go(IF n <= 0 /\ Args.file = "" /\ IsDir(nfn.file) THEN "pxelinux" ELSE "done")
    /\ UNCHANGED <<nargs, nover, nver, ninit, nfn, nfd, npkt, ncfgbuf, nfiles, ncfg, nentry, ninitrd, nsent, ntries, npong>>

\* net_pxelinux_load: the configuration.  An entry has what its lines say, and
\* what the stack held where they say nothing.
ReadConfig ==
    /\ npc = "pxelinux"
    /\ \/ Go("done") /\ nrc' = -1 /\ UNCHANGED <<ncfgbuf, nentry>>     \* no memory
       \/ pxelinux_load_parse_cfg = <<>> /\ Go("done") /\ nrc' = -1 /\ UNCHANGED <<ncfgbuf, nentry>>
       \/ /\ pxelinux_load_parse_cfg # <<>>
          /\ LET p == pxelinux_parse_cfg(ncfg) IN
             \E i \in {"", Junk}, a \in {"", Junk} :
               nentry' = [p.entries[p.def] EXCEPT !.initrd = IF @ = Junk THEN i ELSE @,
                                                  !.append = IF @ = Junk THEN a ELSE @]
          /\ ncfgbuf' = TRUE /\ Go("kernel") /\ UNCHANGED nrc
    /\ UNCHANGED <<nargs, nover, nver, ninit, nfn, nfd, npkt, nfiles, ncfg, nmem, ninitrd, nsent, ntries, npong>>

OutFree(rc) == Go("done") /\ nrc' = rc /\ ncfgbuf' = FALSE

LoadKernel ==
    /\ npc = "kernel"
    /\ nfn' = [nfn EXCEPT !.file = nentry.kernel]
    /\ \/ (\E e \in TftpFailures : OutFree(tftp_get_error_info(e))) /\ UNCHANGED nmem
       \/ \E n \in 1..Room :
            /\ nmem' = tftp_load(0, n, "kernel")
            /\ IF nentry.initrd = "" THEN OutFree(n)
               ELSE IF n = Room THEN OutFree(-1)       \* no space for the initrd
               ELSE Go("initrd") /\ nrc' = n /\ UNCHANGED ncfgbuf
    /\ UNCHANGED <<nargs, nover, nver, ninit, nfd, npkt, nfiles, ncfg, nentry, ninitrd, nsent, ntries, npong>>

EndOfRoom(base, left) == base + left

\* The initrd is loaded behind the kernel and moved to the end of the memory.
LoadInitrd ==
    /\ npc = "initrd"
    /\ nfn' = [nfn EXCEPT !.file = nentry.initrd]
    /\ \/ (\E e \in TftpFailures : OutFree(tftp_get_error_info(e))) /\ UNCHANGED <<nmem, ninitrd>>
       \/ \E n \in 0..Room - nrc :
            LET end == EndOfRoom(nrc, Room - nrc)
            IN /\ nmem' = [i \in 0..Room - 1 |->
                             IF i \in end - n..end - 1 THEN "initrd" ELSE tftp_load(nrc, n, "initrd")[i]]
               /\ ninitrd' = <<end - n, end>>
               /\ OutFree(nrc)
    /\ UNCHANGED <<nargs, nover, nver, ninit, nfd, npkt, nfiles, ncfg, nentry, nsent, ntries, npong>>

\* The end: give the lease back, close, and encode the response.
Finish ==
    /\ npc = "done"
    /\ Out(nrc)
    /\ nfd' = FALSE
    /\ nsent' = nsent \cup (IF ninit = "dhcp" THEN {[type |-> "release", to |-> nfn.own]} ELSE {})
                      \cup (IF nrc >= 0 /\ ninit \notin {"none", "manual"} THEN {[type |-> "encoded", to |-> ninit]} ELSE {})
    /\ UNCHANGED <<nargs, nover, nver, ninit, nfn, ncfgbuf, nfiles, ncfg, nentry, nmem, ninitrd, ntries, npong>>

-----------------------------------------------------------------------------
(* ping.                                                                   *)

PingArgs(args) == args # <<>> /\ strtoip(args[1])

ping ==
    /\ npc = "start"
    /\ \/ (nargs = <<>> \/ nover \/ ~PingArgs(nargs)) /\ npc' = "pinged" /\ nrc' = -1 /\ UNCHANGED <<nfd, nfn>>
       \/ /\ nargs # <<>> /\ ~nover /\ PingArgs(nargs)
          /\ \/ npc' = "pinged" /\ nrc' \in {-100, -101} /\ UNCHANGED <<nfd, nfn>>
             \/ npc' = "ping" /\ nfd' = TRUE /\ nrc' = -1
                /\ nfn' = [nfn EXCEPT !.own = IF Len(nargs) > 1 THEN nargs[2] ELSE "leased", !.server = nargs[1]]
             \/ Len(nargs) = 1 /\ npc' = "pinged" /\ nrc' = -1 /\ UNCHANGED <<nfd, nfn>>   \* DHCP fails
    /\ UNCHANGED <<nargs, nover, nver, ninit, npkt, ncfgbuf, nfiles, ncfg, nentry, nmem, ninitrd, nsent, ntries, npong>>

\* The host answers, while ping waits.
Pong ==
    /\ npc = "ping" /\ ~npong
    /\ npong' = TRUE
    /\ UNCHANGED <<npc, nargs, nover, nver, ninit, nfn, nfd, npkt, ncfgbuf, nrc, nfiles, ncfg, nentry, nmem, ninitrd, nsent, ntries>>

\* The answer or the timeout ends the wait.
PingEnds ==
    /\ npc = "ping"
    /\ npc' = "pinged" /\ nfd' = FALSE
    /\ nrc' = IF npong THEN 0 ELSE -1
    /\ UNCHANGED <<nargs, nover, nver, ninit, nfn, npkt, ncfgbuf, nfiles, ncfg, nentry, nmem, ninitrd, nsent, ntries, npong>>

Next == \/ Open \/ ReadArgs \/ bootp \/ GetAddress \/ CheckAddress \/ LoadFile
        \/ ReadConfig \/ LoadKernel \/ LoadInitrd \/ Finish
        \/ ping \/ Pong \/ PingEnds

-----------------------------------------------------------------------------

\* When netload or ping returns, the socket is closed and the buffers are freed,
\* whichever way it went; only an argument string that is too long leaves the
\* socket open (netload, net_pxelinux_load, ping).
AllReturned ==
    npc \in {"out", "pinged"} => (nfd => nrc = -7) /\ ~npkt /\ ~ncfgbuf

\* A kernel and its initrd that were loaded are both whole: the kernel where it
\* was loaded, the initrd in the range told to the client program
\* (net_pxelinux_load).
LoadedWhole ==
    (npc = "out" /\ nrc > 0) =>
        /\ \A i \in 0..nrc - 1 : nmem[i] = "kernel"
        /\ \A i \in ninitrd[1]..ninitrd[2] - 1 : nmem[i] = "initrd"

\* A file is asked for from the server, and by the client address, that the
\* arguments name, whatever BOOTP or DHCP answered (netload).
ArgumentsRule ==
    npc \in {"load", "pxelinux", "kernel", "initrd", "done"} =>
        /\ Args.si # "" /\ Args.ver = nver => nfn.server = Args.si
        /\ Args.ci # "" /\ Args.ver = nver => nfn.own = Args.ci
        /\ nfn.server # ""

\* The reference: four numbers with dots in between.
FourOctets(text) == Len(text) = 7 /\ \A i \in 1..7 : IF i % 2 = 1 THEN text[i] \in 0..255 ELSE text[i] = Dot

\* A text that is an address is read as one, alone or with a mask; and what is
\* read as one has four numbers below 256 (strtoip_netmask).
AddressesRead ==
    npc = "start" => \A t \in Texts :
        LET r == strtoip_netmask(t)
            octets == SelectSeq(t, LAMBDA x : x >= 0)
        IN /\ r.ok => Len(octets) >= 4 /\ r.ip = SubSeq(octets, 1, 4) /\ \A i \in 1..4 : r.ip[i] \in 0..255
           /\ FourOctets(t) \/ (Len(t) = 9 /\ FourOctets(SubSeq(t, 1, 7)) /\ t[8] = Backslash /\ t[9] \in 1..31) => r.ok

\* The reference for a configuration file: the lines of the block of a label.
LabelsOf(lines) == SelectSeq(lines, LAMBDA l : l.cmd = "label")
Block(lines, label) ==
    LET at == CHOOSE i \in DOMAIN lines : lines[i] = [cmd |-> "label", arg |-> label]
        ends == {j \in DOMAIN lines : j > at /\ lines[j].cmd = "label"} \cup {Len(lines) + 1}
    IN SubSeq(lines, at + 1, (CHOOSE j \in ends : \A k \in ends : j <= k) - 1)

\* The entry booted is the one the configuration's DEFAULT line names, if that
\* stands before the labels and the table has room, else the first; and its
\* kernel is the one of its block (pxelinux_parse_cfg, net_pxelinux_load).
EntryRight ==
    npc = "kernel" =>
        LET labels == LabelsOf(ncfg)
            block == Block(ncfg, nentry.label)
            kernels == SelectSeq(block, LAMBDA l : l.cmd = "kernel")
            named == ncfg[1].cmd = "default" /\ \E i \in DOMAIN labels : labels[i].arg = ncfg[1].arg
        IN Len(labels) < MaxEntries =>
             /\ nentry.label = IF named THEN ncfg[1].arg ELSE labels[1].arg
             /\ kernels # <<>> => nentry.kernel = Last(kernels).arg
=============================================================================
