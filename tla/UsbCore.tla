------------------------------ MODULE UsbCore ------------------------------
(***************************************************************************)
(* The USB core, lib/libusb/usb-core.c with usb-hub.c and usb-slof.c: the  *)
(* scan of the ports, the set-up of the devices found, their addresses and *)
(* the pool of pipes that the three host controller drivers manage in the  *)
(* same way (a linked free list with a pointer to its last element).       *)
(*                                                                         *)
(* The scan is a depth-first walk: ustack holds, per hub being scanned,    *)
(* the port it is at.  A device may leave any request unanswered, and the  *)
(* host may miss the answer to one the device has carried out.             *)
(***************************************************************************)
EXTENDS Naturals, Sequences, FiniteSets

CONSTANTS
    RootPorts, HubPorts,   \* numbers of ports of the root hub and of a hub
    UDevs,                 \* structures of the device pool
    PoolSize,              \* pipes of a pool
    MaxPools,              \* bound: pools that can be allocated
    None

ConstantsOK ==
    /\ RootPorts \in Nat /\ HubPorts \in Nat /\ MaxPools \in Nat /\ PoolSize \in Nat \ {0}
    /\ IsFiniteSet(UDevs) /\ None \notin Nat \cup UDevs

VARIABLES
    uhcd,      \* the type of the host controller
    ustack,    \* hubs being scanned, innermost last: [hub, port]
    usetup,    \* the device being set up and the next request, or None
    udev,      \* what the core knows of each device
    ubus,      \* the address each device answers to (history)
    ulost,     \* whether an answer to SET_ADDRESS was missed (history)
    unextaddr, \* hcidev->nextaddr
    ufreelist, uend, ulink,   \* the free list: first, last, next of each pipe
    uowner,    \* the device a pipe serves, or None
    upools     \* pools allocated

uvars == <<uhcd, ustack, usetup, udev, ubus, ulost, unextaddr, ufreelist, uend, ulink, uowner, upools>>

Pipes == 1 .. (PoolSize * MaxPools)
Roles == {"control", "intr", "bulk_in", "bulk_out"}
Blank == [class |-> "unused", addr |-> 0, open |-> FALSE, pipe |-> [r \in Roles |-> None]]

Init ==
    /\ uhcd \in {"ohci", "ehci", "xhci"}
    /\ ustack = <<[hub |-> None, port |-> 0]>>
    /\ usetup = None
    /\ udev = [d \in UDevs |-> Blank]
    /\ ubus = [d \in UDevs |-> 0]
    /\ ulost = FALSE
    /\ unextaddr = 1
    /\ ufreelist = None /\ uend = None /\ ulink = [p \in Pipes |-> None]
    /\ uowner = [p \in Pipes |-> None]
    /\ upools = 0

-----------------------------------------------------------------------------
(* The pool of pipes, as a record that the operations below transform.     *)

Pool == [first |-> ufreelist, last |-> uend, link |-> ulink, owner |-> uowner, n |-> upools]
SetPool(q) ==
    /\ ufreelist' = q.first /\ uend' = q.last /\ ulink' = q.link
    /\ uowner' = q.owner /\ upools' = q.n

\* The new pipes are linked and appended to the list.
ohci_alloc_pipe_pool(q) ==
    LET a == q.n * PoolSize + 1
        z == a + PoolSize - 1
        l == [p \in Pipes |-> IF p \in a .. (z - 1) THEN p + 1 ELSE IF p = z THEN None ELSE q.link[p]]
    IN [q EXCEPT !.first = IF @ = None THEN a ELSE @,
                 !.link = IF q.first = None THEN l ELSE [l EXCEPT ![q.last] = a],
                 !.last = z, !.n = @ + 1]

EndAfterGet(q) == IF q.link[q.first] = None THEN None ELSE q.last

TakeFirst(q, d) ==
    [q EXCEPT !.first = q.link[q.first], !.last = EndAfterGet(q),
              !.link = [@ EXCEPT ![q.first] = None],
              !.owner = [@ EXCEPT ![q.first] = d]]

\* The pipe a request gets, or None when a new pool cannot be allocated.
usb_get_pipe(q, d) ==
    IF q.first # None THEN [pipe |-> q.first, pool |-> TakeFirst(q, d)]
    ELSE IF q.n = MaxPools THEN [pipe |-> None, pool |-> q]
    ELSE LET r == ohci_alloc_pipe_pool(q) IN [pipe |-> r.first, pool |-> TakeFirst(r, d)]

ohci_put_pipe(q, p) ==
    [q EXCEPT !.first = IF q.last = None THEN p ELSE @,
              !.link = IF q.last = None THEN [@ EXCEPT ![p] = None]
                                        ELSE [@ EXCEPT ![q.last] = p, ![p] = None],
              !.last = p,
              !.owner = [@ EXCEPT ![p] = None]]

\* Only a pipe that still has a device is returned.
usb_put_pipe(q, p) == IF p = None \/ q.owner[p] = None THEN q ELSE ohci_put_pipe(q, p)

-----------------------------------------------------------------------------
(* The scan.                                                               *)

Top == ustack[Len(ustack)]
Scanning == usetup = None /\ ustack # <<>>
Ports == IF Top.hub = None THEN RootPorts ELSE HubPorts
NextPort == [ustack EXCEPT ![Len(ustack)].port = @ + 1]

\* usb_devpool_get hands out a cleared structure; usb_setup_new_device starts
\* with its control pipe.
usb_devpool_get(d) == udev[d].class = "unused"

StartSetup(d) ==
    LET g == usb_get_pipe(Pool, d) IN
    /\ udev' = [udev EXCEPT ![d] = [Blank EXCEPT !.class = "new", !.pipe["control"] = g.pipe]]
    /\ SetPool(g.pool)
    /\ usetup' = [dev |-> d, step |-> "descr8"]
    /\ ustack' = NextPort
    /\ UNCHANGED <<uhcd, ubus, ulost, unextaddr>>

\* A port of the root hub, by host controller: OHCI and EHCI reset the port and
\* set the device up; XHCI also has to get a slot for it.
ohci_hub_check_ports(d) == uhcd = "ohci" /\ Top.hub = None /\ usb_devpool_get(d) /\ StartSetup(d)
ehci_hub_check_ports(d) == uhcd = "ehci" /\ Top.hub = None /\ usb_devpool_get(d) /\ StartSetup(d)
xhci_port_scan(d)       == uhcd = "xhci" /\ Top.hub = None /\ usb_devpool_get(d) /\ StartSetup(d)

\* A port of a hub: powered and reset.
hub_check_port(d) == Top.hub # None /\ usb_devpool_get(d) /\ StartSetup(d)

DeviceFound ==
    /\ Scanning /\ Top.port < Ports
    /\ \E d \in UDevs :
          \/ ohci_hub_check_ports(d) \/ ehci_hub_check_ports(d) \/ xhci_port_scan(d)
          \/ hub_check_port(d)

\* Nothing there, the port does not come out of reset, or XHCI grants no slot.
PortEmpty ==
    /\ Scanning /\ Top.port < Ports
    /\ ustack' = NextPort
    /\ UNCHANGED <<uhcd, usetup, udev, ubus, ulost, unextaddr, ufreelist, uend, ulink, uowner, upools>>

ScanDone ==
    /\ Scanning /\ Top.port >= Ports
    /\ ustack' = SubSeq(ustack, 1, Len(ustack) - 1)
    /\ UNCHANGED <<uhcd, usetup, udev, ubus, ulost, unextaddr, ufreelist, uend, ulink, uowner, upools>>

-----------------------------------------------------------------------------
(* The requests of usb_setup_new_device, in order.                         *)

At(step) == usetup # None /\ usetup.step = step
Dev == usetup.dev
Goto(step) == usetup' = [usetup EXCEPT !.step = step]
poolvars == <<ufreelist, uend, ulink, uowner, upools>>

\* A device without a control pipe answers nothing.
usb_send_ctrl(answer) == answer => udev[Dev].pipe["control"] # None

\* What is left behind when a request fails: the structure and its control pipe
\* stay allocated, and the device is not used.
SetupFails ==
    /\ usetup' = None
    /\ udev' = [udev EXCEPT ![Dev].class = "failed"]
    /\ UNCHANGED <<uhcd, ustack, unextaddr, poolvars>>

usb_get_device_descr(step, then) ==
    /\ At(step)
    /\ \/ usb_send_ctrl(TRUE) /\ Goto(then)
          /\ UNCHANGED <<uhcd, ustack, udev, unextaddr, poolvars>>
       \/ SetupFails
    /\ UNCHANGED <<ubus, ulost>>

\* A variant that takes the next address whether or not the device has it.
AddressKept(ok) == unextaddr
AddressAfter(ok) == IF ok THEN unextaddr + 1 ELSE unextaddr

\* XHCI has given the device its address with the slot.
usb_set_address ==
    /\ At("addr")
    /\ \/ usb_send_ctrl(TRUE)
          /\ udev' = [udev EXCEPT ![Dev].addr = unextaddr]
          /\ ubus' = [ubus EXCEPT ![Dev] = unextaddr]
          /\ unextaddr' = AddressAfter(TRUE)
          /\ Goto("descr")
          /\ UNCHANGED <<uhcd, ustack, ulost, poolvars>>
       \/ SetupFails /\ UNCHANGED <<ubus, ulost>>
       \/ /\ usb_send_ctrl(TRUE) /\ SetupFails
          /\ ubus' = [ubus EXCEPT ![Dev] = unextaddr]
          /\ ulost' = TRUE

\* The configuration: its header, all of it, and its activation.
usb_get_config_descr(step, then) == usb_get_device_descr(step, then)
usb_set_config == usb_get_device_descr("setcfg", "handle")

\* usb_handle_device reads the class from the descriptors.
usb_handle_device ==
    /\ At("handle")
    /\ \E c \in {"keyboard", "mouse", "disk", "hub", "other"} :
          /\ udev' = [udev EXCEPT ![Dev].class = c]
          /\ Goto("populate")
    /\ UNCHANGED <<uhcd, ustack, ubus, ulost, unextaddr, poolvars>>

\* usb_slof_populate_new_device: a node for the classes SLOF has a driver for.
\* A disk must accept a reset first; a hub is scanned at once, if it tells its
\* number of ports.
usb_slof_populate_new_device ==
    /\ At("populate")
    /\ usetup' = None
    /\ \/ udev[Dev].class \in {"keyboard", "mouse", "disk"} /\ UNCHANGED <<ustack, udev>>
       \/ udev[Dev].class \in {"disk", "other"}
          /\ udev' = [udev EXCEPT ![Dev].class = "failed"] /\ UNCHANGED ustack
       \/ udev[Dev].class = "hub"
          /\ ustack' \in {ustack, Append(ustack, [hub |-> Dev, port |-> 0])} /\ UNCHANGED udev
    /\ UNCHANGED <<uhcd, ubus, ulost, unextaddr, poolvars>>

usb_setup_new_device ==
    \/ usb_get_device_descr("descr8", IF uhcd = "xhci" THEN "slot" ELSE "addr")
    \/ usb_set_address
    \/ usb_get_device_descr("descr", "cfg")
    \/ usb_get_config_descr("cfg", "fullcfg")
    \/ usb_get_config_descr("fullcfg", "setcfg")
    \/ usb_set_config
    \/ usb_handle_device
    \/ usb_slof_populate_new_device

\* The controller chooses a free address with the slot (external).
XhciAddress ==
    /\ At("slot")
    /\ udev' = [udev EXCEPT ![Dev].addr = unextaddr]
    /\ ubus' = [ubus EXCEPT ![Dev] = unextaddr]
    /\ unextaddr' = unextaddr + 1
    /\ Goto("descr")
    /\ UNCHANGED <<uhcd, ustack, ulost, poolvars>>

-----------------------------------------------------------------------------
(* Opening and closing the devices found.                                  *)

Idle == usetup = None

\* The keyboard's interrupt pipe; the open succeeds without one, too.
usb_hid_init(d) ==
    LET g == usb_get_pipe(Pool, d) IN
    /\ Idle /\ udev[d].class = "keyboard" /\ ~udev[d].open
    /\ udev' = [udev EXCEPT ![d].open = TRUE, ![d].pipe["intr"] = g.pipe]
    /\ SetPool(g.pool)
    /\ UNCHANGED <<uhcd, ustack, usetup, ubus, ulost, unextaddr>>

usb_hid_exit(d) ==
    /\ Idle /\ udev[d].class = "keyboard" /\ udev[d].open
    /\ udev' = [udev EXCEPT ![d].open = FALSE, ![d].pipe["intr"] = None]
    /\ SetPool(usb_put_pipe(Pool, udev[d].pipe["intr"]))
    /\ UNCHANGED <<uhcd, ustack, usetup, ubus, ulost, unextaddr>>

\* The two bulk pipes of a disk.
usb_msc_init(d) ==
    LET i == usb_get_pipe(Pool, d)
        o == usb_get_pipe(i.pool, d)
    IN /\ Idle /\ udev[d].class = "disk" /\ ~udev[d].open
       /\ udev' = [udev EXCEPT ![d].open = TRUE, ![d].pipe["bulk_in"] = i.pipe,
                               ![d].pipe["bulk_out"] = o.pipe]
       /\ SetPool(o.pool)
       /\ UNCHANGED <<uhcd, ustack, usetup, ubus, ulost, unextaddr>>

\* The pointers to the pipes are not cleared.
usb_msc_exit(d) ==
    /\ Idle /\ udev[d].class = "disk" /\ udev[d].open
    /\ udev' = [udev EXCEPT ![d].open = FALSE]
    /\ SetPool(usb_put_pipe(usb_put_pipe(Pool, udev[d].pipe["bulk_in"]), udev[d].pipe["bulk_out"]))
    /\ UNCHANGED <<uhcd, ustack, usetup, ubus, ulost, unextaddr>>

Next ==
    \/ DeviceFound \/ PortEmpty \/ ScanDone
    \/ usb_setup_new_device \/ XhciAddress
    \/ \E d \in UDevs : usb_hid_init(d) \/ usb_hid_exit(d) \/ usb_msc_init(d) \/ usb_msc_exit(d)

-----------------------------------------------------------------------------

\* Two devices on the bus answer to the same address only after the host has
\* missed the answer of one to SET_ADDRESS (usb_set_address).
AddressesDistinct ==
    \A c, d \in UDevs : c # d /\ ubus[c] # 0 /\ ubus[c] = ubus[d] => ulost

\* The free pipes, as the list links them; at most the number of pipes.
Walk[n \in Nat] == IF n = 0 \/ ufreelist = None THEN <<>>
                   ELSE IF n = 1 THEN <<ufreelist>>
                   ELSE LET w == Walk[n - 1] IN
                        IF ulink[w[Len(w)]] = None THEN w ELSE Append(w, ulink[w[Len(w)]])

\* The pipes of w are those nobody uses, each once, and end at the end pointer;
\* what an open device holds is its own.
FreeAre(w) ==
    /\ {w[i] : i \in DOMAIN w} = {p \in 1 .. (upools * PoolSize) : uowner[p] = None}
    /\ Len(w) = Cardinality({w[i] : i \in DOMAIN w})
    /\ uend = (IF w = <<>> THEN None ELSE w[Len(w)])
    /\ \A d \in UDevs, r \in Roles :
          (udev[d].open \/ r = "control") /\ udev[d].pipe[r] # None => uowner[udev[d].pipe[r]] = d

\* The free list holds each pipe nobody uses once and ends at its end pointer,
\* and what an open device holds is its own (get_pipe, put_pipe).
PipesSound == FreeAre(Walk[Cardinality(Pipes) + 1])
=============================================================================
