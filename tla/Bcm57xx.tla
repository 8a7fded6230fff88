------------------------------ MODULE Bcm57xx ------------------------------
(***************************************************************************)
(* The driver of the Broadcom 57xx network controller of the JS2x boards,  *)
(* lib/libbcm/bcm57xx.c.  The controller works on three rings at its own   *)
(* pace: the producer ring gives it empty buffers, the return ring gives   *)
(* them back filled, the send ring holds packets to send.  The driver has  *)
(* far fewer buffers than ring entries and moves their descriptors along.  *)
(*                                                                         *)
(* The long initialisation sequence is cut where it can fail and where the *)
(* controller may start to work; the values of the many configuration      *)
(* registers are left out, and so is the heartbeat message to the          *)
(* management firmware, whose outcome is ignored.  An index that is equal  *)
(* to its partner means "nothing to do" to both sides.                     *)
(*                                                                         *)
(* bwire and btxq are history variables: the frames received and not yet   *)
(* returned, and the packets passed to bcm_xmit and not yet sent.          *)
(***************************************************************************)
EXTENDS Naturals, Sequences

CONSTANTS
    RXPROD_RING_SIZE, RXRET_RING_SIZE, TX_RING_SIZE,
    MAX_RX_BUF, MAX_TX_BUF,
    Frames,     \* [tag, len, bad] of the frames that may arrive
    Room,       \* the length of the buffer callers of bcm57xx_read pass
    Packets,    \* the packets callers of bcm57xx_write pass
    Boards,     \* [dev, phy, mii]: the controller, its PHY, whether the PHY answers
    None

\* The rings are larger than the buffers that travel through them.
ConstantsOK ==
    /\ RXPROD_RING_SIZE \in Nat /\ RXRET_RING_SIZE \in Nat /\ TX_RING_SIZE \in Nat
    /\ MAX_RX_BUF \in 1 .. (RXPROD_RING_SIZE - 1)
    /\ MAX_RX_BUF < RXRET_RING_SIZE
    /\ MAX_TX_BUF \in 1 .. (TX_RING_SIZE - 1)
    /\ None \notin Nat

VARIABLES
    bpc,     \* "closed", "open", "received", and the steps of bcm_init and bcm_term
    bhw,     \* the board, one of Boards
    bdev,    \* the controller's registers and indices
    brx,     \* receive side in memory: [prod, ret, buf]
    btx,     \* send side: [ring, buf, start, stop, avail]
             \* Data that has been consumed is left out: a buffer holds a frame until
             \* the driver, or the controller, is done with it, and so does an entry
             \* of the return ring.
    bwire, btxq

bvars == <<bpc, bhw, bdev, brx, btx, bwire, btxq>>

RxBufs == 0 .. (MAX_RX_BUF - 1)
TxBufs == 0 .. (MAX_TX_BUF - 1)

\* The 5703 and 5704 have a return ring of twice the size.
RetSize == IF bhw.dev = "5714" THEN RXRET_RING_SIZE ELSE 2 * RXRET_RING_SIZE

\* A controller after power on or core reset: nothing enabled, indices zero.
DeadDevice ==
    [master |-> FALSE, engines |-> FALSE, rings |-> FALSE,
     rxprod |-> 0, rxcons |-> 0, retprod |-> 0, retcons |-> 0, txprod |-> 0, txcons |-> 0]

NoRx == [prod |-> [i \in 0 .. (RXPROD_RING_SIZE - 1) |-> None],
         ret  |-> [i \in 0 .. (2 * RXRET_RING_SIZE - 1) |-> None],
         buf  |-> [b \in RxBufs |-> None]]

NoTx == [ring |-> [i \in 0 .. (TX_RING_SIZE - 1) |-> None], buf |-> [b \in TxBufs |-> None],
         start |-> 0, stop |-> 0, avail |-> 0]

Init ==
    /\ bpc = "closed"
    /\ bhw \in Boards
    /\ bdev = DeadDevice
    /\ brx = NoRx
    /\ btx = NoTx
    /\ bwire = <<>> /\ btxq = <<>>

-----------------------------------------------------------------------------

\* check_driver starts from clean static variables.
bcm57xx_open ==
    /\ bpc = "closed"
    /\ btx' = [btx EXCEPT !.start = 0, !.stop = 0, !.avail = 0]
    /\ bpc' = "lock"
    /\ UNCHANGED <<bhw, bdev, brx, bwire, btxq>>

\* The possible results of the bounded waits: TRUE is in time.  A lock that is
\* not won in time, a word not read in time.
bcm_nvram_lock == BOOLEAN
bcm_nvram_read == {won /\ done : won \in bcm_nvram_lock, done \in BOOLEAN}

\* The MAC address comes from the device tree, from the mailbox, or from two
\* words of NVRAM.
bcm_mac_init == {TRUE} \cup {low /\ high : low, high \in bcm_nvram_read}

\* A failing step makes bcm57xx_open free the driver structure and give up;
\* nothing that was already programmed into the controller is undone.
InitStep(at, results, then, dev) ==
    /\ bpc = at
    /\ \E ok \in results : bpc' = IF ok THEN then ELSE "closed"
    /\ bdev' = dev
    /\ UNCHANGED <<bhw, brx, btx, bwire, btxq>>

\* Steps 1 to 4: bus mastering on, win the NVRAM lock or give up.
InitLock == InitStep("lock", bcm_nvram_lock, "boot", [bdev EXCEPT !.master = TRUE])

\* Steps 5 to 16: the core clocks are reset, and with them all state of the
\* controller; then the boot code must answer.
InitBoot == InitStep("boot", BOOLEAN, "buffers", [DeadDevice EXCEPT !.master = TRUE])

\* Steps 17 to 38: DMA settings, pools and water marks; the buffer manager
\* must start.
InitBuffers == InitStep("buffers", BOOLEAN, "rings", bdev)

\* All buffers enter the first entries of the producer ring.  The producer
\* index stays 0: the controller gets the buffers only at the very end.
bcm_init_rxprod_ring ==
    [brx EXCEPT !.prod = [i \in DOMAIN brx.prod |-> IF i \in RxBufs THEN i ELSE None]]

bcm_init_rxret_ring(rx) == [rx EXCEPT !.ret = [i \in DOMAIN rx.ret |-> None]]

bcm_init_tx_ring ==
    [btx EXCEPT !.ring = [i \in DOMAIN btx.ring |-> IF i \in TxBufs THEN i ELSE None],
                !.stop = MAX_TX_BUF, !.avail = MAX_TX_BUF]

\* A variant that offers the buffers to the controller at once.
OfferEarly(dev) == [dev EXCEPT !.rxprod = MAX_RX_BUF]
RingRegisters(dev) == [dev EXCEPT !.rxprod = 0, !.retcons = 0, !.txprod = 0]

InitRings ==
    /\ bpc = "rings"
    /\ brx' = bcm_init_rxret_ring(bcm_init_rxprod_ring)
    /\ btx' = bcm_init_tx_ring
    /\ bdev' = [RingRegisters(bdev) EXCEPT !.rings = TRUE]
    /\ bpc' = "mac"
    /\ UNCHANGED <<bhw, bwire, btxq>>

\* Step 51.
InitMac == InitStep("mac", bcm_mac_init, "coalesce", bdev)

\* Steps 52 to 72: receive rules, and the coalescing engine must stop once.
InitCoalesce == InitStep("coalesce", BOOLEAN, "engines", bdev)

\* Steps 73 to 98: every functional block, DMA included, is switched on.
InitEngines ==
    /\ bpc = "engines"
    /\ bdev' = [bdev EXCEPT !.engines = TRUE]
    /\ bpc' = "phy"
    /\ UNCHANGED <<bhw, brx, btx, bwire, btxq>>

\* A read of a PHY register; one that fails leaves the variable it should set
\* alone.
bcm_mii_read16(value) == IF bhw.mii THEN {value} ELSE BOOLEAN

\* bcm_mii_phy_init ignores the result of the read and tests the variable,
\* which it never initialised.
bcm_mii_phy_init(link) == bcm_mii_read16(link)

bcm_tbi_phy_init(link) == {link}

IS_SERDES == bhw.dev \in {"5704S", "5703S"}

\* The possible answers to "is the link up?".
bcm_phy_init(link) ==
    CASE bhw.phy = "fiber" /\ IS_SERDES -> bcm_tbi_phy_init(link)
      [] bhw.phy = "unknown" -> {FALSE}
      [] OTHER -> bcm_mii_phy_init(link)

\* Steps 99 to 101: without a link the driver gives up; with it the buffers
\* are offered and the driver runs.
InitPhy ==
    /\ bpc = "phy"
    /\ \E link \in BOOLEAN : \E up \in bcm_phy_init(link) :
          IF up
          THEN /\ bdev' = [bdev EXCEPT !.rxprod = MAX_RX_BUF]
               /\ bpc' = "open"
          ELSE bpc' = "closed" /\ UNCHANGED bdev
    /\ UNCHANGED <<bhw, brx, btx, bwire, btxq>>

-----------------------------------------------------------------------------

\* bcm_receive up to the copy of the frame, if it is not discarded (a frame whose descriptor has no buffer address
\* stays where it is) ...
bcm_receive ==
    /\ bpc = "open"
    /\ LET bd == brx.ret[bdev.retcons]
           discard == bd.bad \/ bd.len > Room
       IN IF bdev.retprod = bdev.retcons \/ (~discard /\ bd.buf = None)
          THEN UNCHANGED bpc
          ELSE bpc' = "received"
    /\ UNCHANGED <<bhw, bdev, brx, btx, bwire, btxq>>

\* ... and from there: the descriptor goes back into the producer ring.
Replenish ==
    LET b == brx.ret[bdev.retcons].buf IN
    [brx EXCEPT !.prod[bdev.rxprod] = b,
                !.ret[bdev.retcons] = None,
                !.buf = [i \in DOMAIN @ |-> IF i = b THEN None ELSE @[i]]]

bcm_receive_done ==
    /\ bpc = "received"
    /\ brx' = Replenish
    /\ bdev' = [bdev EXCEPT !.rxprod = (@ + 1) % RXPROD_RING_SIZE,
                            !.retcons = (@ + 1) % RetSize]
    /\ bwire' = Tail(bwire)
    /\ bpc' = "open"
    /\ UNCHANGED <<bhw, btx, btxq>>

\* The descriptors the controller has consumed move to the end of the ring.
Consumed == (bdev.txcons + TX_RING_SIZE - btx.start) % TX_RING_SIZE
Reclaimed ==
    LET k(i) == (i + TX_RING_SIZE - btx.stop) % TX_RING_SIZE IN
    [btx EXCEPT
        !.ring = [i \in DOMAIN btx.ring |->
                    IF k(i) < Consumed THEN btx.ring[(btx.start + k(i)) % TX_RING_SIZE]
                                       ELSE btx.ring[i]],
        !.stop = (@ + Consumed) % TX_RING_SIZE,
        !.start = bdev.txcons,
        !.avail = @ + Consumed]

Full(tx) == tx.avail = 0

bcm_xmit(p) ==
    /\ bpc = "open"
    /\ LET tx == Reclaimed IN
       IF Full(tx)
       THEN btx' = tx /\ UNCHANGED <<bdev, btxq>>
       ELSE /\ btx' = IF tx.ring[bdev.txprod] = None THEN [tx EXCEPT !.avail = @ - 1]
                      ELSE [tx EXCEPT !.buf[tx.ring[bdev.txprod]] = p, !.avail = @ - 1]
            /\ bdev' = [bdev EXCEPT !.txprod = (@ + 1) % TX_RING_SIZE]
            /\ btxq' = Append(btxq, p)
    /\ UNCHANGED <<bpc, bhw, brx, bwire>>

-----------------------------------------------------------------------------

bcm57xx_close ==
    /\ bpc = "open"
    /\ bpc' = "term"
    /\ UNCHANGED <<bhw, bdev, brx, btx, bwire, btxq>>

\* bcm_term first disables the rings,
TermRings ==
    /\ bpc = "term"
    /\ bdev' = [bdev EXCEPT !.rings = FALSE]
    /\ bpc' = "stop"
    /\ UNCHANGED <<bhw, brx, btx, bwire, btxq>>

\* then stops every functional block, giving up on one that does not stop,
TermStop ==
    /\ bpc = "stop"
    /\ \E stuck \in BOOLEAN : bdev' = [bdev EXCEPT !.engines = stuck]
    /\ bpc' = "reset"
    /\ UNCHANGED <<bhw, brx, btx, bwire, btxq>>

\* then resets the core; when the boot code does not answer, the rest is
\* skipped,
bcm_reset ==
    /\ bpc = "reset"
    /\ bdev' = [DeadDevice EXCEPT !.master = TRUE]
    /\ bpc' \in {"closed", "off"}
    /\ bwire' = <<>> /\ btxq' = <<>>
    /\ UNCHANGED <<bhw, brx, btx>>

\* and restarts the firmware, arms Wake-on-LAN and ends bus mastering.
TermOff ==
    /\ bpc = "off"
    /\ bdev' = [bdev EXCEPT !.master = FALSE]
    /\ bpc' = "closed"
    /\ UNCHANGED <<bhw, brx, btx, bwire, btxq>>

-----------------------------------------------------------------------------

\* The controller (external).
CanReceive == bdev.master /\ bdev.engines /\ bdev.rings /\ bdev.rxcons # bdev.rxprod
CanSend    == bdev.master /\ bdev.engines /\ bdev.rings /\ bdev.txcons # bdev.txprod

DeviceReceives(f) ==
    /\ CanReceive
    /\ LET b == brx.prod[bdev.rxcons] IN
       brx' = [brx EXCEPT !.buf = IF b = None THEN @ ELSE [@ EXCEPT ![b] = f],
                          !.ret[bdev.retprod] = [buf |-> b, len |-> f.len, bad |-> f.bad]]
    /\ bdev' = [bdev EXCEPT !.rxcons = (@ + 1) % RXPROD_RING_SIZE,
                            !.retprod = (@ + 1) % RetSize]
    /\ bwire' = Append(bwire, f)
    /\ UNCHANGED <<bpc, bhw, btx, btxq>>

DeviceSends ==
    /\ CanSend
    /\ bdev' = [bdev EXCEPT !.txcons = (@ + 1) % TX_RING_SIZE]
    /\ btx' = [btx EXCEPT !.buf = [b \in DOMAIN @ |-> IF b = btx.ring[bdev.txcons] THEN None ELSE @[b]]]
    /\ btxq' = Tail(btxq)
    /\ UNCHANGED <<bpc, bhw, brx, bwire>>

Next ==
    \/ bcm57xx_open \/ InitLock \/ InitBoot \/ InitBuffers \/ InitRings \/ InitMac
    \/ InitCoalesce \/ InitEngines \/ InitPhy
    \/ bcm_receive \/ bcm_receive_done
    \/ \E p \in Packets : bcm_xmit(p)
    \/ bcm57xx_close \/ TermRings \/ TermStop \/ bcm_reset \/ TermOff
    \/ \E f \in Frames : DeviceReceives(f)
    \/ DeviceSends

-----------------------------------------------------------------------------

Slots(from, to, size) == [k \in 1 .. ((to + size - from) % size) |-> (from + k - 1) % size]

\* Every receive buffer is in exactly one place while the driver runs: offered
\* to the controller or waiting in the return ring.
RxConserved ==
    bpc \in {"open", "received"} =>
        LET offered == Slots(bdev.rxcons, bdev.rxprod, RXPROD_RING_SIZE)
            filled  == Slots(bdev.retcons, bdev.retprod, RetSize)
            held    == [k \in DOMAIN offered |-> brx.prod[offered[k]]]
                       \o [k \in DOMAIN filled |-> brx.ret[filled[k]].buf]
        IN /\ Len(held) = MAX_RX_BUF
           /\ {held[k] : k \in DOMAIN held} = RxBufs

\* The frames not yet returned, the one being copied included, wait in order
\* and unharmed.
RxIntact ==
    bpc \in {"open", "received"} =>
        LET filled == Slots(bdev.retcons, bdev.retprod, RetSize)
        IN /\ Len(filled) = Len(bwire)
           /\ \A k \in DOMAIN filled :
                 LET bd == brx.ret[filled[k]] IN bd.buf # None /\ brx.buf[bd.buf] = bwire[k]

\* The packets not yet sent are still what the callers wrote.
TxIntact ==
    bpc = "open" =>
        LET queued == Slots(bdev.txcons, bdev.txprod, TX_RING_SIZE) IN
        /\ Len(queued) = Len(btxq)
        /\ \A k \in DOMAIN queued :
              LET b == btx.ring[queued[k]] IN b # None /\ btx.buf[b] = btxq[k]

\* A controller nobody has open, after a close or after a failed open, neither
\* writes to memory nor reads from it.
QuietWhenClosed == bpc = "closed" => ~CanReceive /\ ~CanSend
=============================================================================
