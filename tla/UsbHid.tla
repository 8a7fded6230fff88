------------------------------- MODULE UsbHid -------------------------------
(***************************************************************************)
(* The USB keyboard, lib/libusb/usb-hid.c with the tables of usb-key.c:    *)
(* boot reports become characters in a ring of bytes, from which the       *)
(* console reads.  A report lists the keys that are down, so a key that    *)
(* stays down must not type again.                                         *)
(*                                                                         *)
(* A few keys stand for the classes the code tells apart: a Latin letter,  *)
(* a key with a second character, one of the lock keys, and two of the     *)
(* keys that send an escape sequence.  kdue, kdown and kwrapped are        *)
(* history variables: the characters that were typed and not read, the     *)
(* keys of the last report, and whether the ring has overrun.              *)
(***************************************************************************)
EXTENDS Naturals, Sequences

CONSTANTS
    KeybufSize,     \* 256 in the code: the range of the byte indices
    Keys,           \* the keys pressed
    Modifiers       \* the sets of modifier keys held

ConstantsOK ==
    /\ KeybufSize \in Nat \ {0, 1}
    /\ Keys \subseteq {"a", "dash", "caps", "f5", "up"}
    /\ Modifiers \subseteq SUBSET {"shift", "ctrl", "altgr", "alt"}

VARIABLES
    kcaps,      \* the CAPS bit of set_leds
    klast,      \* key_last
    kbuf, kr, kw,   \* keybuf, r_ptr, w_ptr
    kdue, kdown, kwrapped

kvars == <<kcaps, klast, kbuf, kr, kw, kdue, kdown, kwrapped>>

Nothing == "nothing"                        \* an unused position of a report
Reports == [mod : Modifiers, keys : [1 .. 2 -> Keys \cup {Nothing}]]

Init ==
    /\ kcaps = FALSE
    /\ klast = <<Nothing, Nothing>>
    /\ kbuf = [i \in 0 .. (KeybufSize - 1) |-> Nothing] /\ kr = 0 /\ kw = 0
    /\ kdue = <<>> /\ kdown = {} /\ kwrapped = FALSE

-----------------------------------------------------------------------------

keycodes_std_US   == [a |-> "a",       dash |-> "-"]
keycodes_shift_US == [a |-> "A",       dash |-> "_"]
keycodes_ctrl     == [a |-> "^A",      dash |-> Nothing]
keycodes_alt_GR   == [a |-> Nothing,   dash |-> "\\"]

is_latin(k) == k = "a"

\* The character of a key, or none.  CAPS is a shift for Latin letters only,
\* and hides all modifiers for other keys.
get_char(caps, mod, k) ==
    LET c == IF (~caps /\ mod = {}) \/ (caps /\ ~is_latin(k)) THEN keycodes_std_US[k]
             ELSE IF "shift" \in mod \/ caps THEN keycodes_shift_US[k]
             ELSE IF "ctrl" \in mod THEN keycodes_ctrl[k]
             ELSE IF mod = {"altgr"} THEN keycodes_alt_GR[k]
             ELSE Nothing
    IN IF c = Nothing THEN <<>> ELSE <<c>>

\* What a key writes that was not down in the last report.
KeyWrites(caps, mod, k) ==
    CASE k = "caps" -> <<>>
      [] k = "f5"   -> <<"ESC", "[", "1", "5", "~">>
      [] k = "up"   -> <<"ESC", "[", "A">>
      [] OTHER      -> get_char(caps, mod, k)

\* The ring counts as full when the next index is the read index.  The sum is
\* an int: at the last index it is never equal to a read index of 0.
RingFull(w, r) == w + 1 = r

write_key(ring, c) ==
    IF RingFull(ring.w, kr) THEN ring
    ELSE [buf |-> [ring.buf EXCEPT ![ring.w] = c], w |-> (ring.w + 1) % KeybufSize]

CopyLast(report) == report.keys

\* The keys of a report in order, of which there are two: a lock key acts on the
\* keys after it, and those that were down in the last report do nothing.
Press(s, mod, k) ==
    IF k = Nothing \/ \E j \in 1 .. 2 : klast[j] = k THEN s
    ELSE IF k = "caps" THEN [s EXCEPT !.caps = ~@]
    ELSE [s EXCEPT !.out = @ \o KeyWrites(s.caps, mod, k)]

Pressed(report) ==
    Press(Press([caps |-> kcaps /\ "shift" \notin report.mod, out |-> <<>>],
                report.mod, report.keys[1]),
          report.mod, report.keys[2])

\* The ring after the first n characters.
Written(out) ==
    LET ring[n \in 0 .. Len(out)] ==
            IF n = 0 THEN [buf |-> kbuf, w |-> kw] ELSE write_key(ring[n - 1], out[n])
    IN ring

check_key_code(report) ==
    LET end == Pressed(report)
        ring == Written(end.out)[Len(end.out)]
    IN /\ kcaps' = end.caps
       /\ klast' = CopyLast(report)
       /\ kbuf' = ring.buf /\ kw' = ring.w

\* The reference: the keys that went down since the last report, each of which
\* types what it writes, as far as the ring has room.
Types(caps, mod, k) == IF k = Nothing \/ k \in kdown THEN <<>> ELSE KeyWrites(caps, mod, k)
Locks(k) == k = "caps" /\ k \notin kdown

Typed(report) ==
    LET caps == kcaps /\ "shift" \notin report.mod
        k1 == report.keys[1]
        k2 == report.keys[2]
    IN Types(caps, report.mod, k1) \o Types(IF Locks(k1) THEN ~caps ELSE caps, report.mod, k2)

RoomFor(chars) == SubSeq(chars, 1, IF Len(kdue) + Len(chars) < KeybufSize
                                   THEN Len(chars) ELSE KeybufSize - 1 - Len(kdue))

\* usb_poll_key: a report has arrived.  The ring overruns when the write index
\* wraps to a read index of 0; such a ring is not followed further (bound).
usb_poll_key(report) ==
    /\ ~kwrapped
    /\ check_key_code(report)
    /\ LET typed == Typed(report) IN
       /\ kwrapped' = (kwrapped \/ (kr = 0 /\ Len(kdue) + Len(typed) >= KeybufSize))
       /\ kdue' = kdue \o RoomFor(typed)
    /\ kdown' = {report.keys[i] : i \in 1 .. 2} \ {Nothing}
    /\ UNCHANGED kr

\* A keyboard is set up: its first report is read with a control request, which
\* may fail.
usb_hid_kbd_init(report) == usb_poll_key(report) \/ UNCHANGED kvars

read_key ==
    /\ kr # kw
    /\ kr' = (kr + 1) % KeybufSize
    /\ kdue' = IF kdue = <<>> THEN kdue ELSE Tail(kdue)
    /\ UNCHANGED <<kcaps, klast, kbuf, kw, kdown, kwrapped>>

usb_read_keyb == read_key

Next == (\E r \in Reports : usb_poll_key(r) \/ usb_hid_kbd_init(r)) \/ usb_read_keyb

-----------------------------------------------------------------------------

\* The unread bytes of the ring are the characters typed by keys that went
\* down, in order, those dropped for want of room excepted - until the ring has
\* once overrun with the read index at 0.
KeysFifo ==
    ~kwrapped =>
        /\ (kw - kr + KeybufSize) % KeybufSize = Len(kdue)
        /\ \A i \in DOMAIN kdue : kbuf[(kr + i - 1) % KeybufSize] = kdue[i]
=============================================================================
