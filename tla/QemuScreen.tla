----------------------------- MODULE QemuScreen -----------------------------
(***************************************************************************)
(* The virtual machine that xfce-linux/src/luks-unlock.py watches, and     *)
(* qemu_screendump, the way it looks at it.                                *)
(*                                                                         *)
(* External: the guest.  It shows one of a few frames of its phase and may *)
(* change between them at any time.  A frame stands for a screenshot file: *)
(* equal frames have equal MD5 sums.                                       *)
(***************************************************************************)
EXTENDS Integers

VARIABLES
    guest,   \* phase of the guest
    screen,  \* the frame it shows
    serial,  \* what its serial console has printed, if it has one
    console, \* whether it has one
    snap     \* the frame in the screenshot file, or NoFrame

guestVars == <<guest, screen, serial, console>>

Phase == {"firmware", "prompt", "accepted", "greeter", "emergency"}
Frame == Phase \X {0, 1}
NoFrame == <<"none", 0>>
OldFrame == <<"greeter", 2>>  \* of an earlier run
Partial == {"partial"} \X (0 .. 2)  \* a file half written, by its brightness

\* Average brightness: 0 is at most 0.5, 1 lies below 1.5, 2 is above 1.8; -1
\* stands for no picture.  (What lies between is 2 for run_wait_live and 1 for
\* run_qemu.)  The framebuffer is black at first and may be black while the
\* system boots; a greeter is colourful, and firmware (0.5-5 in the docstring)
\* or a prompt (0.5-2) may be bright too.  The boot splash (line 474) and the
\* emergency shell (line 383) are dark.
Brightness(f) ==
    CASE f = NoFrame -> -1
      [] f \in Partial -> f[2]
      [] f[1] = "greeter" \/ f \in {"firmware", "prompt"} \X {1} -> 2
      [] f[1] \in {"firmware", "accepted"} /\ f[2] = 0 -> 0
      [] OTHER -> 1

GuestTypeOK ==
    /\ guest \in Phase
    /\ screen \in Frame /\ screen[1] = guest
    /\ serial \subseteq {"plymouth", "gdm", "gnome-initial-setup", "emergency"}
    /\ console \in BOOLEAN
    /\ snap \in Frame \union {NoFrame, OldFrame}

GuestInit ==
    /\ guest = "firmware" /\ screen = <<"firmware", 0>>
    /\ serial = {} /\ console \in BOOLEAN
    /\ snap \in {NoFrame, OldFrame}  \* of an earlier run

Announce(marker) == serial' = IF console THEN serial \union {marker} ELSE serial

\* The guest goes from one phase to the next.
Enter(phase) ==
    /\ guest' = phase
    /\ \E n \in {0, 1} : screen' = <<phase, n>>
    /\ UNCHANGED <<console, snap>>

Animate ==
    /\ screen' = <<guest, 1 - screen[2]>>
    /\ UNCHANGED <<guest, serial, console, snap>>

PromptAppears == guest = "firmware" /\ Enter("prompt") /\ Announce("plymouth")

\* Before the prompt, at it (it times out), or after it.
GoesWrong ==
    /\ guest \in {"firmware", "prompt", "accepted"}
    /\ Enter("emergency") /\ Announce("emergency")

GreeterStarts ==
    /\ guest = "accepted" /\ Enter("greeter")
    /\ \E m \in {"gdm", "gnome-initial-setup"} : Announce(m)

\* qemu_check_serial: the first of these that was printed.
CheckSerial ==
    IF "emergency" \in serial THEN "emergency"
    ELSE IF "gnome-initial-setup" \in serial THEN "gnome-initial-setup"
    ELSE IF "gdm" \in serial THEN "gdm"
    ELSE IF "plymouth" \in serial THEN "plymouth"
    ELSE "none"

Seen == {screen, snap, NoFrame} \union Partial

\* qemu_screendump: what it returns, as a frame, is what the file holds after
\* the monitor was asked to write it.  Whether the monitor could be reached is
\* not looked at.  A file that is still being written is an error only while
\* it has no pixels.
Screendump(seen) ==
    \/ snap' = screen /\ seen \in {screen, NoFrame} \union Partial
    \/ snap' = snap /\ seen = snap
=============================================================================
