----------------------------- MODULE LuksUnlock -----------------------------
(***************************************************************************)
(* run_qemu of xfce-linux/src/luks-unlock.py: find the passphrase prompt   *)
(* of a booting guest, type the passphrase, and tell how the boot went.    *)
(* The guest goes its way between any two looks at it.  LuksModes puts     *)
(* this mode beside the others.                                            *)
(***************************************************************************)
EXTENDS QemuScreen

CONSTANTS MaxPolls \* looks within one deadline

ASSUME MaxPollsAssumption == MaxPolls \in Nat

\* Mutant of STABLE_POLLS: one look that shows the same will do.
ONE_POLL == 1

STABLE_POLLS == 2
GNOME_STABLE_POLLS == 1

VARIABLES
    pc,          \* "serial", "dump", "send", "postserial", "postdump", "done";
                 \* LuksModes has more
    polls,       \* looks taken since the deadline was set
    hadContent, stableCount, prevHash,
    result,      \* of the last look at the serial log
    passHash, screenChanged, gnomeStable,
    exit,        \* exit status, -1 while it runs
    sentAt,      \* the guest's phase when the passphrase was typed, or "never"
    typed,       \* the guest has got the whole passphrase at its prompt
    stale,       \* a look returned what was not on the screen
    still        \* looks in a row that found the firmware as it was before

\* The firmware stands still, or (libvirt) was seen to turn dark again.
StoodStill == 2

locals  == <<hadContent, stableCount, prevHash, result, passHash,
             screenChanged, gnomeStable>>
looks   == <<stale, still>>
program == <<pc, polls, locals, exit, sentAt, looks>>
vars    == <<guestVars, snap, program, typed>>

LocalsInit ==
    /\ polls = 0
    /\ hadContent = FALSE /\ stableCount = 0 /\ prevHash = NoFrame
    /\ result = "none"
    /\ passHash = NoFrame /\ screenChanged = FALSE /\ gnomeStable = 0
    /\ exit = -1 /\ sentAt = "never" /\ typed = FALSE
    /\ stale = FALSE /\ still = 0

End(code) == pc' = "done" /\ exit' = code

\* Keeps the record of what the looks have shown.
Look(seen) ==
    /\ Screendump(seen)
    /\ stale' = (stale \/ seen \notin {screen, NoFrame})
    /\ still' = IF still = StoodStill THEN still
                ELSE IF guest = "firmware" /\ seen = screen /\ seen = prevHash THEN still + 1
                ELSE 0

-----------------------------------------------------------------------------
(* Until the passphrase is sent                                             *)

\* Mutant of Serial: the deadline is set anew for every look.
SerialAnew ==
    /\ pc = "serial"
    /\ polls' = 0
    /\ result' = CheckSerial
    /\ pc' = "dump"
    /\ UNCHANGED <<guestVars, snap, hadContent, stableCount, prevHash, passHash,
                   screenChanged, gnomeStable, exit, sentAt, typed, looks>>

Serial ==
    /\ pc = "serial" /\ polls < MaxPolls
    /\ polls' = polls + 1
    /\ result' = CheckSerial
    /\ pc' = "dump"
    /\ UNCHANGED <<guestVars, snap, hadContent, stableCount, prevHash, passHash,
                   screenChanged, gnomeStable, exit, sentAt, typed, looks>>

\* The deadline passes.
PromptTimeout ==
    /\ pc = "serial"
    /\ End(1)
    /\ UNCHANGED <<guestVars, snap, polls, locals, sentAt, typed, looks>>

\* The prompt was announced on the serial console: one screenshot, for people.
SerialPrompt ==
    /\ pc = "dump" /\ result = "plymouth"
    /\ \E seen \in Seen : Look(seen)
    /\ pc' = "send"
    /\ UNCHANGED <<guestVars, polls, locals, exit, sentAt, typed>>

\* Mutant of Compare: looks are counted, not equal looks.
CompareCountsLooks(seen) ==
    /\ hadContent' = (hadContent \/ Brightness(seen) > 0)
    /\ IF hadContent'
         THEN stableCount' = stableCount + 1 /\ prevHash' = seen
         ELSE UNCHANGED <<stableCount, prevHash>>
    /\ pc' = IF stableCount' >= STABLE_POLLS THEN "send" ELSE "serial"

\* Once the screen has shown anything: is it the same as before?
Compare(seen) ==
    /\ hadContent' = (hadContent \/ Brightness(seen) > 0)
    /\ IF hadContent'
         THEN /\ stableCount' = IF seen = prevHash THEN stableCount + 1 ELSE 0
              /\ prevHash' = seen
         ELSE UNCHANGED <<stableCount, prevHash>>
    /\ pc' = IF stableCount' >= STABLE_POLLS THEN "send" ELSE "serial"

Dump ==
    /\ pc = "dump" /\ result # "plymouth"
    /\ \E seen \in Seen :
         /\ Look(seen)
         /\ IF Brightness(seen) < 0
              THEN stableCount' = 0 /\ pc' = "serial" /\ UNCHANGED <<hadContent, prevHash>>
              ELSE Compare(seen)
    /\ UNCHANGED <<guestVars, polls, result, passHash, screenChanged,
                   gnomeStable, exit, sentAt, typed>>

\* qemu_send_passphrase: some keys may be lost, nobody looks at what socat says.
QemuTypes == typed' \in {FALSE, guest = "prompt"}

Send ==
    /\ pc = "send"
    /\ sentAt' = guest
    /\ QemuTypes
    /\ passHash' = prevHash
    /\ polls' = 0
    /\ pc' = "postserial"
    /\ UNCHANGED <<guestVars, snap, hadContent, stableCount, prevHash, result,
                   screenChanged, gnomeStable, exit, looks>>

-----------------------------------------------------------------------------
(* Afterwards                                                               *)

PostSerial ==
    /\ pc = "postserial" /\ polls < MaxPolls
    /\ polls' = polls + 1
    /\ result' = CheckSerial
    /\ IF result' = "emergency" THEN End(2) ELSE pc' = "postdump" /\ UNCHANGED exit
    /\ UNCHANGED <<guestVars, snap, hadContent, stableCount, prevHash, passHash,
                   screenChanged, gnomeStable, sentAt, typed, looks>>

BootTimeout ==
    /\ pc = "postserial"
    /\ End(2)
    /\ UNCHANGED <<guestVars, snap, polls, locals, sentAt, typed, looks>>

Confirmed == result \in {"gnome-initial-setup", "gdm"}
Settled == screenChanged' /\ gnomeStable' >= GNOME_STABLE_POLLS

\* Mutant of PostDump: any picture that stands still is a greeter.
PostDumpIgnoresBrightness ==
    /\ pc = "postdump"
    /\ \E seen \in Seen :
         /\ Look(seen)
         /\ screenChanged' = (screenChanged \/ seen # passHash)
         /\ gnomeStable' = IF seen = prevHash THEN 1 ELSE 0
         /\ prevHash' = seen
         /\ IF Confirmed \/ Settled
              THEN End(0)
              ELSE pc' = "postserial" /\ UNCHANGED exit
    /\ UNCHANGED <<guestVars, polls, hadContent, stableCount, result, passHash,
                   sentAt, typed>>

\* Success when the serial console says so; else when the picture has changed
\* since the prompt and then stands still, by its brightness.
PostDump ==
    /\ pc = "postdump"
    /\ \E seen \in Seen :
         /\ Look(seen)
         /\ screenChanged' = (screenChanged \/ seen # passHash)
         /\ gnomeStable' = IF seen = prevHash THEN 1 ELSE 0
         /\ prevHash' = seen
         /\ IF Confirmed THEN End(0)
            ELSE IF Settled
              THEN End(IF Brightness(seen) > 1 THEN 0 ELSE 2)
              ELSE pc' = "postserial" /\ UNCHANGED exit
    /\ UNCHANGED <<guestVars, polls, hadContent, stableCount, result, passHash,
                   sentAt, typed>>

\* socat does not answer within its timeout: an exception nobody catches.
SocatHangs ==
    /\ pc \in {"dump", "send", "postdump"}
    /\ End(1)
    /\ UNCHANGED <<guestVars, snap, polls, locals, sentAt, typed, looks>>

QemuMode ==
    \/ Serial \/ PromptTimeout \/ SerialPrompt \/ Dump \/ Send
    \/ PostSerial \/ BootTimeout \/ PostDump \/ SocatHangs

-----------------------------------------------------------------------------
(* What the code says of itself, and does not keep                          *)

\* Line 333: "Plymouth hash at time of passphrase send".
PassHashIsPrompt ==
    pc = "postserial" /\ sentAt = "prompt" => passHash[1] = "prompt"

\* Lines 382-383: "Use framebuffer brightness to distinguish GDM (~2.4) from
\* emergency shell (~1.0)", and line 22 of exit status 2: "boot resulted in
\* emergency shell".  Deadlines that pass are left aside.
VerdictIsEmergency == [][PostDump /\ exit' = 2 => guest = "emergency"]_vars

\* Line 93: "Return (brightness, md5_hash) for the screendump, or (-1, '') on
\* error".
DumpErrorReported == ~ stale
=============================================================================
