------------------------------ MODULE LuksModes ------------------------------
(***************************************************************************)
(* main of xfce-linux/src/luks-unlock.py with its three modes: qemu        *)
(* (LuksUnlock), libvirt, which goes by the size of screenshots and by     *)
(* DHCP leases, and wait-live, which types nothing and waits for a live    *)
(* desktop to show.  The modes have the names of their local variables in  *)
(* common: hadContent is also run_libvirt's seen_content.                  *)
(***************************************************************************)
EXTENDS LuksUnlock

VARIABLES
    mode,   \* "libvirt", "qemu", "wait-live"
    lease,  \* of the guest's MAC address: "none", "old" (of an earlier boot), "new"
    shot,   \* wait-live: the frame in the file at screenshot_path
    copied  \* every copy of a bright frame has worked

modeVars == <<mode, lease, shot, copied>>
allVars  == <<vars, modeVars>>

AnyFrame == Frame \union {NoFrame, OldFrame} \union Partial

TypeOK ==
    /\ GuestTypeOK
    /\ mode \in {"libvirt", "qemu", "wait-live"}
    /\ pc \in {"serial", "dump", "send", "postserial", "postdump",  \* qemu
               "shot", "keys", "lease", "live", "done"}
    /\ polls \in 0 .. MaxPolls
    /\ hadContent \in BOOLEAN /\ stableCount \in 0 .. STABLE_POLLS
    /\ prevHash \in AnyFrame /\ passHash \in AnyFrame /\ shot \in AnyFrame
    /\ result \in {"none", "plymouth", "gdm", "gnome-initial-setup", "emergency"}
    /\ screenChanged \in BOOLEAN /\ gnomeStable \in 0 .. GNOME_STABLE_POLLS
    /\ exit \in -1 .. 2
    /\ sentAt \in Phase \union {"never"}
    /\ typed \in BOOLEAN /\ stale \in BOOLEAN /\ still \in 0 .. StoodStill
    /\ lease \in {"none", "old", "new"} /\ copied \in BOOLEAN

\* main: the mode is an argument.
Init ==
    /\ GuestInit
    /\ LocalsInit
    /\ \/ mode = "libvirt" /\ pc = "shot"
       \/ mode = "qemu" /\ pc = "serial"
       \/ mode = "wait-live" /\ pc = "live"
    /\ lease \in {"none", "old"}
    /\ shot = NoFrame /\ copied = TRUE

-----------------------------------------------------------------------------
(* run_libvirt                                                              *)

\* A PNG of at most 4096 bytes: little or nothing on the screen.
Small(f) == f[1] = "prompt" \/ (f[1] # "greeter" /\ f[2] = 0)

\* virsh_screenshot_size: a screenshot that cannot be had has size 0.
SizeIsSmall(failed) == failed \/ Small(screen)

\* virsh_send_passphrase: keys that fail or have no mapping are left out, and
\* "_" is typed as "-".  The guest may get another passphrase.
VirshTypes == typed' \in {FALSE, guest = "prompt"}

\* virsh_dhcp_ip: any lease of the address will do.
HasIp == lease # "none"

\* Mutant of VirshLook: a small screenshot is enough, also before any content.
VirshLookAtOnce ==
    /\ pc = "shot" /\ polls < MaxPolls
    /\ polls' = polls + 1
    /\ pc' = IF Small(screen) THEN "keys" ELSE "shot"
    /\ UNCHANGED <<guestVars, snap, locals, exit, sentAt, typed, looks, modeVars>>

VirshLook ==
    /\ pc = "shot" /\ polls < MaxPolls
    /\ polls' = polls + 1
    /\ \E failed \in BOOLEAN :
         /\ hadContent' = (hadContent \/ ~ SizeIsSmall(failed))
         /\ pc' = IF hadContent' /\ SizeIsSmall(failed) THEN "keys" ELSE "shot"
         /\ stale' = (stale \/ failed)
    /\ still' = IF guest = "firmware" /\ hadContent /\ Small(screen)
                  THEN StoodStill ELSE still
    /\ UNCHANGED <<guestVars, snap, stableCount, prevHash, result, passHash,
                   screenChanged, gnomeStable, exit, sentAt, typed, modeVars>>

ShotTimeout ==
    /\ pc = "shot"
    /\ End(1)
    /\ UNCHANGED <<guestVars, snap, polls, locals, sentAt, typed, looks, modeVars>>

\* After PLYMOUTH_WAIT.
VirshSend ==
    /\ pc = "keys"
    /\ sentAt' = guest
    /\ VirshTypes
    /\ polls' = 0
    /\ pc' = "lease"
    /\ UNCHANGED <<guestVars, snap, locals, exit, looks, modeVars>>

DhcpLook ==
    /\ pc = "lease" /\ polls < MaxPolls
    /\ polls' = polls + 1
    /\ IF HasIp THEN End(0) ELSE UNCHANGED <<pc, exit>>
    /\ UNCHANGED <<guestVars, snap, locals, sentAt, typed, looks, modeVars>>

LeaseTimeout ==
    /\ pc = "lease"
    /\ End(2)
    /\ UNCHANGED <<guestVars, snap, polls, locals, sentAt, typed, looks, modeVars>>

LibvirtMode ==
    VirshLook \/ ShotTimeout \/ VirshSend \/ DhcpLook \/ LeaseTimeout

-----------------------------------------------------------------------------
(* run_wait_live                                                            *)

\* Mutant of BrightEnough: the threshold of run_qemu.
BrightEnoughContent(seen) == Brightness(seen) > 0

BrightEnough(seen) == Brightness(seen) > 1

\* Mutant of Bright: the copy is made only of a frame seen twice.
BrightCopiesLate(seen) ==
    /\ stableCount' = IF seen = prevHash THEN stableCount + 1 ELSE 0
    /\ prevHash' = seen
    /\ shot' = IF seen = prevHash THEN seen ELSE shot
    /\ UNCHANGED copied

\* A copy is kept of every bright frame, if that works: of the file as it is
\* by then.
Bright(seen) ==
    /\ stableCount' = IF seen = prevHash THEN stableCount + 1 ELSE 0
    /\ prevHash' = seen
    /\ \/ shot' \in {seen, snap'} /\ UNCHANGED copied
       \/ copied' = FALSE /\ UNCHANGED shot

Dark == stableCount' = 0 /\ prevHash' = NoFrame

\* A look that fails resets the count, not the frame.
LiveLook ==
    /\ pc = "live" /\ polls < MaxPolls
    /\ polls' = polls + 1
    /\ \E seen \in Seen :
         /\ Look(seen)
         /\ CASE Brightness(seen) < 0 ->
                   stableCount' = 0 /\ UNCHANGED <<prevHash, shot, copied>>
              [] BrightEnough(seen) -> Bright(seen)
              [] OTHER -> Dark /\ UNCHANGED <<shot, copied>>
    /\ IF stableCount' >= STABLE_POLLS THEN End(0) ELSE UNCHANGED <<pc, exit>>
    /\ UNCHANGED <<guestVars, hadContent, result, passHash, screenChanged,
                   gnomeStable, sentAt, typed, mode, lease>>

\* The deadline passes: a warning, and success.
LiveTimeout ==
    /\ pc = "live"
    /\ End(0)
    /\ UNCHANGED <<guestVars, snap, polls, locals, sentAt, typed, looks, modeVars>>

LiveHangs ==
    /\ pc = "live"
    /\ End(1)
    /\ UNCHANGED <<guestVars, snap, polls, locals, sentAt, typed, looks, modeVars>>

WaitLiveMode == LiveLook \/ LiveTimeout \/ LiveHangs

-----------------------------------------------------------------------------
(* The guest: a live system asks for no passphrase, and one that has        *)
(* unlocked its disk asks for an address some time later.                   *)

Accepts == guest = "prompt" /\ typed /\ Enter("accepted") /\ UNCHANGED serial

LiveBoots ==
    /\ mode = "wait-live" /\ guest = "firmware"
    /\ Enter("accepted") /\ UNCHANGED serial

Guest ==
    /\ \/ Animate \/ (mode # "wait-live" /\ PromptAppears) \/ LiveBoots
       \/ GoesWrong \/ Accepts \/ GreeterStarts
    /\ UNCHANGED <<program, typed, modeVars>>

Leased ==
    /\ guest \in {"accepted", "greeter"}
    /\ lease' = "new"
    /\ UNCHANGED <<vars, mode, shot, copied>>

Program == (QemuMode /\ UNCHANGED modeVars) \/ LibvirtMode \/ WaitLiveMode

Next == Program \/ Guest \/ Leased

\* The script has deadlines for everything it waits for, and its commands are
\* taken to return (virsh is called without a timeout).
Spec == Init /\ [][Next]_allVars /\ WF_allVars(Program)

-----------------------------------------------------------------------------
(* Properties                                                               *)

\* The passphrase is not typed at the firmware or the boot loader, as long as
\* looks show the screen and the firmware does not stand still for STABLE_POLLS
\* looks (lines 238-251) nor, for libvirt, turn dark again: one look that finds
\* it unchanged is not enough, whatever else the looks show and miss.
NotSentAtFirmware == ~ stale /\ still < StoodStill => sentAt # "firmware"

\* Lines 20-22 and 382-383: the qemu mode does not call a guest booted that is
\* in its emergency shell or still on its way, if looks show the screen: the
\* serial console has named the greeter, or the picture is too bright.
DarkIsNotSuccess ==
    [][exit # 0 /\ exit' = 0 /\ mode = "qemu" /\ ~ stale'
        => guest \notin {"accepted", "emergency"}]_allVars

\* Lines 424-431: the screenshot is kept once "a fully rendered desktop is
\* actually loaded and visible, rather than just a black screen or a
\* transitional boot logo", if looks show the screen and a bright firmware logo
\* does not stand still for as long as a desktop has to.
ShotShowsDesktop ==
    stableCount = STABLE_POLLS /\ mode = "wait-live" /\ copied
        /\ ~ stale /\ still < StoodStill => shot[1] = "greeter"

\* Line 480: "Using last captured bright frame": what the warning on a timeout
\* goes by is the frame in the file, unless that was read half written.
LastBrightKept ==
    mode = "wait-live" /\ copied /\ prevHash \notin {NoFrame} \union Partial
        => shot = prevHash

\* It always comes to a verdict.
Terminates == <>(pc = "done")

\* What the code says of itself and does not keep.  Lines 5-12: "we detect the
\* Plymouth prompt" and then inject keystrokes; a failed look, or a firmware that
\* stands still, will do.  Line 20: "passphrase sent and boot succeeded"; an old
\* lease or an old picture will do, and so will a bright prompt that stands still
\* after a key was lost.  Line 223, "boot succeeded", and line 483, "screen never
\* reached brightness threshold. No screenshot captured": an old lease again, and
\* a dark frame hides bright ones.
SentAtPrompt == sentAt \in {"never", "prompt"}
ExitZeroIsBooted == exit = 0 /\ mode # "wait-live" => guest \in {"accepted", "greeter"}
LeaseIsNew == mode = "libvirt" /\ exit = 0 => lease = "new"
NoShotWithoutHash == mode = "wait-live" /\ pc = "done" /\ prevHash = NoFrame => shot = NoFrame
=============================================================================
