----------------------------- MODULE LuksProofs -----------------------------
(***************************************************************************)
(* Proofs about LuksModes, for any number of looks before a deadline and   *)
(* whatever the guest does.                                                *)
(***************************************************************************)
EXTENDS LuksModes, TLAPS

\* What the next lemmas need of a frame.
LEMMA Frames ==
    ASSUME NEW f \in AnyFrame
    PROVE  /\ Brightness(f) \in -1 .. 2
           /\ Brightness(f) >= 0 => f # NoFrame
           /\ Brightness(f) > 1 /\ f \notin Partial => f[1] \in {"greeter", "firmware", "prompt"}
           /\ f[1] \in Phase => f \notin {NoFrame} \union Partial
           /\ f \in Frame => f \notin Partial
  BY DEF AnyFrame, Frame, Phase, NoFrame, OldFrame, Partial, Brightness

\* Comparing is only done until two looks in a row were equal to the one before.
Counting == pc \in {"serial", "dump", "live"} => stableCount < STABLE_POLLS

Typed == TypeOK /\ Counting

LEMMA TypedInit == Init => Typed
  <1> SUFFICES ASSUME Init PROVE Typed
    OBVIOUS
  <1>1. <<"firmware", 0>> \in Frame /\ <<"firmware", 0>>[1] = "firmware" /\ "firmware" \in Phase
    BY DEF Frame, Phase
  <1>2. GuestTypeOK
    BY <1>1 DEF Init, GuestInit, GuestTypeOK
  <1>3. NoFrame \in AnyFrame
    BY DEF AnyFrame
  <1>4. /\ mode \in {"libvirt", "qemu", "wait-live"} /\ pc \in {"shot", "serial", "live"}
        /\ lease \in {"none", "old"} /\ shot = NoFrame /\ copied = TRUE
    BY DEF Init
  <1>5. LocalsInit
    BY DEF Init
  <1>6. exit \in -1 .. 2 /\ polls \in 0 .. MaxPolls /\ stableCount = 0 /\ gnomeStable = 0
    BY <1>5, MaxPollsAssumption DEF LocalsInit
  <1>7. /\ prevHash \in AnyFrame /\ passHash \in AnyFrame /\ shot \in AnyFrame
        /\ sentAt \in Phase \union {"never"} /\ result = "none"
        /\ hadContent = FALSE /\ screenChanged = FALSE /\ typed = FALSE
        /\ stale = FALSE /\ still \in 0 .. StoodStill
    BY <1>3, <1>4, <1>5 DEF LocalsInit, StoodStill
  <1>8. TypeOK
    <2>1. /\ pc \in {"serial", "dump", "send", "postserial", "postdump",
                       "shot", "keys", "lease", "live", "done"}
          /\ lease \in {"none", "old", "new"} /\ mode \in {"libvirt", "qemu", "wait-live"}
      BY <1>4
    <2>2. stableCount \in 0 .. STABLE_POLLS /\ gnomeStable \in 0 .. GNOME_STABLE_POLLS
      BY <1>6 DEF STABLE_POLLS, GNOME_STABLE_POLLS
    <2>3. /\ hadContent \in BOOLEAN /\ screenChanged \in BOOLEAN /\ typed \in BOOLEAN
          /\ stale \in BOOLEAN /\ still \in 0 .. StoodStill
      BY <1>7
    <2>4. copied \in BOOLEAN
      BY <1>4
    <2>5. result \in {"none", "plymouth", "gdm", "gnome-initial-setup", "emergency"}
      BY <1>7
    <2> QED BY <1>2, <1>6, <1>7, <2>1, <2>2, <2>3, <2>4, <2>5 DEF TypeOK
  <1> QED BY <1>6, <1>8 DEF Typed, Counting, STABLE_POLLS

LEMMA LookTyped ==
    ASSUME TypeOK, NEW seen \in Seen, Look(seen)
    PROVE  /\ seen \in AnyFrame
           /\ snap' \in Frame \union {NoFrame, OldFrame}
           /\ stale' \in BOOLEAN /\ still' \in 0 .. StoodStill
           /\ ~ stale' => ~ stale /\ seen \in {screen, NoFrame}
           /\ seen \notin {NoFrame} \union Partial => snap' = seen
           /\ still = StoodStill => still' = StoodStill
           /\ guest = "firmware" /\ seen = screen /\ seen = prevHash =>
                 still' = StoodStill \/ still' = still + 1
  <1>1. /\ seen \in AnyFrame
        /\ snap' \in Frame \union {NoFrame, OldFrame}
        /\ stale' \in BOOLEAN
        /\ seen \notin {NoFrame} \union Partial => snap' = seen
    BY DEF TypeOK, GuestTypeOK, AnyFrame, Seen, Look, Screendump
  <1>2. ~ stale' => ~ stale /\ seen \in {screen, NoFrame}
    BY DEF Look
  <1>3. /\ still' \in 0 .. StoodStill
        /\ still = StoodStill => still' = StoodStill
        /\ guest = "firmware" /\ seen = screen /\ seen = prevHash =>
              still' = StoodStill \/ still' = still + 1
    BY DEF TypeOK, Look, StoodStill
  <1> QED BY <1>1, <1>2, <1>3

LEMMA SerialTyped ==
    TypeOK => CheckSerial \in {"none", "plymouth", "gdm", "gnome-initial-setup", "emergency"}
  BY DEF CheckSerial

LEMMA QemuTyped == Typed /\ QemuMode /\ UNCHANGED modeVars => Typed'
  <1> SUFFICES ASSUME Typed, QemuMode, UNCHANGED modeVars PROVE Typed'
    OBVIOUS
  <1> USE MaxPollsAssumption
      DEF Typed, Counting, TypeOK, guestVars, locals, looks, modeVars,
          STABLE_POLLS, GNOME_STABLE_POLLS, GuestTypeOK, End
  <1>1. CASE Serial
    BY <1>1, SerialTyped DEF Serial
  <1>2. CASE PromptTimeout
    BY <1>2 DEF PromptTimeout
  <1>3. CASE SerialPrompt
    BY <1>3, LookTyped DEF SerialPrompt
  <1>4. CASE Dump
    <2>1. PICK seen \in Seen :
             /\ Look(seen)
             /\ IF Brightness(seen) < 0
                  THEN stableCount' = 0 /\ pc' = "serial" /\ UNCHANGED <<hadContent, prevHash>>
                  ELSE Compare(seen)
      BY <1>4 DEF Dump
    <2>2. /\ seen \in AnyFrame /\ snap' \in Frame \union {NoFrame, OldFrame}
          /\ stale' \in BOOLEAN /\ still' \in 0 .. StoodStill
      BY <2>1, LookTyped
    <2>3. stableCount \in 0 .. 1
      BY <1>4 DEF Dump
    <2>4. /\ hadContent' \in BOOLEAN /\ stableCount' \in 0 .. 2 /\ prevHash' \in AnyFrame
          /\ pc' \in {"serial", "send"}
          /\ pc' = "serial" => stableCount' < 2
      <3>1. CASE Brightness(seen) < 0
        BY <2>1, <3>1
      <3>2. CASE Compare(seen)
        BY <2>2, <2>3, <3>2 DEF Compare
      <3> QED BY <2>1, <3>1, <3>2
    <2> QED BY <1>4, <2>2, <2>4 DEF Dump
  <1>5. CASE Send
    <2>1. typed' \in BOOLEAN
      BY <1>5, Zenon DEF Send, QemuTypes
    <2> QED BY <1>5, <2>1 DEF Send
  <1>6. CASE PostSerial
    BY <1>6, SerialTyped DEF PostSerial
  <1>7. CASE BootTimeout
    BY <1>7 DEF BootTimeout
  <1>8. CASE PostDump
    <2>1. PICK seen \in Seen :
             /\ Look(seen)
             /\ screenChanged' = (screenChanged \/ seen # passHash)
             /\ gnomeStable' = IF seen = prevHash THEN 1 ELSE 0
             /\ prevHash' = seen
             /\ \/ pc' = "done" /\ exit' \in {0, 2}
                \/ pc' = "postserial" /\ exit' = exit
      BY <1>8 DEF PostDump
    <2>2. /\ seen \in AnyFrame /\ snap' \in Frame \union {NoFrame, OldFrame}
          /\ stale' \in BOOLEAN /\ still' \in 0 .. StoodStill
      BY <2>1, LookTyped
    <2> QED BY <1>8, <2>1, <2>2 DEF PostDump
  <1>9. CASE SocatHangs
    BY <1>9 DEF SocatHangs
  <1> QED BY <1>1, <1>2, <1>3, <1>4, <1>5, <1>6, <1>7, <1>8, <1>9 DEF QemuMode

LEMMA LibvirtTyped == Typed /\ LibvirtMode => Typed'
  <1> SUFFICES ASSUME Typed, LibvirtMode PROVE Typed'
    OBVIOUS
  <1> USE MaxPollsAssumption
      DEF Typed, Counting, TypeOK, guestVars, locals, looks, modeVars,
          STABLE_POLLS, GNOME_STABLE_POLLS, GuestTypeOK, End
  <1>1. CASE VirshLook
    <2>1. /\ hadContent' \in BOOLEAN /\ stale' \in BOOLEAN /\ still' \in 0 .. StoodStill
          /\ pc' \in {"keys", "shot"}
      BY <1>1 DEF VirshLook, SizeIsSmall, Small, StoodStill
    <2> QED BY <1>1, <2>1 DEF VirshLook
  <1>2. CASE ShotTimeout
    BY <1>2 DEF ShotTimeout
  <1>3. CASE VirshSend
    <2>1. typed' \in BOOLEAN
      BY <1>3, Zenon DEF VirshSend, VirshTypes
    <2> QED BY <1>3, <2>1 DEF VirshSend
  <1>4. CASE DhcpLook
    BY <1>4 DEF DhcpLook
  <1>5. CASE LeaseTimeout
    BY <1>5 DEF LeaseTimeout
  <1> QED BY <1>1, <1>2, <1>3, <1>4, <1>5 DEF LibvirtMode

\* What a look of wait-live does, by the brightness of what was seen.
LEMMA LiveCases ==
    ASSUME LiveLook
    PROVE  \E seen \in Seen :
             /\ Look(seen)
             /\ \/ Brightness(seen) < 0 /\ stableCount' = 0 /\ UNCHANGED <<prevHash, shot, copied>>
                \/ BrightEnough(seen) /\ Bright(seen)
                \/ Dark /\ UNCHANGED <<shot, copied>>
  <1>1. PICK seen \in Seen :
             /\ Look(seen)
             /\ CASE Brightness(seen) < 0 ->
                       stableCount' = 0 /\ UNCHANGED <<prevHash, shot, copied>>
                  [] BrightEnough(seen) -> Bright(seen)
                  [] OTHER -> Dark /\ UNCHANGED <<shot, copied>>
    BY DEF LiveLook
  <1> QED BY <1>1

LEMMA WaitLiveTyped == Typed /\ WaitLiveMode => Typed'
  <1> SUFFICES ASSUME Typed, WaitLiveMode PROVE Typed'
    OBVIOUS
  <1> USE MaxPollsAssumption
      DEF Typed, Counting, TypeOK, guestVars, locals, looks, modeVars,
          STABLE_POLLS, GNOME_STABLE_POLLS, GuestTypeOK, End
  <1>1. CASE LiveLook
    <2>1. PICK seen \in Seen :
             /\ Look(seen)
             /\ \/ Brightness(seen) < 0 /\ stableCount' = 0 /\ UNCHANGED <<prevHash, shot, copied>>
                \/ BrightEnough(seen) /\ Bright(seen)
                \/ Dark /\ UNCHANGED <<shot, copied>>
      BY <1>1, LiveCases
    <2>2. /\ seen \in AnyFrame /\ snap' \in Frame \union {NoFrame, OldFrame}
          /\ stale' \in BOOLEAN /\ still' \in 0 .. StoodStill
      BY <2>1, LookTyped
    <2>3. stableCount \in 0 .. 1 /\ NoFrame \in AnyFrame
      BY <1>1 DEF LiveLook, AnyFrame
    <2>4. /\ stableCount' \in 0 .. 2 /\ prevHash' \in AnyFrame /\ shot' \in AnyFrame
          /\ copied' \in BOOLEAN
      <3>1. CASE stableCount' = 0 /\ UNCHANGED <<prevHash, shot, copied>>
        BY <3>1
      <3>2. CASE Bright(seen)
        <4>1. stableCount' \in {stableCount + 1, 0} /\ prevHash' = seen
          BY <3>2 DEF Bright
        <4>2. shot' \in AnyFrame
          BY <2>2, <3>2 DEF Bright, AnyFrame
        <4>3. copied' \in BOOLEAN
          BY <3>2 DEF Bright
        <4>4. stableCount' \in 0 .. 2
          BY <2>3, <4>1
        <4> QED BY <2>2, <4>1, <4>2, <4>3, <4>4
      <3>3. CASE Dark /\ UNCHANGED <<shot, copied>>
        BY <2>3, <3>3 DEF Dark
      <3> QED BY <2>1, <3>1, <3>2, <3>3
    <2> QED BY <1>1, <2>2, <2>4 DEF LiveLook
  <1>2. CASE LiveTimeout
    BY <1>2 DEF LiveTimeout
  <1>3. CASE LiveHangs
    BY <1>3 DEF LiveHangs
  <1> QED BY <1>1, <1>2, <1>3 DEF WaitLiveMode

\* The guest's steps, by what they do to its phase.
LEMMA GuestMoves ==
    ASSUME TypeOK, Guest
    PROVE  /\ GuestTypeOK' /\ UNCHANGED snap
           /\ guest' = "firmware" => guest = "firmware"
           /\ guest' = "prompt" => guest = "prompt" \/ mode # "wait-live"
           /\ guest = "greeter" => guest' = "greeter"
           /\ "plymouth" \in serial' => "plymouth" \in serial \/ guest' # "firmware"
           /\ "gdm" \in serial' => "gdm" \in serial \/ guest' = "greeter"
           /\ "gnome-initial-setup" \in serial' =>
                 "gnome-initial-setup" \in serial \/ guest' = "greeter"
  <1> USE DEF TypeOK, GuestTypeOK
  <1>1. CASE Animate
    BY <1>1 DEF Animate, Frame, Phase
  <1>2. ASSUME NEW p \in Phase, Enter(p)
        PROVE  /\ guest' = p /\ screen' \in Frame /\ screen'[1] = p
               /\ UNCHANGED <<console, snap>>
    BY <1>2 DEF Enter, Frame
  <1>3. CASE mode # "wait-live" /\ PromptAppears
    BY <1>2, <1>3 DEF PromptAppears, Announce, Phase
  <1>4. CASE GoesWrong
    BY <1>2, <1>4 DEF GoesWrong, Announce, Phase
  <1>5. CASE GreeterStarts
    BY <1>2, <1>5 DEF GreeterStarts, Announce, Phase
  <1>6. CASE Accepts \/ LiveBoots
    BY <1>2, <1>6 DEF Accepts, LiveBoots, Phase
  <1> QED BY <1>1, <1>3, <1>4, <1>5, <1>6 DEF Guest

LEMMA TypedStep == Typed /\ [Next]_allVars => Typed'
  <1> SUFFICES ASSUME Typed, [Next]_allVars PROVE Typed'
    OBVIOUS
  <1> USE DEF Typed, Counting, TypeOK
  <1>1. CASE UNCHANGED allVars
    BY <1>1 DEF allVars, vars, program, guestVars, locals, looks, modeVars, GuestTypeOK
  <1>2. CASE Program
    BY <1>2, QemuTyped, LibvirtTyped, WaitLiveTyped DEF Program
  <1>3. CASE Guest
    BY <1>3, GuestMoves DEF Guest, program, locals, looks, modeVars
  <1>4. CASE Leased
    BY <1>4 DEF Leased, vars, program, guestVars, locals, looks, GuestTypeOK
  <1> QED BY <1>1, <1>2, <1>3, <1>4 DEF Next

\* In every mode, whatever looks and the guest do, the state is well-typed: no
\* mode counts or looks beyond its limits.
THEOREM TypeCorrect == Spec => []TypeOK
  <1>1. Typed => TypeOK
    BY DEF Typed
  <1> QED BY <1>1, TypedInit, TypedStep, PTL DEF Spec

-----------------------------------------------------------------------------
(* The safety invariants, by one induction                                  *)

\* Each mode has its own loop.
ModeInv ==
    /\ mode = "libvirt" => pc \in {"shot", "keys", "lease", "done"}
    /\ mode = "qemu" => pc \in {"serial", "dump", "send", "postserial", "postdump", "done"}
    /\ mode = "wait-live" => pc \in {"live", "done"}

\* What was read on the serial console stays true of the guest.
SerialInv ==
    /\ "plymouth" \in serial \/ result = "plymouth" => guest # "firmware"
    /\ "gdm" \in serial \/ "gnome-initial-setup" \in serial \/ Confirmed => guest = "greeter"

SendInv == pc \in {"send", "keys"} /\ ~ stale /\ still < StoodStill => guest # "firmware"

\* No frame of the firmware has been seen unchanged more often than was counted.
AlikeInv ==
    stableCount > 0 /\ ~ stale /\ (mode = "wait-live" \/ pc \in {"serial", "dump"}) =>
        prevHash[1] # "firmware" \/ stableCount <= still

\* Nothing is compared before there is something to see.
CountInv == mode = "qemu" /\ ~ hadContent => stableCount = 0

\* What wait-live compares is bright, and nothing asks a live system's user for
\* a passphrase.
LiveInv ==
    mode = "wait-live" =>
        /\ guest # "prompt"
        /\ stableCount > 0 /\ ~ stale => prevHash[1] \in {"greeter", "firmware"}

Sound ==
    /\ ModeInv /\ SerialInv /\ SendInv /\ AlikeInv /\ CountInv /\ LiveInv
    /\ NotSentAtFirmware /\ LastBrightKept

LEMMA SoundInit == Init => Sound
  BY DEF Init, GuestInit, LocalsInit, Sound, ModeInv, SerialInv, Confirmed, SendInv,
         AlikeInv, CountInv, LiveInv, NotSentAtFirmware, LastBrightKept, StoodStill

\* A step of a program that does not get ready to type, type, or compare.
LEMMA QuietSound ==
    ASSUME Typed, Sound, pc' \notin {"keys", "send"},
           UNCHANGED <<guestVars, sentAt, modeVars, looks, prevHash, stableCount, hadContent>>,
           result' \in {result, CheckSerial},
           ModeInv',
           pc' \in {"serial", "dump"} => pc \in {"serial", "dump"}
    PROVE  Sound'
  <1> USE DEF Sound, guestVars, modeVars, looks
  <1>1. SerialInv'
    BY DEF SerialInv, Confirmed, CheckSerial
  <1>2. SendInv' /\ AlikeInv' /\ CountInv' /\ LiveInv'
    BY DEF SendInv, AlikeInv, CountInv, LiveInv
  <1>3. NotSentAtFirmware' /\ LastBrightKept'
    BY DEF NotSentAtFirmware, LastBrightKept
  <1> QED BY <1>1, <1>2, <1>3

\* Where two looks in a row are compared, the firmware's are counted on both sides.
LEMMA AlikeCounted ==
    ASSUME Typed, NEW seen \in Seen, Look(seen), Brightness(seen) >= 0, ~ stale',
           stableCount < STABLE_POLLS,
           ~ stale => prevHash[1] # "firmware" \/ stableCount <= still \/ stableCount = 0,
           prevHash' = seen,
           stableCount' = IF seen = prevHash THEN stableCount + 1 ELSE 0,
           stableCount' > 0
    PROVE  /\ seen = screen /\ seen = prevHash /\ screen[1] = guest
           /\ prevHash'[1] # "firmware" \/ stableCount' <= still'
  <1>1. /\ seen \in AnyFrame
        /\ ~ stale /\ seen \in {screen, NoFrame}
        /\ still' \in 0 .. StoodStill
        /\ guest = "firmware" /\ seen = screen /\ seen = prevHash =>
              still' = StoodStill \/ still' = still + 1
    BY LookTyped DEF Typed
  <1>2. seen # NoFrame
    BY <1>1, Frames
  <1>3. /\ seen = screen /\ seen = prevHash /\ screen[1] = guest
        /\ stableCount' = stableCount + 1 /\ stableCount \in 0 .. 1 /\ still \in 0 .. 2
    BY <1>1, <1>2 DEF Typed, TypeOK, GuestTypeOK, STABLE_POLLS, StoodStill
  <1>4. CASE guest = "firmware"
    BY <1>1, <1>3, <1>4 DEF StoodStill
  <1>5. CASE guest # "firmware"
    BY <1>3, <1>5
  <1> QED BY <1>3, <1>4, <1>5

LEMMA QemuSound == Typed /\ Sound /\ QemuMode /\ UNCHANGED modeVars => Sound'
  <1> SUFFICES ASSUME Typed, Sound, QemuMode, UNCHANGED modeVars PROVE Sound'
    OBVIOUS
  <1>0. mode = "qemu" /\ mode' = "qemu" /\ TypeOK
    BY DEF QemuMode, Serial, PromptTimeout, SerialPrompt, Dump, Send, PostSerial,
           BootTimeout, PostDump, SocatHangs, Sound, ModeInv, Typed, TypeOK, modeVars
  <1>1. CASE Serial \/ PromptTimeout \/ PostSerial \/ BootTimeout \/ SocatHangs
    <2> USE DEF guestVars, locals, looks, modeVars, End
    <2>1. CASE Serial
      BY <1>0, <2>1, QuietSound DEF Serial, ModeInv
    <2>2. CASE PromptTimeout
      BY <1>0, <2>2, QuietSound DEF PromptTimeout, ModeInv
    <2>3. CASE PostSerial
      BY <1>0, <2>3, QuietSound DEF PostSerial, ModeInv
    <2>4. CASE BootTimeout
      BY <1>0, <2>4, QuietSound DEF BootTimeout, ModeInv
    <2>5. CASE SocatHangs
      BY <1>0, <2>5, QuietSound DEF SocatHangs, ModeInv
    <2> QED BY <1>1, <2>1, <2>2, <2>3, <2>4, <2>5
  <1>2. CASE SerialPrompt
    <2>1. (~ stale' => ~ stale) /\ (still = StoodStill => still' = StoodStill)
          /\ still \in 0 .. StoodStill /\ still' \in 0 .. StoodStill
      BY <1>0, <1>2, LookTyped DEF SerialPrompt, TypeOK
    <2>2. guest # "firmware"
      BY <1>2 DEF SerialPrompt, Sound, SerialInv
    <2> QED BY <1>0, <1>2, <2>1, <2>2
            DEF SerialPrompt, guestVars, locals, modeVars, StoodStill, Sound, ModeInv, SerialInv, Confirmed, SendInv,
                AlikeInv, CountInv, LiveInv, NotSentAtFirmware, LastBrightKept
  <1>3. CASE Dump
    <2>1. PICK seen \in Seen :
             /\ Look(seen)
             /\ IF Brightness(seen) < 0
                  THEN stableCount' = 0 /\ pc' = "serial" /\ UNCHANGED <<hadContent, prevHash>>
                  ELSE Compare(seen)
      BY <1>3 DEF Dump
    <2>2. /\ seen \in AnyFrame
          /\ ~ stale' => ~ stale
          /\ still = StoodStill => still' = StoodStill
          /\ still \in 0 .. StoodStill /\ still' \in 0 .. StoodStill
      BY <1>0, <2>1, LookTyped DEF TypeOK
    <2>3. /\ pc = "dump" /\ pc' \in {"serial", "send"} /\ stableCount \in 0 .. 1
          /\ UNCHANGED <<guest, screen, serial, console, sentAt, typed, result>>
      BY <1>3, <2>1 DEF Dump, Compare, Typed, Counting, TypeOK, STABLE_POLLS, guestVars
    <2>4. /\ ~ hadContent' => stableCount' = 0
          /\ stableCount' \in 0 .. 2
          /\ ~ stale' /\ stableCount' > 0 =>
               /\ prevHash'[1] # "firmware" \/ stableCount' <= still'
               /\ prevHash'[1] = guest
          /\ pc' = "send" => stableCount' >= 2
      <3>1. CASE Brightness(seen) < 0
        BY <2>1, <3>1
      <3>2. CASE ~ (Brightness(seen) < 0) /\ ~ hadContent'
        <4>1. ~ hadContent /\ stableCount' = stableCount
          BY <2>1, <3>2 DEF Compare
        <4>2. stableCount = 0
          BY <1>0, <4>1 DEF Sound, CountInv
        <4> QED BY <2>1, <3>2, <4>1, <4>2 DEF Compare, STABLE_POLLS
      <3>3. CASE ~ (Brightness(seen) < 0) /\ hadContent'
        <4>1. /\ stableCount' = IF seen = prevHash THEN stableCount + 1 ELSE 0
              /\ prevHash' = seen
              /\ pc' = "send" => stableCount' >= 2
              /\ stableCount' \in 0 .. 2
          BY <2>1, <2>3, <3>3 DEF Compare, STABLE_POLLS
        <4>2. Brightness(seen) >= 0
          BY <2>2, <3>3, Frames
        <4>3. ~ stale => prevHash[1] # "firmware" \/ stableCount <= still \/ stableCount = 0
          BY <2>3 DEF Sound, AlikeInv
        <4>4. ~ stale' /\ stableCount' > 0 =>
                /\ seen = screen /\ screen[1] = guest
                /\ prevHash'[1] # "firmware" \/ stableCount' <= still'
          BY <2>1, <2>3, <4>1, <4>2, <4>3, AlikeCounted DEF STABLE_POLLS
        <4> QED BY <3>3, <4>1, <4>4
      <3> QED BY <3>1, <3>2, <3>3
    <2>5. pc' = "send" /\ ~ stale' /\ still' < StoodStill => guest # "firmware"
      BY <2>2, <2>4 DEF StoodStill
    <2> QED BY <1>0, <2>2, <2>3, <2>4, <2>5
            DEF modeVars, StoodStill, Sound, ModeInv, SerialInv, Confirmed, SendInv,
                AlikeInv, CountInv, LiveInv, NotSentAtFirmware, LastBrightKept
  <1>4. CASE Send
    <2>1. ~ stale /\ still < StoodStill => guest # "firmware"
      BY <1>4 DEF Send, Sound, SendInv
    <2> QED BY <1>0, <1>4, <2>1
            DEF Send, guestVars, looks, modeVars, Sound, ModeInv, SerialInv, Confirmed, SendInv,
                AlikeInv, CountInv, LiveInv, NotSentAtFirmware, LastBrightKept
  <1>5. CASE PostDump
    <2>1. /\ ~ stale' => ~ stale
          /\ still = StoodStill => still' = StoodStill
          /\ still \in 0 .. StoodStill /\ still' \in 0 .. StoodStill
      BY <1>0, <1>5, LookTyped DEF PostDump, TypeOK
    <2>2. /\ UNCHANGED <<guest, screen, serial, console, sentAt, result, hadContent, stableCount>>
          /\ pc' \in {"postserial", "done"}
      BY <1>5 DEF PostDump, guestVars, End
    <2> QED BY <1>0, <2>1, <2>2
            DEF modeVars, StoodStill, Sound, ModeInv, SerialInv, Confirmed, SendInv,
                AlikeInv, CountInv, LiveInv, NotSentAtFirmware, LastBrightKept
  <1> QED BY <1>1, <1>2, <1>3, <1>4, <1>5 DEF QemuMode

LEMMA LibvirtSound == Typed /\ Sound /\ LibvirtMode => Sound'
  <1> SUFFICES ASSUME Typed, Sound, LibvirtMode PROVE Sound'
    OBVIOUS
  <1>0. mode = "libvirt" /\ mode' = "libvirt" /\ TypeOK
    BY DEF LibvirtMode, VirshLook, ShotTimeout, VirshSend, DhcpLook, LeaseTimeout,
           Sound, ModeInv, Typed, TypeOK, modeVars
  <1> USE DEF guestVars, locals, looks, modeVars, End
  <1>1. CASE VirshLook
    <2>1. PICK failed \in BOOLEAN :
             /\ hadContent' = (hadContent \/ ~ SizeIsSmall(failed))
             /\ pc' = IF hadContent' /\ SizeIsSmall(failed) THEN "keys" ELSE "shot"
             /\ stale' = (stale \/ failed)
      BY <1>1 DEF VirshLook
    <2>2. pc' \in {"keys", "shot"} /\ (~ stale' => ~ stale /\ ~ failed)
      BY <2>1
    <2>3. /\ guest = "firmware" /\ hadContent /\ Small(screen) => still' = StoodStill
          /\ still = StoodStill => still' = StoodStill
          /\ still \in 0 .. StoodStill /\ still' \in 0 .. StoodStill
      BY <1>0, <1>1 DEF VirshLook, TypeOK, StoodStill
    <2>4. pc' = "keys" /\ ~ stale' /\ still' < StoodStill => guest # "firmware"
      BY <2>1, <2>2, <2>3 DEF SizeIsSmall, StoodStill
    <2> QED BY <1>0, <1>1, <2>2, <2>3, <2>4
            DEF VirshLook, StoodStill, Sound, ModeInv, SerialInv, Confirmed, SendInv,
                AlikeInv, CountInv, LiveInv, NotSentAtFirmware, LastBrightKept
  <1>2. CASE ShotTimeout
    BY <1>0, <1>2, QuietSound DEF ShotTimeout, ModeInv
  <1>3. CASE VirshSend
    <2>1. ~ stale /\ still < StoodStill => guest # "firmware"
      BY <1>3 DEF VirshSend, Sound, SendInv
    <2> QED BY <1>0, <1>3, <2>1
            DEF VirshSend, Sound, ModeInv, SerialInv, Confirmed, SendInv,
                AlikeInv, CountInv, LiveInv, NotSentAtFirmware, LastBrightKept
  <1>4. CASE DhcpLook
    BY <1>0, <1>4, QuietSound DEF DhcpLook, ModeInv
  <1>5. CASE LeaseTimeout
    BY <1>0, <1>5, QuietSound DEF LeaseTimeout, ModeInv
  <1> QED BY <1>1, <1>2, <1>3, <1>4, <1>5 DEF LibvirtMode

LEMMA WaitLiveSound == Typed /\ Sound /\ WaitLiveMode => Sound'
  <1> SUFFICES ASSUME Typed, Sound, WaitLiveMode PROVE Sound'
    OBVIOUS
  <1>0. mode = "wait-live" /\ pc = "live" /\ TypeOK
    BY DEF WaitLiveMode, LiveLook, LiveTimeout, LiveHangs, Sound, ModeInv, Typed, TypeOK
  <1>1. /\ UNCHANGED <<guest, screen, serial, console, result, sentAt, mode, hadContent>>
        /\ pc' \in {"live", "done"}
    BY <1>0 DEF WaitLiveMode, LiveLook, LiveTimeout, LiveHangs, guestVars, locals, modeVars, End
  <1>2. CASE LiveLook
    <2>1. PICK seen \in Seen :
             /\ Look(seen)
             /\ \/ Brightness(seen) < 0 /\ stableCount' = 0 /\ UNCHANGED <<prevHash, shot, copied>>
                \/ BrightEnough(seen) /\ Bright(seen)
                \/ Dark /\ UNCHANGED <<shot, copied>>
      BY <1>2, LiveCases
    <2>2. /\ seen \in AnyFrame
          /\ ~ stale' => ~ stale
          /\ seen \notin {NoFrame} \union Partial => snap' = seen
          /\ still = StoodStill => still' = StoodStill
          /\ still \in 0 .. StoodStill /\ still' \in 0 .. StoodStill
      BY <1>0, <2>1, LookTyped DEF TypeOK
    <2>3. /\ LastBrightKept'
          /\ ~ stale' /\ stableCount' > 0 =>
               /\ prevHash'[1] # "firmware" \/ stableCount' <= still'
               /\ prevHash'[1] \in {"greeter", "firmware"}
      <3>1. CASE BrightEnough(seen) /\ Bright(seen)
        <4>1. /\ Brightness(seen) > 1 /\ Brightness(seen) >= 0
              /\ stableCount' = IF seen = prevHash THEN stableCount + 1 ELSE 0
              /\ prevHash' = seen
              /\ shot' \in {seen, snap'} \/ copied' = FALSE
          BY <2>2, <3>1, Frames DEF BrightEnough, Bright
        <4>2. stableCount < STABLE_POLLS
          BY <1>0 DEF Typed, Counting
        <4>3. ~ stale => prevHash[1] # "firmware" \/ stableCount <= still \/ stableCount = 0
          BY <1>0 DEF Sound, AlikeInv, Typed, TypeOK
        <4>4. ~ stale' /\ stableCount' > 0 =>
                /\ seen = screen /\ screen[1] = guest
                /\ prevHash'[1] # "firmware" \/ stableCount' <= still'
          BY <2>1, <4>1, <4>2, <4>3, AlikeCounted
        <4>5. guest # "prompt" /\ screen \in Frame
          BY <1>0 DEF Sound, LiveInv, TypeOK, GuestTypeOK
        <4>6. ~ stale' /\ stableCount' > 0 => prevHash'[1] \in {"greeter", "firmware"}
          BY <2>2, <4>1, <4>4, <4>5, Frames
        <4> QED BY <2>2, <4>1, <4>4, <4>6 DEF LastBrightKept
      <3>2. CASE stableCount' = 0 /\ UNCHANGED <<prevHash, shot, copied>>
        BY <1>0, <1>1, <3>2 DEF LastBrightKept, Sound
      <3>3. CASE Dark /\ UNCHANGED <<shot, copied>>
        BY <3>3 DEF Dark, LastBrightKept
      <3> QED BY <2>1, <3>1, <3>2, <3>3
    <2> QED BY <1>0, <1>1, <2>2, <2>3
            DEF StoodStill, Sound, ModeInv, SerialInv, Confirmed, SendInv,
                AlikeInv, CountInv, LiveInv, NotSentAtFirmware
  <1>3. CASE LiveTimeout \/ LiveHangs
    BY <1>0, <1>3, QuietSound DEF LiveTimeout, LiveHangs, End, ModeInv, locals
  <1> QED BY <1>2, <1>3 DEF WaitLiveMode

LEMMA GuestSound == Typed /\ Sound /\ Guest => Sound'
  <1> SUFFICES ASSUME Typed, Sound, Guest PROVE Sound'
    OBVIOUS
  <1> USE DEF program, locals, looks, modeVars
  <1>1. /\ guest' = "firmware" => guest = "firmware"
        /\ guest' = "prompt" => guest = "prompt" \/ mode # "wait-live"
        /\ guest = "greeter" => guest' = "greeter"
        /\ "plymouth" \in serial' => "plymouth" \in serial \/ guest' # "firmware"
        /\ "gdm" \in serial' => "gdm" \in serial \/ guest' = "greeter"
        /\ "gnome-initial-setup" \in serial' =>
              "gnome-initial-setup" \in serial \/ guest' = "greeter"
    BY GuestMoves DEF Typed
  <1>2. UNCHANGED <<program, typed, modeVars>>
    BY DEF Guest
  <1>3. SerialInv' /\ ModeInv' /\ SendInv'
    BY <1>1, <1>2 DEF Sound, SerialInv, Confirmed, ModeInv, SendInv
  <1>4. AlikeInv' /\ CountInv' /\ LiveInv' /\ NotSentAtFirmware' /\ LastBrightKept'
    BY <1>1, <1>2 DEF Sound, AlikeInv, CountInv, LiveInv, NotSentAtFirmware, LastBrightKept
  <1> QED BY <1>3, <1>4 DEF Sound

LEMMA SoundStep == Typed /\ Sound /\ [Next]_allVars => Sound'
  <1> SUFFICES ASSUME Typed, Sound, [Next]_allVars PROVE Sound'
    OBVIOUS
  <1>1. CASE UNCHANGED allVars
    BY <1>1 DEF allVars, vars, program, guestVars, locals, looks, modeVars, Sound, ModeInv, SerialInv, Confirmed, SendInv,
                AlikeInv, CountInv, LiveInv, NotSentAtFirmware, LastBrightKept
  <1>2. CASE Program
    BY <1>2, QemuSound, LibvirtSound, WaitLiveSound DEF Program
  <1>3. CASE Guest
    BY <1>3, GuestSound
  <1>4. CASE Leased
    BY <1>4 DEF Leased, vars, program, guestVars, locals, looks, Sound, ModeInv, SerialInv, Confirmed, SendInv,
                AlikeInv, CountInv, LiveInv, NotSentAtFirmware, LastBrightKept
  <1> QED BY <1>1, <1>2, <1>3, <1>4 DEF Next

LEMMA SoundAlways == Spec => [](Typed /\ Sound)
  BY TypedInit, TypedStep, SoundInit, SoundStep, PTL DEF Spec

\* For any deadline: if looks showed the screen, and the firmware neither stood
\* still for two further looks nor (libvirt) turned dark again, the passphrase
\* was not typed at the firmware.
THEOREM NotSentAtFirmwareAlways == Spec => []NotSentAtFirmware
  <1>1. Sound => NotSentAtFirmware
    BY DEF Sound
  <1> QED BY <1>1, SoundAlways, PTL

\* The only step of the qemu mode that gives exit status 0, by what it goes by.
LEMMA SuccessCases ==
    ASSUME Typed, Sound, PostDump, exit # 0, exit' = 0, ~ stale'
    PROVE  guest \notin {"accepted", "emergency"}
  <1>1. PICK seen \in Seen :
          /\ Look(seen)
          /\ IF Confirmed THEN End(0)
             ELSE IF Settled
               THEN End(IF Brightness(seen) > 1 THEN 0 ELSE 2)
               ELSE pc' = "postserial" /\ UNCHANGED exit
    BY DEF PostDump
  <1>2. CASE Confirmed
    BY <1>2 DEF Sound, SerialInv
  <1>3. CASE ~ Confirmed
    <2>1. Brightness(seen) > 1
      BY <1>1, <1>3 DEF End
    <2>2. seen \in AnyFrame /\ seen \in {screen, NoFrame}
      BY <1>1, LookTyped DEF Typed
    <2>3. seen # NoFrame
      BY <2>1, <2>2, Frames
    <2>4. screen \in Frame /\ screen[1] = guest
      BY DEF Typed, TypeOK, GuestTypeOK
    <2> QED BY <2>1, <2>2, <2>3, <2>4, Frames
  <1> QED BY <1>2, <1>3

\* For any deadline: the qemu mode does not give exit status 0 to a guest that
\* looks showed in its emergency shell or on its way.
THEOREM DarkIsNotSuccessAlways == Spec => DarkIsNotSuccess
  <1>1. ASSUME Typed, Sound, [Next]_allVars
        PROVE  [exit # 0 /\ exit' = 0 /\ mode = "qemu" /\ ~ stale'
                  => guest \notin {"accepted", "emergency"}]_allVars
    <2> SUFFICES ASSUME Next, exit # 0, exit' = 0, mode = "qemu", ~ stale'
                 PROVE  guest \notin {"accepted", "emergency"}
      BY <1>1 DEF allVars, vars, program
    <2>1. pc \in {"serial", "dump", "send", "postserial", "postdump", "done"}
      BY <1>1 DEF Sound, ModeInv
    <2>2. CASE LibvirtMode \/ WaitLiveMode
      BY <2>1, <2>2 DEF LibvirtMode, VirshLook, ShotTimeout, VirshSend, DhcpLook, LeaseTimeout,
                        WaitLiveMode, LiveLook, LiveTimeout, LiveHangs
    <2>3. CASE QemuMode
      <3>1. PostDump
        BY <2>3 DEF QemuMode, Serial, PromptTimeout, SerialPrompt, Dump, Send, PostSerial,
                    BootTimeout, SocatHangs, End, locals
      <3> QED BY <1>1, <3>1, SuccessCases
    <2>4. CASE Guest \/ Leased
      BY <2>4 DEF Guest, Leased, vars, program
    <2> QED BY <2>2, <2>3, <2>4 DEF Next, Program
  <1> QED BY <1>1, SoundAlways, PTL DEF Spec, DarkIsNotSuccess

\* The file holds the last bright frame, however looks fail in between, but for
\* one that was read half written.
THEOREM LastBrightKeptAlways == Spec => []LastBrightKept
  <1>1. Sound => LastBrightKept
    BY DEF Sound
  <1> QED BY <1>1, SoundAlways, PTL

\* For any deadline: a screen that wait-live found bright and unchanged twice is
\* a desktop's, and it is what the file holds, if copies worked, looks showed the
\* screen and the firmware's logo did not stand still for as long.
THEOREM ShotShowsDesktopAlways == Spec => []ShotShowsDesktop
  <1>1. ASSUME Typed, Sound, stableCount = STABLE_POLLS, mode = "wait-live", copied, ~ stale,
               still < StoodStill
        PROVE  shot[1] = "greeter"
    <2>1. stableCount = 2 /\ still < 2 /\ still \in 0 .. 2
      BY <1>1 DEF STABLE_POLLS, StoodStill, Typed, TypeOK
    <2>2. prevHash[1] = "greeter"
      BY <1>1, <2>1 DEF Sound, AlikeInv, LiveInv
    <2>3. prevHash \in AnyFrame /\ "greeter" \in Phase
      BY <1>1 DEF Typed, TypeOK, Phase
    <2>4. prevHash \notin {NoFrame} \union Partial
      BY <2>2, <2>3, Frames
    <2> QED BY <1>1, <2>2, <2>4 DEF Sound, LastBrightKept
  <1>2. Typed /\ Sound => ShotShowsDesktop
    BY <1>1 DEF ShotShowsDesktop
  <1> QED BY <1>2, SoundAlways, PTL
=============================================================================
