----------------------------- MODULE SecureBoot -----------------------------
(***************************************************************************)
(* Unlocking and relocking Secure Boot on one Solo 2 (lpc55_isp.py).       *)
(*                                                                         *)
(* The host runs one operation at a time over one bootloader session:      *)
(* disable_secure_boot, relock_device, detect_variant or write_flash, the  *)
(* second and third also through the functions that take a device and      *)
(* reboot it first (relock_with_device, check_variant_with_device).        *)
(* Every bootloader command is one step, and may instead fail: the host    *)
(* then raises, whatever part of the command the device carried out.  A    *)
(* power loss between two commands, or the death of the host, is seen the  *)
(* same way: the next command fails and the device has restarted.          *)
(*                                                                         *)
(* The CMPA page is the set of its one bits.  Writing NOR flash can only   *)
(* clear bits; only erase_all sets them again.                             *)
(***************************************************************************)
EXTENDS Naturals, FiniteSets

CONSTANTS
    CmpaBits,     \* the bits of the 512-byte CMPA page
    SbeBits,      \* SECURE_BOOT_EN, bits [7:6] of byte 0x1F
    SealBits,     \* the SHA256 digest at 0x60
    Factory,      \* the one bits of the page the device was shipped with
    Signed,       \* firmware images the bootrom accepts under Secure Boot
    Custom,       \* images it does not
    Blank,        \* flash that reads all 0xFF
    Garbled,      \* flash an interrupted erase or write left behind
    NoImage,      \* the empty bytes b"" that stand for "no firmware"
    MaxFaults,    \* bound on the commands that fail
    TornPages     \* may an interrupted command leave the CMPA half written?

Images == Signed \cup Custom

Locked(c) == c \cap SbeBits # {} \/ c \cap SealBits # {}

ASSUME PageAssumption ==
    /\ SbeBits \subseteq CmpaBits /\ SealBits \subseteq CmpaBits
    /\ SbeBits \cap SealBits = {}
    /\ Factory \subseteq CmpaBits
    /\ Factory \cap SbeBits # {}
    /\ Factory \cap SealBits # {}
    /\ ~ (SealBits \subseteq Factory)     \* a digest is not all 0xFF
ASSUME ImageAssumption ==
    /\ Signed # {}
    /\ Signed \cap Custom = {}
    /\ Blank \notin Images /\ Garbled \notin Images /\ NoImage \notin Images
    /\ Blank # Garbled /\ Blank # NoImage /\ Garbled # NoImage
ASSUME BoundAssumption == MaxFaults \in Nat /\ TornPages \in BOOLEAN

VARIABLES
    cmpa,      \* device: the one bits of the CMPA page
    flash,     \* device: contents of the user flash
    usb,       \* device: what it enumerates as
    secure,    \* device: a Secure part, whose bootrom blocks memory reads
    pc,        \* host: the next command of the operation, or "idle"
    pfr,       \* host: the CMPA backup the operation read or was given
    image,     \* host: the firmware the operation read or was given
    result,    \* host: how the last operation ended
    saved,     \* caller: every (pfr_yaml, firmware) pair an unlock returned
    faults     \* commands that failed so far

device == <<cmpa, flash, usb, secure>>
host   == <<pc, pfr, image, result>>
vars   == <<device, host, saved, faults>>

\* Mutant: unlock forgets to zero the digest.
ClearedMissesSeal(c) == c \ SbeBits

Cleared(c) == c \ (SbeBits \cup SealBits)

\* Mutant: find() looks for 1209:b000 only.
EnumeratesSoloOnly(u) == u = "bootloader"

\* 1209:b000, or the part's own ROM identity 1fc9:0021: find() takes both.
Enumerates(u) == u \in {"bootloader", "rom"}

\* wait_for_bootloader() knows 1209:b000 only.
Waits(u) == u = "bootloader"

\* Mutant: the test for blank flash is dropped.
ReadableBlank(f) == TRUE

Readable(f) == f # Blank

\* Mutant: the test for an all-0xFF seal is dropped.
ValidBackupNoBlankCheck(c) ==
    /\ c \cap SbeBits # {}
    /\ c \cap SealBits # {}

\* Mutant: a backup taken after an unlock passes, too.
ValidBackupUnlocked(c) == ~ (SealBits \subseteq c)

\* What relock_device demands of a backup before it opens the session.
ValidBackup(c) ==
    /\ c \cap SbeBits # {}
    /\ c \cap SealBits # {}
    /\ ~ (SealBits \subseteq c)
-----------------------------------------------------------------------------
(***************************************************************************)
(* The device, as far as lpc55_isp.py relies on it.                        *)
(***************************************************************************)
NorWrite(old, data) == old \cap data

\* Mutant: relock uses Flash Erase Region, which cannot reach the PFR.
ErasedCmpaRegionOnly(c) == c

ErasedCmpa(c) == CmpaBits

\* A sealed page is only accepted unmodified, and then wants signed firmware.
Bootable(c, f) ==
    /\ f \in Images
    /\ \/ ~ Locked(c)
       \/ c = Factory /\ f \in Signed

BootModes(c, f) ==
    IF Bootable(c, f) THEN {"firmware"} ELSE {"bootloader", "rom"}

\* Everything between a page and what a command would have made of it.
Between(low, high) ==
    IF TornPages THEN {c \in SUBSET high : low \subseteq c} ELSE {low, high}
-----------------------------------------------------------------------------
(***************************************************************************)
(* How an operation proceeds, returns and raises.                          *)
(***************************************************************************)
Raise ==
    /\ pc' = "idle" /\ result' = "error"
    /\ pfr' = {} /\ image' = NoImage
    /\ UNCHANGED saved

\* The command at hand fails, having left one of these pages and flashes.
Fails(pages, flashes) ==
    /\ faults < MaxFaults /\ faults' = faults + 1
    /\ cmpa' \in pages /\ flash' \in flashes
    /\ usb' \in {usb} \cup BootModes(cmpa', flash')
    /\ UNCHANGED secure
    /\ Raise

ReadFails == Fails({cmpa}, {flash})

\* find() raises when there is no device, or none of those it sees opens.
NoSession ==
    \/ ~ Enumerates(usb) /\ Raise /\ UNCHANGED <<device, faults>>
    \/ Enumerates(usb) /\ ReadFails

Goto(p) == pc' = p /\ UNCHANGED <<result, saved, faults>>

\* reset() swallows every error: the device may not have restarted.
Reset == usb' \in {usb} \cup BootModes(cmpa, flash)

\* Reboot, unless the device object says it already is in the bootloader: its
\* word may be stale.  What AdminSession.reboot raises is swallowed.
EnterBootloader(already) ==
    \/ already /\ UNCHANGED <<usb, faults>>
    \/ /\ ~ already
       /\ usb' = IF usb = "firmware" THEN "bootloader" ELSE usb
       /\ UNCHANGED faults
    \/ /\ ~ already
       /\ faults < MaxFaults /\ faults' = faults + 1
       /\ UNCHANGED usb
-----------------------------------------------------------------------------
(***************************************************************************)
(* disable_secure_boot                                                     *)
(***************************************************************************)
UnlockCall ==
    /\ pc = "idle"
    /\ \/ /\ Enumerates(usb)
          /\ pc' = "u_fw" /\ result' = "none"
          /\ pfr' = {} /\ image' = NoImage
          /\ UNCHANGED <<device, saved, faults>>
       \/ NoSession

\* A failed or blocked read, and blank flash, only cost the firmware backup.
UnlockReadFirmware ==
    /\ pc = "u_fw"
    /\ \/ /\ ~ secure /\ Readable(flash)
          /\ image' = flash /\ UNCHANGED faults
       \/ /\ secure \/ ~ Readable(flash)
          /\ image' = NoImage /\ UNCHANGED faults
       \/ /\ faults < MaxFaults /\ faults' = faults + 1
          /\ image' = NoImage
    /\ pc' = "u_cmpa"
    /\ UNCHANGED <<device, pfr, result, saved>>

UnlockReadCmpa ==
    /\ pc = "u_cmpa"
    /\ \/ /\ ~ secure
          /\ pfr' = cmpa
          /\ Goto(IF Locked(cmpa) THEN "u_write" ELSE "u_reset")
          /\ UNCHANGED <<device, image>>
       \/ /\ secure
          /\ Raise /\ UNCHANGED <<device, faults>>
       \/ ReadFails

UnlockWriteCmpa ==
    /\ pc = "u_write"
    /\ \/ /\ cmpa' = NorWrite(cmpa, Cleared(pfr))
          /\ Goto("u_reset")
          /\ UNCHANGED <<flash, usb, secure, pfr, image>>
       \/ Fails(Between(NorWrite(cmpa, Cleared(pfr)), cmpa), {flash})

\* The only step that hands the backup to the caller.
UnlockReset ==
    /\ pc = "u_reset"
    /\ Reset
    /\ pc' = "idle" /\ result' = "unlocked"
    /\ saved' = saved \cup {[pfr |-> pfr, fw |-> image]}
    /\ UNCHANGED <<cmpa, flash, secure, pfr, image, faults>>
-----------------------------------------------------------------------------
(***************************************************************************)
(* relock_device(pfr_yaml, firmware), for a backup b the caller kept; the  *)
(* caller may leave the firmware out (the default b"").                    *)
(***************************************************************************)
RelockBegins(page, fw) ==
    \/ /\ ValidBackup(page) /\ Enumerates(usb)
       /\ pc' = (IF fw = NoImage THEN "r_fw" ELSE "r_erase")
       /\ result' = "none" /\ pfr' = page /\ image' = fw
       /\ UNCHANGED <<device, saved, faults>>
    \/ /\ ~ ValidBackup(page)
       /\ Raise /\ UNCHANGED <<device, faults>>
    \/ ValidBackup(page) /\ NoSession

RelockCall(b, fw) ==
    /\ pc = "idle"
    /\ RelockBegins(b.pfr, fw)

\* relock_with_device: reboot, then wait, then relock_device.
RelockWithDevice(b, fw, already) ==
    /\ pc = "idle"
    /\ EnterBootloader(already)
    /\ pc' = "d_wait" /\ result' = "none"
    /\ pfr' = b.pfr /\ image' = fw
    /\ UNCHANGED <<cmpa, flash, secure, saved>>

RelockWait ==
    /\ pc = "d_wait"
    /\ \/ Waits(usb) /\ RelockBegins(pfr, image)
       \/ ~ Waits(usb) /\ Raise /\ UNCHANGED <<device, faults>>

RelockReadFirmware ==
    /\ pc = "r_fw"
    /\ \/ /\ ~ secure /\ Readable(flash)
          /\ image' = flash
          /\ Goto("r_erase")
          /\ UNCHANGED <<device, pfr>>
       \/ /\ secure \/ ~ Readable(flash)
          /\ Raise /\ UNCHANGED <<device, faults>>
       \/ ReadFails

RelockEraseAll ==
    /\ pc = "r_erase"
    /\ \/ /\ cmpa' = ErasedCmpa(cmpa) /\ flash' = Blank
          /\ Goto("r_flash")
          /\ UNCHANGED <<usb, secure, pfr, image>>
       \/ Fails(Between(cmpa, ErasedCmpa(cmpa)), {flash, Garbled, Blank})

RelockWriteFirmware ==
    /\ pc = "r_flash"
    /\ \/ /\ flash' = IF flash = Blank THEN image ELSE Garbled
          /\ Goto("r_cmpa")
          /\ UNCHANGED <<cmpa, usb, secure, pfr, image>>
       \/ Fails({cmpa}, {flash, Garbled, image})

RelockWriteCmpa ==
    /\ pc = "r_cmpa"
    /\ \/ /\ cmpa' = NorWrite(cmpa, pfr)
          /\ Goto("r_verify")
          /\ UNCHANGED <<flash, usb, secure, pfr, image>>
       \/ Fails(Between(NorWrite(cmpa, pfr), cmpa), {flash})

RelockVerify ==
    /\ pc = "r_verify"
    /\ \/ /\ ~ secure
          /\ cmpa \cap SbeBits = pfr \cap SbeBits
          /\ cmpa \cap SealBits # {}
          /\ Goto("r_reset")
          /\ UNCHANGED <<device, pfr, image>>
       \/ /\ \/ secure
             \/ cmpa \cap SbeBits # pfr \cap SbeBits
             \/ cmpa \cap SealBits = {}
          /\ Raise /\ UNCHANGED <<device, faults>>
       \/ ReadFails

RelockReset ==
    /\ pc = "r_reset"
    /\ Reset
    /\ pc' = "idle" /\ result' = "relocked"
    /\ UNCHANGED <<cmpa, flash, secure, pfr, image, saved, faults>>
-----------------------------------------------------------------------------
(***************************************************************************)
(* detect_variant(reset_after), check_variant_with_device(device) and      *)
(* write_flash(firmware)                                                   *)
(***************************************************************************)
Verdict == IF Locked(cmpa) THEN "Hacker (locked)" ELSE "Hacker (unlocked)"

\* Any read failure, a lost reply as well as a blocked read, reads "Secure".
VariantRead(resetAfter) ==
    /\ \/ ~ secure /\ result' = Verdict /\ UNCHANGED faults
       \/ secure /\ result' = "Secure" /\ UNCHANGED faults
       \/ faults < MaxFaults /\ faults' = faults + 1 /\ result' = "Secure"
    /\ IF resetAfter THEN Reset ELSE UNCHANGED usb
    /\ pc' = "idle" /\ pfr' = {} /\ image' = NoImage
    /\ UNCHANGED <<cmpa, flash, secure, saved>>

Probe(resetAfter) ==
    \/ Enumerates(usb) /\ VariantRead(resetAfter)
    \/ NoSession

DetectVariant(resetAfter) == pc = "idle" /\ Probe(resetAfter)

\* check_variant_with_device; "v_stay" leaves a device that already was in the
\* bootloader there.
CheckVariant(already) ==
    /\ pc = "idle"
    /\ EnterBootloader(already)
    /\ pc' = IF already THEN "v_stay" ELSE "v_return"
    /\ result' = "none" /\ pfr' = {} /\ image' = NoImage
    /\ UNCHANGED <<cmpa, flash, secure, saved>>

CheckVariantProbe ==
    /\ pc \in {"v_stay", "v_return"}
    /\ \/ Waits(usb) /\ Probe(pc = "v_return")
       \/ ~ Waits(usb) /\ Raise /\ UNCHANGED <<device, faults>>

WriteFlashCall(fw) ==
    /\ pc = "idle"
    /\ \/ /\ Enumerates(usb)
          /\ pc' = "w_erase" /\ result' = "none"
          /\ pfr' = {} /\ image' = fw
          /\ UNCHANGED <<device, saved, faults>>
       \/ NoSession

WriteFlashErase ==
    /\ pc = "w_erase"
    /\ \/ /\ flash' = Blank
          /\ Goto("w_write")
          /\ UNCHANGED <<cmpa, usb, secure, pfr, image>>
       \/ Fails({cmpa}, {flash, Garbled, Blank})

WriteFlashWrite ==
    /\ pc = "w_write"
    /\ \/ /\ flash' = IF flash = Blank THEN image ELSE Garbled
          /\ pc' = "idle" /\ result' = "written"
          /\ UNCHANGED <<cmpa, usb, secure, pfr, image, saved, faults>>
       \/ Fails({cmpa}, {flash, Garbled, image})
-----------------------------------------------------------------------------
(***************************************************************************)
(* The user, between operations.                                           *)
(***************************************************************************)
PowerCycle ==
    /\ pc = "idle"
    /\ usb' \in BootModes(cmpa, flash)
    /\ UNCHANGED <<cmpa, flash, secure, host, saved, faults>>

\* AdminSession.reboot(BOOTLOADER)
RebootToBootloader ==
    /\ pc = "idle"
    /\ usb = "firmware"
    /\ usb' = "bootloader"
    /\ UNCHANGED <<cmpa, flash, secure, host, saved, faults>>
-----------------------------------------------------------------------------
Init ==
    /\ cmpa = Factory /\ flash \in Signed /\ usb = "firmware"
    /\ secure \in BOOLEAN
    /\ pc = "idle" /\ pfr = {} /\ image = NoImage /\ result = "none"
    /\ saved = {} /\ faults = 0

Unlock ==
    \/ UnlockCall \/ UnlockReadFirmware \/ UnlockReadCmpa
    \/ UnlockWriteCmpa \/ UnlockReset

RelockStep ==
    \/ RelockWait \/ RelockReadFirmware \/ RelockEraseAll
    \/ RelockWriteFirmware \/ RelockWriteCmpa \/ RelockVerify
    \/ RelockReset

Relock ==
    \/ \E b \in saved : \E fw \in {b.fw, NoImage} :
          \/ RelockCall(b, fw)
          \/ \E already \in BOOLEAN : RelockWithDevice(b, fw, already)
    \/ RelockStep

WriteFlash ==
    \/ \E fw \in Images : WriteFlashCall(fw)
    \/ WriteFlashErase \/ WriteFlashWrite

Next ==
    \/ Unlock
    \/ Relock
    \/ \E resetAfter \in BOOLEAN : DetectVariant(resetAfter)
    \/ \E already \in BOOLEAN : CheckVariant(already)
    \/ CheckVariantProbe
    \/ WriteFlash
    \/ PowerCycle \/ RebootToBootloader

Spec == Init /\ [][Next]_vars

Restorable(b) == ValidBackup(b.pfr) /\ b.fw # NoImage

OperationStep ==
    \/ UnlockReadFirmware \/ UnlockReadCmpa \/ UnlockWriteCmpa \/ UnlockReset
    \/ RelockStep
    \/ CheckVariantProbe
    \/ WriteFlashErase \/ WriteFlashWrite

RetryRelock ==
    /\ Enumerates(usb)
    /\ \E b \in saved : Restorable(b) /\ RelockCall(b, b.fw)

\* An operation runs to its end; the user follows the error texts, which ask
\* to reboot to the bootloader and to try the relock again.
FairSpec ==
    /\ Spec
    /\ WF_vars(OperationStep)
    /\ SF_vars(RebootToBootloader)
    /\ SF_vars(RetryRelock)
-----------------------------------------------------------------------------
ControlPoints ==
    {"idle", "u_fw", "u_cmpa", "u_write", "u_reset", "r_fw", "r_erase",
     "r_flash", "r_cmpa", "r_verify", "r_reset", "d_wait", "v_stay",
     "v_return", "w_erase", "w_write"}

Backups == [pfr : SUBSET CmpaBits, fw : Images \cup {Garbled, NoImage}]

\* The type invariant; in particular blank flash never becomes a backup.
TypeOK ==
    /\ cmpa \subseteq CmpaBits
    /\ flash \in Images \cup {Blank, Garbled}
    /\ usb \in {"firmware", "bootloader", "rom"}
    /\ secure \in BOOLEAN
    /\ pc \in ControlPoints
    /\ pfr \subseteq CmpaBits
    /\ image \in Images \cup {Garbled, NoImage}
    /\ result \in {"none", "error", "unlocked", "relocked", "written",
                   "Secure", "Hacker (locked)", "Hacker (unlocked)"}
    /\ saved \subseteq Backups
    /\ faults \in 0..MaxFaults

\* NOR flash cannot set a bit: whenever the host is about to write the CMPA,
\* in unlock or in relock, every one bit it writes is still a one on the page.
CmpaWritesOnlyClear ==
    /\ pc = "u_write" => Cleared(pfr) \subseteq cmpa
    /\ pc = "r_cmpa" => pfr \subseteq cmpa

\* relock erases a page that no read can bring back.  Whenever the page is
\* neither the factory page nor the unlocked one, the caller holds a backup
\* of the factory page: nothing relock accepts as a backup is anything else.
ErasedIsRestorable ==
    cmpa \notin {Factory, Cleared(Factory)} =>
        \E b \in saved : b.pfr = Factory

\* A relock that returns has restored the factory page, not a page that only
\* passes its verification, and the firmware it was given or had read, whatever
\* unlocks and failures came before; the key then boots if that firmware is
\* signed, and only then.  What a relock takes for firmware when it is given
\* none is the question of RelocksSignedOrGiven.
RelockedExactly ==
    result = "relocked" =>
        /\ cmpa = Factory
        /\ flash = image
        /\ Bootable(cmpa, flash) <=> image \in Signed
        /\ \E b \in saved : b.pfr = cmpa

\* An unlock that returns has cleared the seal and SECURE_BOOT_EN and no other
\* bit of the page it returns as the backup, and left the firmware alone.
UnlockedExactly ==
    result = "unlocked" =>
        /\ ~ Locked(cmpa)
        /\ cmpa = Cleared(pfr)
        /\ [pfr |-> pfr, fw |-> image] \in saved
        /\ image \in {flash, NoImage}

\* A device that was unlocked with both backups in hand can always be locked
\* again by repeating the relock, however the attempts before it failed.
RelockConverges ==
    (\E b \in saved : Restorable(b)) ~> (result = "relocked")

\* disable_secure_boot reads "BEFORE modifying CMPA so the caller can save it":
\* an operation that leaves another page than the factory page behind has
\* handed the caller a copy of that page, even when it raised.
BackupBeforeModify ==
    pc = "idle" /\ cmpa # Factory => \E b \in saved : b.pfr = Factory

\* relock_device without a firmware argument reads it from flash, which "fails
\* if custom unsigned firmware is present": a relock that returns left signed
\* firmware, or the firmware of a backup the caller may have given.
RelocksSignedOrGiven ==
    result = "relocked" =>
        image \in Signed \/ \E b \in saved : b.fw = image

\* relock_with_device reports that the "bootloader device did not appear": with
\* a valid backup it raises only when there is no device that relock_device
\* would open, or the one there is fails to open.
MissesNoDevice ==
    [][RelockWait /\ ValidBackup(pfr) /\ result' = "error"
        => ~ Enumerates(usb) \/ faults' > faults]_vars
=============================================================================
