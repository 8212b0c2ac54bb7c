-------------------------- MODULE SecureBootProofs --------------------------
(***************************************************************************)
(* Theorems about SecureBoot, for every CMPA layout, every set of images   *)
(* and any number of faults.                                               *)
(***************************************************************************)
EXTENDS SecureBoot, TLAPS

Relocking ==
    {"r_fw", "r_erase", "r_flash", "r_cmpa", "r_verify", "r_reset"}

Kept(p) == \E b \in saved : b.pfr = p

\* What each control point knows of the page, the flash and the locals.
StepInv ==
    /\ pc \in {"u_cmpa", "u_write", "u_reset"} => image \in {flash, NoImage}
    /\ pc \in {"r_erase", "r_flash", "w_erase", "w_write"} => image # NoImage
    /\ pc = "u_write" => pfr = cmpa
    /\ pc = "u_reset" => cmpa = Cleared(pfr)
    /\ pc = "d_wait" => Kept(pfr)
    /\ pc \in Relocking => ValidBackup(pfr) /\ Kept(pfr)
    /\ pc \in {"r_flash", "r_cmpa"} => cmpa = CmpaBits
    /\ pc = "r_flash" => flash = Blank
    /\ pc \in {"r_cmpa", "r_verify", "r_reset"} => flash = image
    /\ pc \in {"r_verify", "r_reset"} => cmpa = pfr

\* What the two successful returns leave behind.
ReturnInv ==
    /\ result \in {"unlocked", "relocked"} => pc = "idle"
    /\ result = "unlocked" =>
        /\ cmpa = Cleared(pfr)
        /\ [pfr |-> pfr, fw |-> image] \in saved
        /\ image \in {flash, NoImage}
    /\ result = "relocked" =>
        /\ cmpa = pfr /\ flash = image
        /\ ValidBackup(pfr) /\ Kept(pfr)

\* Without torn pages, the only pages there ever are.
Pages == {Factory, Cleared(Factory), CmpaBits, Cleared(CmpaBits)}

PageInv ==
    /\ cmpa \in Pages
    /\ pfr \in Pages \cup {{}}
    /\ pc \in {"u_write", "u_reset", "d_wait"} => pfr \in Pages
    /\ \A b \in saved : b.pfr \in Pages
    /\ ErasedIsRestorable

IInv == TypeOK /\ StepInv /\ ReturnInv
-----------------------------------------------------------------------------
\* A restarted device enumerates as one of the three modes.
LEMMA BootModesType ==
    ASSUME NEW c, NEW f
    PROVE  BootModes(c, f) \subseteq {"firmware", "bootloader", "rom"}
  BY DEF BootModes

\* Counting a fault stays within the bound.
LEMMA FaultCount ==
    ASSUME NEW n \in 0..MaxFaults, n < MaxFaults
    PROVE  n + 1 \in 0..MaxFaults
  BY BoundAssumption

\* A failed command keeps the types, whatever part of it was carried out.
LEMMA FailsType ==
    ASSUME TypeOK,
           NEW pages \in SUBSET SUBSET CmpaBits,
           NEW flashes \in SUBSET (Images \cup {Blank, Garbled}),
           Fails(pages, flashes)
    PROVE  TypeOK'
<1>1. usb' \in {"firmware", "bootloader", "rom"}
  BY BootModesType DEF TypeOK, Fails
<1>2. faults' \in 0..MaxFaults
  BY FaultCount DEF TypeOK, Fails
<1> QED
  BY <1>1, <1>2 DEF TypeOK, ControlPoints, Fails, Raise

\* A session that cannot be opened raises, and leaves page and flash alone.
LEMMA NoSessionRaises ==
    ASSUME NoSession
    PROVE  /\ pc' = "idle" /\ result' = "error"
           /\ pfr' = {} /\ image' = NoImage
           /\ cmpa' = cmpa /\ flash' = flash /\ saved' = saved
  BY DEF NoSession, ReadFails, Fails, Raise, device

\* It keeps the types.
LEMMA NoSessionType ==
    ASSUME TypeOK, NoSession
    PROVE  TypeOK'
<1>1. CASE ReadFails
  BY <1>1, FailsType DEF ReadFails, TypeOK
<1>2. CASE Raise /\ UNCHANGED <<device, faults>>
  BY <1>2 DEF TypeOK, ControlPoints, Raise, device
<1> QED
  BY <1>1, <1>2 DEF NoSession

\* Half-written pages are pages.
LEMMA BetweenType ==
    ASSUME NEW low \in SUBSET CmpaBits, NEW high \in SUBSET CmpaBits
    PROVE  Between(low, high) \in SUBSET SUBSET CmpaBits
  BY DEF Between

\* Every step keeps the types.
LEMMA TypeStep == TypeOK /\ StepInv /\ [Next]_vars => TypeOK'
<1> SUFFICES ASSUME TypeOK, StepInv, [Next]_vars PROVE TypeOK'
  OBVIOUS
<1>19. CASE UNCHANGED vars
  BY <1>19 DEF vars, device, host, TypeOK
<1> USE DEF TypeOK, ControlPoints
<1>1. CASE UnlockCall
  BY <1>1, NoSessionType DEF UnlockCall, device
<1>2. CASE UnlockReadFirmware
  <2>1. faults' \in 0..MaxFaults
    BY <1>2, FaultCount DEF UnlockReadFirmware
  <2>2. image' \in Images \cup {Garbled, NoImage}
    BY <1>2 DEF UnlockReadFirmware, Readable
  <2> QED
    BY <1>2, <2>1, <2>2 DEF UnlockReadFirmware, device
<1>3. CASE UnlockReadCmpa
  <2>1. CASE ReadFails
    BY <2>1, FailsType DEF ReadFails
  <2> QED
    BY <1>3, <2>1 DEF UnlockReadCmpa, Goto, Raise, device
<1>4. CASE UnlockWriteCmpa
  <2> DEFINE new == NorWrite(cmpa, Cleared(pfr))
  <2>1. new \in SUBSET CmpaBits
    BY DEF NorWrite
  <2>2. CASE Fails(Between(new, cmpa), {flash})
    BY <2>1, <2>2, FailsType, BetweenType
  <2> QED
    BY <1>4, <2>1, <2>2 DEF UnlockWriteCmpa, Goto
<1>5. CASE UnlockReset
  <2>1. [pfr |-> pfr, fw |-> image] \in Backups
    BY DEF Backups
  <2> QED
    BY <1>5, <2>1, BootModesType DEF UnlockReset, Reset
<1>6. ASSUME NEW b \in saved, NEW fw \in {b.fw, NoImage},
             RelockCall(b, fw)
      PROVE  TypeOK'
  BY <1>6, NoSessionType DEF RelockCall, RelockBegins, Raise, Backups, device
<1>7. CASE RelockReadFirmware
  <2>1. CASE ReadFails
    BY <2>1, FailsType DEF ReadFails
  <2> QED
    BY <1>7, <2>1 DEF RelockReadFirmware, Readable, Goto, Raise, device
<1>8. CASE RelockEraseAll
  <2>1. CASE Fails(Between(cmpa, ErasedCmpa(cmpa)), {flash, Garbled, Blank})
    BY <2>1, FailsType, BetweenType DEF ErasedCmpa
  <2> QED
    BY <1>8, <2>1 DEF RelockEraseAll, ErasedCmpa, Goto
<1>9. CASE RelockWriteFirmware
  <2>1. image \in Images \cup {Garbled}
    BY <1>9 DEF StepInv, RelockWriteFirmware
  <2>2. CASE Fails({cmpa}, {flash, Garbled, image})
    BY <2>1, <2>2, FailsType
  <2> QED
    BY <1>9, <2>1, <2>2 DEF RelockWriteFirmware, Goto
<1>10. CASE RelockWriteCmpa
  <2> DEFINE new == NorWrite(cmpa, pfr)
  <2>1. new \in SUBSET CmpaBits
    BY DEF NorWrite
  <2>2. CASE Fails(Between(new, cmpa), {flash})
    BY <2>1, <2>2, FailsType, BetweenType
  <2> QED
    BY <1>10, <2>1, <2>2 DEF RelockWriteCmpa, Goto
<1>11. CASE RelockVerify
  <2>1. CASE ReadFails
    BY <2>1, FailsType DEF ReadFails
  <2> QED
    BY <1>11, <2>1 DEF RelockVerify, Goto, Raise, device
<1>12. CASE RelockReset
  BY <1>12, BootModesType DEF RelockReset, Reset
<1>24. ASSUME NEW resetAfter \in BOOLEAN, Probe(resetAfter)
      PROVE  TypeOK'
  <2>1. CASE VariantRead(resetAfter)
    <3>1. usb' \in {"firmware", "bootloader", "rom"}
      BY <2>1, BootModesType DEF VariantRead, Reset
    <3>2. faults' \in 0..MaxFaults
      BY <2>1, FaultCount DEF VariantRead
    <3> QED
      BY <2>1, <3>1, <3>2 DEF VariantRead, Verdict
  <2> QED
    BY <1>24, <2>1, NoSessionType DEF Probe
<1>13. ASSUME NEW resetAfter \in BOOLEAN, DetectVariant(resetAfter)
      PROVE  TypeOK'
  BY <1>13, <1>24 DEF DetectVariant
<1>14. ASSUME NEW fw \in Images, WriteFlashCall(fw)
      PROVE  TypeOK'
  BY <1>14, NoSessionType DEF WriteFlashCall, device
<1>15. CASE WriteFlashErase
  <2>1. CASE Fails({cmpa}, {flash, Garbled, Blank})
    BY <2>1, FailsType
  <2> QED
    BY <1>15, <2>1 DEF WriteFlashErase, Goto
<1>16. CASE WriteFlashWrite
  <2>1. image \in Images \cup {Garbled}
    BY <1>16 DEF StepInv, WriteFlashWrite
  <2>2. CASE Fails({cmpa}, {flash, Garbled, image})
    BY <2>1, <2>2, FailsType
  <2> QED
    BY <1>16, <2>1, <2>2 DEF WriteFlashWrite
<1>17. CASE PowerCycle
  BY <1>17, BootModesType DEF PowerCycle, host
<1>18. CASE RebootToBootloader
  BY <1>18 DEF RebootToBootloader, host
<1>20. ASSUME NEW b \in saved, NEW fw \in {b.fw, NoImage},
              NEW already \in BOOLEAN, RelockWithDevice(b, fw, already)
       PROVE  TypeOK'
  <2>1. usb' \in {"firmware", "bootloader", "rom"} /\ faults' \in 0..MaxFaults
    BY <1>20, FaultCount DEF RelockWithDevice, EnterBootloader
  <2> QED
    BY <1>20, <2>1 DEF RelockWithDevice, Backups
<1>21. CASE RelockWait
  BY <1>21, NoSessionType DEF RelockWait, RelockBegins, Raise, device
<1>22. ASSUME NEW already \in BOOLEAN, CheckVariant(already)
       PROVE  TypeOK'
  <2>1. usb' \in {"firmware", "bootloader", "rom"} /\ faults' \in 0..MaxFaults
    BY <1>22, FaultCount DEF CheckVariant, EnterBootloader
  <2> QED
    BY <1>22, <2>1 DEF CheckVariant
<1>23. CASE CheckVariantProbe
  <2>1. CASE Probe(pc = "v_return")
    BY <2>1, <1>24
  <2> QED
    BY <1>23, <2>1 DEF CheckVariantProbe, Raise, device
<1> QED
  BY <1>1, <1>2, <1>3, <1>4, <1>5, <1>6, <1>7, <1>8, <1>9, <1>10,
     <1>11, <1>12, <1>13, <1>14, <1>15, <1>16, <1>17, <1>18, <1>19,
     <1>20, <1>21, <1>22, <1>23
     DEF Next, Unlock, Relock, RelockStep, WriteFlash

\* Every step leads to a control point whose facts hold.
LEMMA StepStep == TypeOK /\ StepInv /\ ReturnInv /\ [Next]_vars => StepInv'
<1> SUFFICES ASSUME TypeOK /\ StepInv /\ ReturnInv, [Next]_vars PROVE StepInv'
  OBVIOUS
<1> USE ImageAssumption
        DEF TypeOK, StepInv, ReturnInv, Relocking, Kept, Cleared, Locked,
            vars, device, host
<1>1. CASE UnlockCall
  BY <1>1, NoSessionRaises DEF UnlockCall
<1>2. CASE UnlockReadFirmware
  BY <1>2 DEF UnlockReadFirmware, Readable
<1>3. CASE UnlockReadCmpa
  BY <1>3 DEF UnlockReadCmpa, Goto, Raise, ReadFails, Fails
<1>4. CASE UnlockWriteCmpa
  BY <1>4 DEF UnlockWriteCmpa, Goto, Raise, Fails, Between, NorWrite
<1>5. CASE UnlockReset
  BY <1>5 DEF UnlockReset, Reset
<1>6. ASSUME NEW b \in saved, NEW fw \in {b.fw, NoImage},
             RelockCall(b, fw)
      PROVE  StepInv'
  BY <1>6, NoSessionRaises DEF RelockCall, RelockBegins, Raise
<1>7. CASE RelockReadFirmware
  BY <1>7 DEF RelockReadFirmware, Readable, Goto, Raise, ReadFails, Fails
<1>8. CASE RelockEraseAll
  BY <1>8 DEF RelockEraseAll, ErasedCmpa, Goto, Raise, Fails, Between
<1>9. CASE RelockWriteFirmware
  BY <1>9 DEF RelockWriteFirmware, Goto, Raise, Fails
<1>10. CASE RelockWriteCmpa
  BY <1>10 DEF RelockWriteCmpa, Goto, Raise, Fails, Between, NorWrite
<1>11. CASE RelockVerify
  BY <1>11 DEF RelockVerify, Goto, Raise, ReadFails, Fails
<1>12. CASE RelockReset
  BY <1>12 DEF RelockReset, Reset
<1>13. ASSUME NEW resetAfter \in BOOLEAN, DetectVariant(resetAfter)
      PROVE  StepInv'
  BY <1>13, NoSessionRaises DEF DetectVariant, Probe, VariantRead, Verdict
<1>14. ASSUME NEW fw \in Images, WriteFlashCall(fw)
      PROVE  StepInv'
  BY <1>14, NoSessionRaises DEF WriteFlashCall
<1>15. CASE WriteFlashErase
  BY <1>15 DEF WriteFlashErase, Goto, Raise, Fails
<1>16. CASE WriteFlashWrite
  BY <1>16 DEF WriteFlashWrite, Raise, Fails
<1>17. CASE PowerCycle
  BY <1>17 DEF PowerCycle
<1>18. CASE RebootToBootloader
  BY <1>18 DEF RebootToBootloader
<1>19. CASE UNCHANGED vars
  BY <1>19
<1>20. ASSUME NEW b \in saved, NEW fw \in {b.fw, NoImage},
              NEW already \in BOOLEAN, RelockWithDevice(b, fw, already)
       PROVE  StepInv'
  BY <1>20 DEF RelockWithDevice
<1>21. CASE RelockWait
  BY <1>21, NoSessionRaises DEF RelockWait, RelockBegins, Raise
<1>22. ASSUME NEW already \in BOOLEAN, CheckVariant(already)
       PROVE  StepInv'
  BY <1>22 DEF CheckVariant
<1>23. CASE CheckVariantProbe
  BY <1>23, NoSessionRaises
  DEF CheckVariantProbe, Probe, VariantRead, Verdict, Raise
<1> QED
  BY <1>1, <1>2, <1>3, <1>4, <1>5, <1>6, <1>7, <1>8, <1>9, <1>10,
     <1>11, <1>12, <1>13, <1>14, <1>15, <1>16, <1>17, <1>18, <1>19,
     <1>20, <1>21, <1>22, <1>23
     DEF Next, Unlock, Relock, RelockStep, WriteFlash

\* Every return leaves what its result says.
LEMMA ReturnStep == TypeOK /\ StepInv /\ ReturnInv /\ [Next]_vars => ReturnInv'
<1> SUFFICES ASSUME TypeOK /\ StepInv /\ ReturnInv, [Next]_vars
             PROVE  ReturnInv'
  OBVIOUS
<1> USE DEF TypeOK, StepInv, ReturnInv, Relocking, Kept, vars, device, host
<1>1. CASE UnlockCall
  BY <1>1, NoSessionRaises DEF UnlockCall
<1>2. CASE UnlockReadFirmware
  BY <1>2 DEF UnlockReadFirmware, Readable
<1>3. CASE UnlockReadCmpa
  BY <1>3 DEF UnlockReadCmpa, Goto, Raise, ReadFails, Fails
<1>4. CASE UnlockWriteCmpa
  BY <1>4 DEF UnlockWriteCmpa, Goto, Raise, Fails, Between, NorWrite
<1>5. CASE UnlockReset
  BY <1>5 DEF UnlockReset, Reset
<1>6. ASSUME NEW b \in saved, NEW fw \in {b.fw, NoImage},
             RelockCall(b, fw)
      PROVE  ReturnInv'
  BY <1>6, NoSessionRaises DEF RelockCall, RelockBegins, Raise
<1>7. CASE RelockReadFirmware
  BY <1>7 DEF RelockReadFirmware, Readable, Goto, Raise, ReadFails, Fails
<1>8. CASE RelockEraseAll
  BY <1>8 DEF RelockEraseAll, ErasedCmpa, Goto, Raise, Fails, Between
<1>9. CASE RelockWriteFirmware
  BY <1>9 DEF RelockWriteFirmware, Goto, Raise, Fails
<1>10. CASE RelockWriteCmpa
  BY <1>10 DEF RelockWriteCmpa, Goto, Raise, Fails, Between, NorWrite
<1>11. CASE RelockVerify
  BY <1>11 DEF RelockVerify, Goto, Raise, ReadFails, Fails
<1>12. CASE RelockReset
  BY <1>12 DEF RelockReset, Reset
<1>13. ASSUME NEW resetAfter \in BOOLEAN, DetectVariant(resetAfter)
      PROVE  ReturnInv'
  BY <1>13, NoSessionRaises DEF DetectVariant, Probe, VariantRead, Verdict
<1>14. ASSUME NEW fw \in Images, WriteFlashCall(fw)
      PROVE  ReturnInv'
  BY <1>14, NoSessionRaises DEF WriteFlashCall
<1>15. CASE WriteFlashErase
  BY <1>15 DEF WriteFlashErase, Goto, Raise, Fails
<1>16. CASE WriteFlashWrite
  BY <1>16 DEF WriteFlashWrite, Raise, Fails
<1>17. CASE PowerCycle
  BY <1>17 DEF PowerCycle
<1>18. CASE RebootToBootloader
  BY <1>18 DEF RebootToBootloader
<1>19. CASE UNCHANGED vars
  BY <1>19
<1>20. ASSUME NEW b \in saved, NEW fw \in {b.fw, NoImage},
              NEW already \in BOOLEAN, RelockWithDevice(b, fw, already)
       PROVE  ReturnInv'
  BY <1>20 DEF RelockWithDevice
<1>21. CASE RelockWait
  BY <1>21, NoSessionRaises DEF RelockWait, RelockBegins, Raise
<1>22. ASSUME NEW already \in BOOLEAN, CheckVariant(already)
       PROVE  ReturnInv'
  BY <1>22 DEF CheckVariant
<1>23. CASE CheckVariantProbe
  BY <1>23, NoSessionRaises
  DEF CheckVariantProbe, Probe, VariantRead, Verdict, Raise
<1> QED
  BY <1>1, <1>2, <1>3, <1>4, <1>5, <1>6, <1>7, <1>8, <1>9, <1>10,
     <1>11, <1>12, <1>13, <1>14, <1>15, <1>16, <1>17, <1>18, <1>19,
     <1>20, <1>21, <1>22, <1>23
     DEF Next, Unlock, Relock, RelockStep, WriteFlash

\* Of the four pages only the factory page passes relock's checks, and the
\* unlock of a page is a page.
LEMMA PagesClosed ==
    /\ \A c \in Pages \cup {{}} : ValidBackup(c) => c = Factory
    /\ \A c \in Pages : Cleared(c) \in Pages
    /\ \A c \in Pages : NorWrite(c, Cleared(c)) = Cleared(c)
    /\ Cleared(Cleared(Factory)) = Cleared(Factory)
    /\ NorWrite(CmpaBits, Factory) = Factory
    /\ ValidBackup(Factory)
<1>1. \A c : Cleared(Cleared(c)) = Cleared(c)
  BY DEF Cleared
<1>2. \A c \in Pages : Cleared(c) \in Pages
  BY <1>1 DEF Pages
<1>3. \A c : NorWrite(c, Cleared(c)) = Cleared(c)
  BY DEF NorWrite, Cleared
<1>4. NorWrite(CmpaBits, Factory) = Factory /\ ValidBackup(Factory)
  BY PageAssumption DEF NorWrite, ValidBackup
<1>5. \A c : ~ ValidBackup(Cleared(c))
  BY DEF ValidBackup, Cleared
<1>6. ~ ValidBackup(CmpaBits) /\ ~ ValidBackup({})
  BY PageAssumption DEF ValidBackup
<1> QED
  BY <1>1, <1>2, <1>3, <1>4, <1>5, <1>6 DEF Pages

\* A command that fails without touching the page keeps what is known of it.
LEMMA FailsPage ==
    ASSUME PageInv, NEW flashes, Fails({cmpa}, flashes)
    PROVE  PageInv'
  BY DEF PageInv, ErasedIsRestorable, Fails, Raise

\* No step tears a page, and only a page whose factory copy is saved is erased.
LEMMA PageStep ==
    ASSUME ~ TornPages, TypeOK, StepInv, PageInv, [Next]_vars
    PROVE  PageInv'
<1> USE DEF PageInv, ErasedIsRestorable
<1>1. CASE UnlockCall
  BY <1>1, NoSessionRaises DEF UnlockCall, device
<1>2. CASE UnlockReadFirmware
  BY <1>2 DEF UnlockReadFirmware, device
<1>3. CASE UnlockReadCmpa
  BY <1>3, FailsPage DEF UnlockReadCmpa, Goto, Raise, ReadFails, device
<1>4. CASE UnlockWriteCmpa
  <2>1. NorWrite(cmpa, Cleared(pfr)) = Cleared(cmpa)
    BY <1>4, PagesClosed DEF UnlockWriteCmpa, StepInv
  <2>2. cmpa' \in {Cleared(cmpa), cmpa} /\ saved' = saved
    BY <1>4, <2>1 DEF UnlockWriteCmpa, Goto, Fails, Raise, Between
  <2>3. IF pc' = "u_reset" THEN pfr' = pfr ELSE pfr' = {} /\ pc' = "idle"
    BY <1>4 DEF UnlockWriteCmpa, Goto, Fails, Raise
  <2>4. pfr \in Pages
    BY <1>4 DEF UnlockWriteCmpa
  <2> QED
    BY <2>2, <2>3, <2>4, PagesClosed
<1>5. CASE UnlockReset
  <2>1. pfr \in Pages
    BY <1>5 DEF UnlockReset
  <2> QED
    BY <1>5, <2>1 DEF UnlockReset
<1>6. ASSUME NEW b \in saved, NEW fw \in {b.fw, NoImage},
             RelockCall(b, fw)
      PROVE  PageInv'
  BY <1>6, NoSessionRaises DEF RelockCall, RelockBegins, Raise, device
<1>7. CASE RelockReadFirmware
  BY <1>7, FailsPage DEF RelockReadFirmware, Goto, Raise, ReadFails, device
<1>8. CASE RelockEraseAll
  <2>1. \E b \in saved : b.pfr = Factory
    BY <1>8, PagesClosed DEF RelockEraseAll, StepInv, Relocking, Kept
  <2>2. cmpa' \in {cmpa, CmpaBits} /\ saved' = saved
    BY <1>8 DEF RelockEraseAll, ErasedCmpa, Goto, Fails, Raise, Between
  <2>3. pfr' \in {pfr, {}} /\ pc' \in {"r_flash", "idle"}
    BY <1>8 DEF RelockEraseAll, Goto, Fails, Raise
  <2> QED
    BY <2>1, <2>2, <2>3 DEF Pages
<1>9. CASE RelockWriteFirmware
  BY <1>9, FailsPage DEF RelockWriteFirmware, Goto
<1>10. CASE RelockWriteCmpa
  <2>1. pfr = Factory /\ cmpa = CmpaBits
    BY <1>10, PagesClosed DEF RelockWriteCmpa, StepInv, Relocking
  <2>2. \E b \in saved : b.pfr = Factory
    BY <1>10, <2>1 DEF RelockWriteCmpa, StepInv, Relocking, Kept
  <2>3. cmpa' \in {CmpaBits, Factory} /\ saved' = saved
    BY <1>10, <2>1, PagesClosed
    DEF RelockWriteCmpa, Goto, Fails, Raise, Between
  <2>4. pfr' \in {pfr, {}} /\ pc' \in {"r_verify", "idle"}
    BY <1>10 DEF RelockWriteCmpa, Goto, Fails, Raise
  <2> QED
    BY <2>1, <2>2, <2>3, <2>4 DEF Pages
<1>11. CASE RelockVerify
  BY <1>11, FailsPage DEF RelockVerify, Goto, Raise, ReadFails, device
<1>12. CASE RelockReset
  BY <1>12 DEF RelockReset
<1>13. ASSUME NEW resetAfter \in BOOLEAN, DetectVariant(resetAfter)
      PROVE  PageInv'
  BY <1>13, NoSessionRaises DEF DetectVariant, Probe, VariantRead
<1>14. ASSUME NEW fw \in Images, WriteFlashCall(fw)
      PROVE  PageInv'
  BY <1>14, NoSessionRaises DEF WriteFlashCall, device
<1>15. CASE WriteFlashErase
  BY <1>15, FailsPage DEF WriteFlashErase, Goto
<1>16. CASE WriteFlashWrite
  BY <1>16, FailsPage DEF WriteFlashWrite
<1>17. CASE PowerCycle
  BY <1>17 DEF PowerCycle, host
<1>18. CASE RebootToBootloader
  BY <1>18 DEF RebootToBootloader, host
<1>19. CASE UNCHANGED vars
  BY <1>19 DEF vars, device, host
<1>20. ASSUME NEW b \in saved, NEW fw \in {b.fw, NoImage},
              NEW already \in BOOLEAN, RelockWithDevice(b, fw, already)
       PROVE  PageInv'
  BY <1>20 DEF RelockWithDevice
<1>21. CASE RelockWait
  BY <1>21, NoSessionRaises DEF RelockWait, RelockBegins, Raise, device
<1>22. ASSUME NEW already \in BOOLEAN, CheckVariant(already)
       PROVE  PageInv'
  BY <1>22 DEF CheckVariant
<1>23. CASE CheckVariantProbe
  BY <1>23, NoSessionRaises
  DEF CheckVariantProbe, Probe, VariantRead, Verdict, Raise, device
<1> QED
  BY <1>1, <1>2, <1>3, <1>4, <1>5, <1>6, <1>7, <1>8, <1>9, <1>10,
     <1>11, <1>12, <1>13, <1>14, <1>15, <1>16, <1>17, <1>18, <1>19,
     <1>20, <1>21, <1>22, <1>23
     DEF Next, Unlock, Relock, RelockStep, WriteFlash
-----------------------------------------------------------------------------
\* The types, the facts of each control point and what a return leaves behind
\* hold together, torn pages or not.
THEOREM Invariance == Spec => []IInv
<1>1. Init => IInv
  <2> SUFFICES ASSUME Init PROVE IInv
    OBVIOUS
  <2>1. 0 \in 0..MaxFaults
    BY BoundAssumption
  <2>2. TypeOK
    BY <2>1, PageAssumption DEF Init, TypeOK, ControlPoints, Images
  <2>3. StepInv /\ ReturnInv
    BY DEF Init, StepInv, ReturnInv, Relocking
  <2> QED
    BY <2>2, <2>3 DEF IInv
<1>2. IInv /\ [Next]_vars => IInv'
  BY TypeStep, StepStep, ReturnStep DEF IInv
<1> QED
  BY <1>1, <1>2, PTL DEF Spec

\* With whole pages, only the four pages ever occur.
LEMMA PageInvariance == ASSUME ~ TornPages PROVE Spec => []PageInv
<1>1. Init => PageInv
  BY DEF Init, PageInv, ErasedIsRestorable, Pages
<1>2. IInv /\ PageInv /\ [Next]_vars => PageInv'
  BY PageStep DEF IInv
<1> QED
  BY <1>1, <1>2, Invariance, PTL DEF Spec

\* Types, for every page layout: in particular no backup ever holds the blank
\* flash for firmware.
THEOREM TypeCorrect == Spec => []TypeOK
<1>1. IInv => TypeOK
  BY DEF IInv
<1> QED
  BY <1>1, Invariance, PTL

\* The host never asks NOR flash to set a bit, even after torn writes.
THEOREM WritesOnlyClear == Spec => []CmpaWritesOnlyClear
<1>1. IInv => CmpaWritesOnlyClear
  BY DEF IInv, StepInv, TypeOK, CmpaWritesOnlyClear, Cleared
<1> QED
  BY <1>1, Invariance, PTL

\* A returned unlock cleared exactly the lock bits of the backup it returned.
THEOREM UnlockExact == Spec => []UnlockedExactly
<1>1. IInv => UnlockedExactly
  BY DEF IInv, ReturnInv, UnlockedExactly, Cleared, Locked
<1> QED
  BY <1>1, Invariance, PTL

\* With whole pages, a returned relock has restored the factory page and the
\* firmware it worked on, and the key boots exactly if that is signed.
THEOREM RelockExact == ASSUME ~ TornPages PROVE Spec => []RelockedExactly
<1>1. IInv /\ PageInv => RelockedExactly
  <2>1. Locked(Factory)
    BY PageAssumption DEF Locked
  <2> QED
    BY <2>1, PagesClosed
    DEF IInv, PageInv, ReturnInv, RelockedExactly, Kept, Bootable, Images
<1> QED
  BY <1>1, Invariance, PageInvariance, PTL

\* The page is erased only while the caller holds a copy of the factory page.
THEOREM EraseRestorable ==
    ASSUME ~ TornPages PROVE Spec => []ErasedIsRestorable
<1>1. PageInv => ErasedIsRestorable
  BY DEF PageInv
<1> QED
  BY <1>1, PageInvariance, PTL
=============================================================================
