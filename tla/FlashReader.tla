----------------------------- MODULE FlashReader -----------------------------
(***************************************************************************)
(* _read_firmware_from_flash (lpc55_isp.py): the loop that decides, chunk  *)
(* by chunk, where the firmware in flash ends.  unlock takes its backup    *)
(* with it, and relock without a firmware argument its image, just before  *)
(* it erases the flash.  Addresses and lengths count blocks of 512 bytes,  *)
(* the alignment of the docstring; the loop reads Chunk of them at a time. *)
(* A block is programmed when it has a byte other than 0xFF.  The range    *)
(* of the loop, FLASH_USER_MAX, takes in the settings pages (PFR) at the   *)
(* end of flash, which are programmed but no firmware.                     *)
(***************************************************************************)
EXTENDS Naturals

CONSTANTS
    Chunk,      \* blocks the loop reads at a time (8: 4 KB)
    Chunks,     \* chunks in FLASH_USER_MAX (160: 640 KB)
    Pfr         \* the first block of the settings pages (0x9DE00)

ASSUME ChunkAssumption == Chunk \in Nat \ {0}
ASSUME ChunksAssumption == Chunks \in Nat
ASSUME PfrAssumption == Pfr \in Nat

FlashMax == Chunks * Chunk

Starts == {i * Chunk : i \in 0..(Chunks - 1)}

VARIABLES
    firmware,     \* device: the programmed blocks below the settings
    settings,     \* device: the programmed blocks of the settings pages
    offset,       \* the next chunk to read
    lastEnd,      \* last_data_end: the end of the last chunk with data
    outcome       \* "reading", then "firmware", "blank" or "error"

flash == <<firmware, settings>>

vars == <<firmware, settings, offset, lastEnd, outcome>>

programmed == firmware \cup settings

ChunkAt(o) == {b \in programmed : o <= b /\ b < o + Chunk}

Init ==
    /\ firmware \in SUBSET {b \in 0..(FlashMax - 1) : b < Pfr}
    /\ settings \in SUBSET {b \in 0..(FlashMax - 1) : b >= Pfr}
    /\ offset = 0 /\ lastEnd = 0 /\ outcome = "reading"

\* The 1 KB minimum is below one chunk: only an extent of 0 falls short of it.
\* The padding to 512 bytes that follows adds nothing to whole chunks.
Conclude == outcome' = IF lastEnd = 0 THEN "blank" ELSE "firmware"

More == outcome = "reading" /\ offset < FlashMax

\* Mutant: the end of the data is put at the start of its last chunk.
EndBeforeChunk(o) == o

\* Mutant: it is put one chunk too far.
EndPastChunk(o) == o + 2 * Chunk

EndOf(o) == o + Chunk

ReadData ==
    /\ More /\ ChunkAt(offset) # {}
    /\ lastEnd' = EndOf(offset) /\ offset' = offset + Chunk
    /\ UNCHANGED <<flash, outcome>>

\* Mutant: one leading blank chunk is already taken for a blank flash.
StopsAtOnce(o, end) == TRUE

\* Mutant: a blank chunk ends the loop only when nothing was found before.
StopsOnlyBlank(o, end) == end = 0 /\ o >= Chunk

\* The first blank chunk after data, or the second from the start.
Stops(o, end) == end > 0 \/ o >= Chunk

ReadBlank ==
    /\ More /\ ChunkAt(offset) = {}
    /\ \/ /\ Stops(offset, lastEnd)
          /\ Conclude /\ UNCHANGED offset
       \/ /\ ~ Stops(offset, lastEnd)
          /\ offset' = offset + Chunk /\ UNCHANGED outcome
    /\ UNCHANGED <<flash, lastEnd>>

\* Mutant: running into the end of the user flash does not end the loop.
PastUserFlash(o) == o > FlashMax

AtEnd(o) == o = FlashMax

ReachEnd ==
    /\ outcome = "reading" /\ AtEnd(offset)
    /\ Conclude
    /\ UNCHANGED <<flash, offset, lastEnd>>

\* read_memory raises: Lpc55AccessDenied, which ends the loop.
ReadFails ==
    /\ More
    /\ outcome' = "error"
    /\ UNCHANGED <<flash, offset, lastEnd>>

Next == ReadData \/ ReadBlank \/ ReachEnd \/ ReadFails

Spec == Init /\ [][Next]_vars /\ WF_vars(Next)
-----------------------------------------------------------------------------
FirmwareIn(o) == \E b \in firmware : o <= b /\ b < o + Chunk

\* No chunk without firmware, but the first, has firmware behind it.
Contiguous ==
    \A o \in Starts :
        o = 0 \/ FirmwareIn(o) \/ (\A b \in firmware : b < o)

\* A whole chunk between the firmware and the settings is blank.
Room == \E o \in Starts : o > 0 /\ o + Chunk <= Pfr /\ ~ FirmwareIn(o)

\* The type invariant; the extent never runs ahead of what was read.
TypeOK ==
    /\ firmware \subseteq {b \in 0..(FlashMax - 1) : b < Pfr}
    /\ settings \subseteq {b \in 0..(FlashMax - 1) : b >= Pfr}
    /\ offset \in Starts \cup {FlashMax}
    /\ lastEnd \in Nat /\ lastEnd <= offset
    /\ outcome \in {"reading", "firmware", "blank", "error"}

\* Contiguous firmware is returned whole, and what is returned beyond the last
\* programmed block is less than a chunk.  It is not the extent of the
\* docstring (:209-211), to the last non-0xFF byte "padded to 512-byte
\* alignment": the code takes the end of the chunk of that byte (:226).
ExtentToChunk ==
    outcome = "firmware" /\ Contiguous =>
        /\ \A b \in firmware : b < lastEnd
        /\ \E b \in programmed : b < lastEnd /\ lastEnd <= b + Chunk

\* Nothing of the settings pages is ever taken for firmware, as long as one
\* blank chunk lies before them: "Stop immediately to avoid reading into PFR
\* area" (:228-230), whatever the gaps in the firmware.
SettingsApart == outcome = "firmware" /\ Room => lastEnd <= Pfr

\* Flash is called blank only when contiguous firmware is not there at all:
\* unlock then keeps no firmware backup, and relock refuses before erasing.
BlankIsBlank == outcome = "blank" /\ Contiguous => firmware = {}

\* The loop always comes to an answer.
Terminates == <>(outcome # "reading")
=============================================================================
