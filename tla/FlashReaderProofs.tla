-------------------------- MODULE FlashReaderProofs --------------------------
(***************************************************************************)
(* The loop finds contiguous firmware to the chunk and leaves the settings *)
(* pages out of it, for a flash, a chunk and a firmware of any size.       *)
(***************************************************************************)
EXTENDS FlashReader, TLAPS

\* What the loop knows: the chunks behind it, and why it stopped.
LoopInv ==
    /\ TypeOK
    /\ \A b \in programmed : b < offset => b < lastEnd
    /\ lastEnd > 0 => \E b \in programmed : b < lastEnd /\ lastEnd <= b + Chunk
    /\ \A o \in Starts : 0 < o /\ o < offset => ChunkAt(o) # {}
    /\ outcome = "reading" =>
        lastEnd = offset \/ (lastEnd = 0 /\ offset \in {0, Chunk})
    /\ outcome = "firmware" => lastEnd > 0
    /\ outcome = "blank" => lastEnd = 0
    /\ outcome \in {"firmware", "blank"} =>
        \/ offset = FlashMax
        \/ offset \in Starts /\ offset > 0 /\ ChunkAt(offset) = {}

\* The starts of the chunks are numbers, and after the last comes the end.
LEMMA StartsAreNat == FlashMax \in Nat /\ Starts \subseteq Nat
  BY ChunkAssumption, ChunksAssumption DEF Starts, FlashMax

\* The range of the loop begins at a chunk, if it has any.
LEMMA FirstStart == 0 \in Starts \cup {FlashMax}
<1>1. CASE Chunks = 0
  BY <1>1, ChunkAssumption DEF FlashMax
<1>2. CASE Chunks # 0
  <2>1. 0 \in 0..(Chunks - 1) /\ 0 = 0 * Chunk
    BY <1>2, ChunkAssumption, ChunksAssumption
  <2> QED
    BY <2>1 DEF Starts
<1> QED
  BY <1>1, <1>2

\* A chunk behind a start is the next start, or the range is at its end.
LEMMA NextStart ==
    ASSUME NEW o \in Starts
    PROVE  o + Chunk \in Starts \cup {FlashMax}
<1>1. PICK i \in 0..(Chunks - 1) : o = i * Chunk
  BY DEF Starts
<1>2. o + Chunk = (i + 1) * Chunk
  BY <1>1, ChunkAssumption, ChunksAssumption
<1>3. i + 1 \in 0..(Chunks - 1) \/ i + 1 = Chunks
  BY ChunksAssumption
<1> QED
  BY <1>2, <1>3 DEF Starts, FlashMax

\* Before the first chunk the loop knows nothing it should not.
LEMMA LoopInit == Init => LoopInv
<1> SUFFICES ASSUME Init PROVE LoopInv
  OBVIOUS
<1>1. TypeOK
  BY FirstStart DEF Init, TypeOK
<1>2. programmed \subseteq Nat
  BY StartsAreNat DEF Init, programmed
<1> QED
  BY <1>1, <1>2, StartsAreNat DEF Init, LoopInv

\* Every chunk, and every way out of the loop, keeps what it knows.
LEMMA LoopStep == LoopInv /\ [Next]_vars => LoopInv'
<1> SUFFICES ASSUME LoopInv, [Next]_vars PROVE LoopInv'
  OBVIOUS
<1> USE ChunkAssumption, StartsAreNat
<1>1. programmed \subseteq 0..(FlashMax - 1)
  BY DEF LoopInv, TypeOK, programmed
<1>2. offset \in Nat /\ lastEnd \in Nat
  BY DEF LoopInv, TypeOK
<1>3. CASE UNCHANGED <<flash, offset, lastEnd>> /\ outcome' = "error"
  <2>1. UNCHANGED <<firmware, settings, offset, lastEnd>>
    BY <1>3 DEF flash
  <2> QED
    BY <1>3, <2>1 DEF LoopInv, TypeOK, programmed, ChunkAt
<1>4. CASE ReadData
  <2>1. PICK b \in programmed : offset <= b /\ b < offset + Chunk
    BY <1>4 DEF ReadData, ChunkAt
  <2>2. offset \in Starts
    BY <1>4, <1>2 DEF ReadData, More, LoopInv, TypeOK
  <2>3. /\ lastEnd' = offset + Chunk /\ offset' = offset + Chunk
        /\ outcome = "reading" /\ outcome' = outcome
        /\ firmware' = firmware /\ settings' = settings
        /\ programmed' = programmed
    BY <1>4 DEF ReadData, More, EndOf, flash, programmed
  <2>4. TypeOK'
    BY <1>2, <2>2, <2>3, NextStart DEF LoopInv, TypeOK
  <2>5. \A o \in Starts : 0 < o /\ o < offset' => ChunkAt(o)' # {}
    <3> SUFFICES ASSUME NEW o \in Starts, 0 < o, o < offset + Chunk
                 PROVE  ChunkAt(o) # {}
      BY <2>3 DEF ChunkAt
    <3>1. CASE o < offset
      BY <3>1 DEF LoopInv
    <3>2. CASE o = offset
      BY <3>2, <1>4 DEF ReadData
    <3>3. CASE offset < o
      <4>1. PICK i \in 0..(Chunks - 1) : o = i * Chunk
        BY DEF Starts
      <4>2. PICK j \in 0..(Chunks - 1) : offset = j * Chunk
        BY <2>2 DEF Starts
      <4>3. i > j
        BY <3>3, <4>1, <4>2, ChunksAssumption
      <4>4. i >= j + 1
        BY <4>3, ChunksAssumption
      <4>5. i * Chunk >= (j + 1) * Chunk
        BY <4>4, ChunksAssumption
      <4>6. (j + 1) * Chunk = offset + Chunk
        BY <4>2, ChunksAssumption
      <4> QED
        BY <4>1, <4>5, <4>6, <1>2
    <3> QED
      BY <3>1, <3>2, <3>3, <1>2
  <2> QED
    BY <1>1, <1>2, <2>1, <2>3, <2>4, <2>5 DEF LoopInv
<1>5. CASE ReadBlank
  <2>1. offset \in Starts
    BY <1>5, <1>2 DEF ReadBlank, More, LoopInv, TypeOK
  <2>2. /\ lastEnd' = lastEnd /\ outcome = "reading"
        /\ firmware' = firmware /\ settings' = settings
        /\ programmed' = programmed
    BY <1>5 DEF ReadBlank, More, flash, programmed
  <2>3. CASE Stops(offset, lastEnd) /\ Conclude /\ UNCHANGED offset
    <3>1. offset > 0
      BY <1>2, <2>3 DEF Stops, LoopInv, TypeOK
    <3>2. TypeOK'
      BY <2>2, <2>3 DEF LoopInv, TypeOK, Conclude
    <3> QED
      BY <1>2, <1>5, <2>1, <2>2, <2>3, <3>1, <3>2
      DEF LoopInv, ReadBlank, Conclude, ChunkAt
  <2>4. CASE /\ ~ Stops(offset, lastEnd)
             /\ offset' = offset + Chunk /\ UNCHANGED outcome
    <3>1. lastEnd = 0 /\ offset = 0
      BY <1>2, <2>2, <2>4 DEF Stops, LoopInv
    <3>2. TypeOK'
      BY <1>2, <2>1, <2>2, <2>4, <3>1, NextStart DEF LoopInv, TypeOK
    <3>3. \A b \in programmed : ~ (b < Chunk)
      BY <1>1, <1>5, <3>1 DEF ReadBlank, ChunkAt
    <3>4. \A o \in Starts : ~ (0 < o /\ o < Chunk)
      <4> SUFFICES ASSUME NEW i \in 0..(Chunks - 1), 0 < i * Chunk
                   PROVE  i * Chunk >= Chunk
        BY DEF Starts
      <4>1. i >= 1
        BY ChunksAssumption
      <4> QED
        BY <4>1, ChunksAssumption
    <3> QED
      BY <1>1, <1>2, <2>2, <2>4, <3>1, <3>2, <3>3, <3>4 DEF LoopInv
  <2> QED
    BY <1>5, <2>3, <2>4 DEF ReadBlank
<1>6. CASE ReachEnd
  <2>1. /\ UNCHANGED <<firmware, settings, offset, lastEnd, programmed>>
        /\ offset = FlashMax
    BY <1>6 DEF ReachEnd, AtEnd, flash, programmed
  <2>2. TypeOK'
    BY <1>6, <2>1 DEF ReachEnd, Conclude, LoopInv, TypeOK
  <2> QED
    BY <1>2, <1>6, <2>1, <2>2 DEF ReachEnd, Conclude, LoopInv, ChunkAt
<1>7. CASE ReadFails
  BY <1>3, <1>7 DEF ReadFails
<1>8. CASE UNCHANGED vars
  BY <1>8 DEF vars, LoopInv, TypeOK, programmed, ChunkAt
<1> QED
  BY <1>4, <1>5, <1>6, <1>7, <1>8 DEF Next

\* What the loop knows holds throughout.
LEMMA LoopInvariance == Spec => []LoopInv
  BY LoopInit, LoopStep, PTL DEF Spec

\* A stop at a blank chunk has seen all there is of contiguous firmware.
LEMMA StopIsEnd ==
    ASSUME LoopInv, Contiguous, outcome \in {"firmware", "blank"},
           NEW b \in firmware
    PROVE  b < lastEnd
<1>1. b \in programmed /\ b \in Nat /\ b < FlashMax /\ offset \in Nat
  BY StartsAreNat DEF LoopInv, TypeOK, programmed
<1>2. b < offset
  <2>1. CASE offset = FlashMax
    BY <1>1, <2>1
  <2>2. CASE offset \in Starts /\ offset > 0 /\ ChunkAt(offset) = {}
    <3>1. ~ FirmwareIn(offset)
      BY <2>2 DEF FirmwareIn, ChunkAt, programmed
    <3> QED
      BY <1>1, <2>2, <3>1 DEF Contiguous
  <2> QED
    BY <2>1, <2>2 DEF LoopInv
<1> QED
  BY <1>1, <1>2 DEF LoopInv

\* The cursor and the end found so far stay inside flash, whatever is in it and
\* whichever chunk fails to be read.
THEOREM TypeCorrect == Spec => []TypeOK
<1>1. LoopInv => TypeOK
  BY DEF LoopInv
<1> QED
  BY <1>1, LoopInvariance, PTL

\* The firmware returned is all there is of contiguous firmware, and less than
\* one chunk beyond its last programmed block.
THEOREM ExtentCorrect == Spec => []ExtentToChunk
<1>1. LoopInv => ExtentToChunk
  BY StopIsEnd DEF LoopInv, ExtentToChunk
<1> QED
  BY <1>1, LoopInvariance, PTL

\* What is returned stops short of the settings pages when a blank chunk lies
\* before them.
THEOREM SettingsCorrect == Spec => []SettingsApart
<1>1. LoopInv => SettingsApart
  <2> SUFFICES ASSUME LoopInv, outcome = "firmware", Room
               PROVE  lastEnd <= Pfr
    BY DEF SettingsApart
  <2>1. PICK o \in Starts : o > 0 /\ o + Chunk <= Pfr /\ ~ FirmwareIn(o)
    BY DEF Room
  <2>2. ChunkAt(o) = {}
    <3> SUFFICES ASSUME NEW b \in ChunkAt(o) PROVE FALSE
      OBVIOUS
    <3>1. b \in programmed /\ o <= b /\ b < o + Chunk
      BY DEF ChunkAt
    <3>2. b \notin firmware
      BY <2>1, <3>1 DEF FirmwareIn
    <3>3. b \in settings
      BY <3>1, <3>2 DEF programmed
    <3>4. b \in Nat /\ b >= Pfr
      BY <3>3, StartsAreNat DEF LoopInv, TypeOK
    <3> QED
      BY <2>1, <3>1, <3>4, StartsAreNat, ChunkAssumption, PfrAssumption
  <2>3. ~ (o < offset)
    BY <2>1, <2>2 DEF LoopInv
  <2> QED
    BY <2>1, <2>3, StartsAreNat, ChunkAssumption, PfrAssumption
    DEF LoopInv, TypeOK
<1> QED
  BY <1>1, LoopInvariance, PTL

\* Flash that has contiguous firmware is never called blank.
THEOREM BlankCorrect == Spec => []BlankIsBlank
<1>1. LoopInv => BlankIsBlank
  <2> SUFFICES ASSUME LoopInv, outcome = "blank", Contiguous,
                      NEW b \in firmware
               PROVE  FALSE
    BY DEF BlankIsBlank
  <2>1. lastEnd = 0 /\ b \in Nat
    BY DEF LoopInv, TypeOK
  <2>2. b < lastEnd
    BY StopIsEnd
  <2> QED
    BY <2>1, <2>2
<1> QED
  BY <1>1, LoopInvariance, PTL
=============================================================================
