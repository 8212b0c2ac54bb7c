--------------------------- MODULE MCFlashReader ---------------------------
(***************************************************************************)
(* Every layout of a flash of five chunks of two blocks, the settings      *)
(* beginning in the middle of the fourth as 0x9DE00 lies inside a chunk:   *)
(* a leading blank chunk, firmware, a gap, more firmware, a blank tail,    *)
(* firmware up to the settings.                                            *)
(***************************************************************************)
EXTENDS FlashReader
=============================================================================
