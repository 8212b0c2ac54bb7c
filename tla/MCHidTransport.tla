--------------------------- MODULE MCHidTransport ---------------------------
(***************************************************************************)
(* Two keys and three paths: a key can come back under a path of its own,  *)
(* a new one, or the other key's.                                          *)
(***************************************************************************)
EXTENDS HidTransport
=============================================================================
