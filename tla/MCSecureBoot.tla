---------------------------- MODULE MCSecureBoot ----------------------------
(***************************************************************************)
(* Constants for SecureBoot: a CMPA page of five bits.  SECURE_BOOT_EN and *)
(* the seal have two each, so that either can be half set, and one setting *)
(* must survive.  The factory page sets one bit of each pair.              *)
(***************************************************************************)
EXTENDS SecureBoot

MC_Sbe == {"sbe0", "sbe1"}
MC_Seal == {"seal0", "seal1"}
MC_CmpaBits == MC_Sbe \cup MC_Seal \cup {"cfg"}
MC_Factory == {"sbe0", "seal0", "cfg"}
=============================================================================
