----------------------------- MODULE MCMcuBoot -----------------------------
(***************************************************************************)
(* Up to four commands of three packets: enough for a late answer to reach *)
(* the next command, and that command's answer the one after.              *)
(***************************************************************************)
EXTENDS McuBoot
=============================================================================
