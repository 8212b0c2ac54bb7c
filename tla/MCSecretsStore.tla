--------------------------- MODULE MCSecretsStore ---------------------------
(***************************************************************************)
(* The HMAC slot and one more label, each with its twin, and one secret    *)
(* (SecretsStore.cfg); or the slot alone and two secrets, so that the old  *)
(* and the new secret differ (SecretsStoreSlot.cfg).                       *)
(***************************************************************************)
EXTENDS SecretsStore
=============================================================================
