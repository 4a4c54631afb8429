------------------------------ MODULE MCVault ------------------------------
(***************************************************************************)
(* Values for model checking Vault: a service account key and an AWS        *)
(* object without one of its keys.                                         *)
(***************************************************************************)
EXTENDS VaultClaims

MCKind == [v \in Values |-> IF v = "key" THEN "service_account" ELSE "object"]
=============================================================================
