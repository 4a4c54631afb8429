---------------------------- MODULE VaultClaims ----------------------------
(***************************************************************************)
(* A sentence of the documents about credentials that the code does not    *)
(* keep.                                                                   *)
(***************************************************************************)
EXTENDS Vault

\* src/PRD_main_vB1.2.md:310: "The platform itself has no standing access to tenant
\* infrastructure - all access is mediated through tenant-supplied credentials at runtime."
\* A command that starts runs as a value its tenant has stored, or was given, or as nobody;
\* but gcloud stays logged in with a key that was deleted.
NoStandingAccess ==
  \A c \in Calls : call[c].pc = "running" /\ c \notin overtaken =>
    \A v \in call[c].as : \E n \in Names : \E g \in given[n] : g.value = v
=============================================================================
