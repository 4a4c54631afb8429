------------------------------- MODULE Vault -------------------------------
(***************************************************************************)
(* The credentials of a tenant (vault/manager.py and the endpoints over    *)
(* it) and what the agents' commands get of them                           *)
(* (vault/credential_resolver.py): which credential is chosen for a        *)
(* command, what is injected for it, and as whom the command then runs.    *)
(*                                                                         *)
(* A credential is stored twice, as a hash to verify against and encrypted *)
(* for the agents, both under the secret of the server at that time.  A    *)
(* command's credential is resolved before the security gate is awaited,   *)
(* and the command starts after it; credentials change in between.         *)
(*                                                                         *)
(* Text is abstracted to its kind; hash and ciphertext to what they are    *)
(* made of.  The transactions of the vault are in KnowledgeStore, key      *)
(* files, gate and processes in Executor.                                  *)
(***************************************************************************)
EXTENDS Naturals, FiniteSets

CONSTANTS
  Names,       \* names of credentials
  Providers,   \* their providers, in lower case
  Values,      \* texts of credentials
  Kind,        \* Kind[v]: what the builders tell of the text v
  CLIs,        \* the command line tools that are called
  Secrets,     \* values of credential_secret
  Calls,       \* commands under way at a time
  MaxStores,   \* bound: credentials stored
  MaxRestarts  \* bound: restarts of the server

\* A complete service account key, an object with all keys of a provider, an object without
\* some of them, other JSON, a text with a colon, any other text.
Kinds == {"service_account", "principal", "object", "json", "pair", "text"}

ASSUME VaultAssumption ==
  /\ Kind \in [Values -> Kinds]
  /\ CLIs # {} /\ CLIs \subseteq {"gcloud", "aws", "az", "kubectl"}
  /\ Secrets # {}
  /\ MaxStores \in Nat /\ MaxRestarts \in Nat

VARIABLES
  rows,      \* the credentials table
  secret,    \* settings.credential_secret of the running server
  account,   \* the account gcloud is logged in as: the value that was activated, if any
  call,      \* call[c]: a command, from the choice of its credential to its end
  given,     \* history: given[n]: what the tenant stored last under n, if it is there
  overtaken, \* history: calls whose credential was rotated or deleted after it was chosen
  stores, restarts

vars == <<rows, secret, account, call, given, overtaken, stores, restarts>>

-----------------------------------------------------------------------------
\* Sets of at most one element stand for what may be missing (NULL, None).
Sealed == [secret : Secrets, value : Values]

\* created_at orders the rows; a row of a database older than encryption has no blob.
Row   == [name : Names, provider : Providers, hash : Sealed, blob : SUBSET Sealed, created_at : Nat]
Given == [provider : Providers, value : Values]

Forms == {"none", "key_file", "token", "keys", "half", "garbled", "config_file"}

CallRecord ==
  [ pc : {"idle", "resolved", "running"}, cli : CLIs, form : Forms, value : SUBSET Values,
    as : SUBSET Values ]

Idle == [pc |-> "idle", cli |-> CHOOSE cli \in CLIs : TRUE, form |-> "none", value |-> {},
         as |-> {}]

Hash(v) == [secret |-> secret, value |-> v]

Named(n) == {row \in rows : row.name = n}

\* A vault that is empty, or one of an old version with a credential that is only hashed.
Init ==
  /\ secret \in Secrets
  /\ account = {} /\ call = [c \in Calls |-> Idle] /\ overtaken = {}
  /\ stores = 0 /\ restarts = 0
  /\ \/ rows = {} /\ given = [n \in Names |-> {}]
     \/ \E n \in Names, p \in Providers, v \in Values :
          /\ rows = {[name |-> n, provider |-> p, hash |-> Hash(v), blob |-> {}, created_at |-> 0]}
          /\ given = [m \in Names |-> IF m = n THEN {[provider |-> p, value |-> v]} ELSE {}]

-----------------------------------------------------------------------------
(***************************************************************************)
(* CredentialManager.                                                      *)
(***************************************************************************)
\* What is stored under n is from now on "new"; calls that chose what it was are overtaken.
Change(n, new) ==
  /\ given' = [given EXCEPT ![n] = new]
  /\ overtaken' = overtaken \cup
       {c \in Calls : call[c].pc # "idle" /\ \E g \in given[n] : g.value \in call[c].value}
  /\ UNCHANGED <<secret, account, call, restarts>>

\* Mutant: without the UNIQUE index.
StoreAnyway(n, p, v) ==
  /\ stores < MaxStores
  /\ stores' = stores + 1
  /\ rows' = rows \cup {[name |-> n, provider |-> p, hash |-> Hash(v), blob |-> {Hash(v)},
                         created_at |-> stores + 1]}
  /\ Change(n, {[provider |-> p, value |-> v]})

\* The name must not exist (UNIQUE index, answered 409).
StoreCredential(n, p, v) ==
  /\ stores < MaxStores /\ Named(n) = {}
  /\ stores' = stores + 1
  /\ rows' = rows \cup {[name |-> n, provider |-> p, hash |-> Hash(v), blob |-> {Hash(v)},
                         created_at |-> stores + 1]}
  /\ Change(n, {[provider |-> p, value |-> v]})

\* Mutants: "re-hash with new value", and nothing else; only the ciphertext.
HashOnly(row, v) == [row EXCEPT !.hash = Hash(v)]
BlobOnly(row, v) == [row EXCEPT !.blob = {Hash(v)}]

Rotated(row, v) == [row EXCEPT !.hash = Hash(v), !.blob = {Hash(v)}]

\* Hash and ciphertext are replaced in one statement; provider and created_at stay.
RotateCredential(n, v) ==
  \E row \in Named(n) :
    /\ rows' = (rows \ {row}) \cup {Rotated(row, v)}
    /\ Change(n, {[provider |-> row.provider, value |-> v]})
    /\ UNCHANGED stores

DeleteCredential(n) ==
  /\ Named(n) # {}
  /\ rows' = rows \ Named(n)
  /\ Change(n, {})
  /\ UNCHANGED stores

\* verify_credential: the answer, nothing changes.
Verifies(n, v) == \E row \in Named(n) : row.hash = Hash(v)

\* _decrypt, which fails for what was encrypted under another secret.
Plaintext(row) == {sealed.value : sealed \in {b \in row.blob : b.secret = secret}}

-----------------------------------------------------------------------------
(***************************************************************************)
(* resolve_credentials.                                                    *)
(***************************************************************************)
ProviderMap ==
  [gcloud |-> {"gcp"}, aws |-> {"aws"}, az |-> {"azure"}, kubectl |-> {"kubernetes", "gcp"}]

\* list_credentials_with_plaintext skips what it cannot decrypt.
Available(cli) == {row \in rows : row.provider \in ProviderMap[cli] /\ Plaintext(row) # {}}

\* Mutant: without one for the tool, the newest there is.
PickedAny(cli) ==
  LET readable == {row \in rows : Plaintext(row) # {}} IN
  {row \in readable : \A other \in readable : other.created_at <= row.created_at}

\* pick_credential: the first one of the list, which has the newest first.
Picked(cli) ==
  {row \in Available(cli) : \A other \in Available(cli) : other.created_at <= row.created_at}

\* What build_env_for_<cli> makes of a text; "raises" is an exception it does not catch.
\* An AWS object without some keys falls through to the split at the first colon of the
\* JSON text; an Azure object without some keys is injected as far as it was read.
Injection(cli, kind) ==
  CASE cli = "gcloud" ->
         CASE kind = "service_account" -> "key_file"
           [] kind \in {"principal", "object"} -> "none"
           [] kind = "json" -> "raises"
           [] OTHER -> "token"
    [] cli = "aws" ->
         CASE kind \in {"principal", "pair"} -> "keys"
           [] kind \in {"service_account", "object"} -> "garbled"
           [] kind = "json" -> "raises"
           [] OTHER -> "none"
    [] cli = "az" ->
         CASE kind = "principal" -> "keys"
           [] kind \in {"service_account", "object"} -> "half"
           [] kind = "json" -> "raises"
           [] OTHER -> "none"
    [] cli = "kubectl" -> "config_file"

\* The builder runs before the gate; when it raises, the agent does, and nothing runs.
\* Without a credential the command runs with what the server has.
Resolve(c, cli) ==
  /\ call[c].pc = "idle"
  /\ \/ \E row \in Picked(cli) : \E v \in Plaintext(row) :
          LET form == Injection(cli, Kind[v]) IN
          /\ form # "raises"
          /\ call' = [call EXCEPT ![c] =
                        [Idle EXCEPT !.pc = "resolved", !.cli = cli, !.form = form,
                                     !.value = IF form = "none" THEN {} ELSE {v}]]
     \/ /\ Available(cli) = {}
        /\ call' = [call EXCEPT ![c] = [Idle EXCEPT !.pc = "resolved", !.cli = cli]]
  /\ UNCHANGED <<rows, secret, account, given, overtaken, stores, restarts>>

\* The gate let the command pass.  The prefix of a key file logs gcloud in, and nothing ever
\* logs it out; without anything injected gcloud runs as the account it has.  (That another
\* call may log in between prefix and command is in Executor.)
Start(c) ==
  LET logs_in == call[c].form = "key_file" IN
  /\ call[c].pc = "resolved"
  /\ account' = IF logs_in THEN call[c].value ELSE account
  /\ call' = [call EXCEPT ![c].pc = "running",
                          ![c].as = IF call[c].form = "none" /\ call[c].cli = "gcloud"
                                    THEN account ELSE call[c].value]
  /\ UNCHANGED <<rows, secret, given, overtaken, stores, restarts>>

\* The command ended, or the gate did not let it pass.
End(c) ==
  /\ call[c].pc # "idle"
  /\ call' = [call EXCEPT ![c] = Idle]
  /\ overtaken' = overtaken \ {c}
  /\ UNCHANGED <<rows, secret, account, given, stores, restarts>>

\* The server is restarted, perhaps with another secret: calls are lost, the table and the
\* configuration of gcloud stay.
Restart ==
  /\ restarts < MaxRestarts
  /\ restarts' = restarts + 1
  /\ secret' \in Secrets
  /\ call' = [c \in Calls |-> Idle] /\ overtaken' = {}
  /\ UNCHANGED <<rows, account, given, stores>>

Next ==
  \/ \E n \in Names, p \in Providers, v \in Values : StoreCredential(n, p, v)
  \/ \E n \in Names, v \in Values : RotateCredential(n, v)
  \/ \E n \in Names : DeleteCredential(n)
  \/ \E c \in Calls, cli \in CLIs : Resolve(c, cli)
  \/ \E c \in Calls : Start(c) \/ End(c)
  \/ Restart

Spec == Init /\ [][Next]_vars

-----------------------------------------------------------------------------
\* Type invariant: one row under a name, one newest row at most.
TypeOK ==
  /\ rows \in SUBSET Row
  /\ \A r, s \in rows : r.name = s.name \/ r.created_at = s.created_at => r = s
  /\ \A r \in rows : r.created_at <= stores /\ \A a, b \in r.blob : a = b
  /\ secret \in Secrets /\ account \in SUBSET Values
  /\ call \in [Calls -> CallRecord]
  /\ given \in [Names -> SUBSET Given]
  /\ overtaken \in SUBSET Calls
  /\ stores \in 0 .. MaxStores /\ restarts \in 0 .. MaxRestarts

\* What the server verifies is what the tenant stored last under the name, and if agents can
\* read anything there, they read the same: the two copies of a credential never disagree,
\* through rotations, restarts with another secret and back, and rows without a ciphertext.
VerifiedIsRead ==
  \A n \in Names, v \in Values :
    /\ Verifies(n, v) => \E g \in given[n] : g.value = v
    /\ \A row \in Named(n) : v \in Plaintext(row) => Verifies(n, v)

\* A command is given a value only if the tenant has it stored, for a provider of that tool,
\* unless it was rotated or deleted after the command's credential was chosen.
GivenIsHeld ==
  \A c \in Calls : call[c].pc # "idle" /\ c \notin overtaken =>
    \A v \in call[c].value :
      \E n \in Names : \E g \in given[n] :
        g.value = v /\ g.provider \in ProviderMap[call[c].cli]
=============================================================================
