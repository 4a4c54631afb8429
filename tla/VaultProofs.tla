---------------------------- MODULE VaultProofs ----------------------------
(***************************************************************************)
(* Proofs about Vault, for any names, providers, values, tools and secrets *)
(* and any number of calls, changes and restarts: the two copies of a      *)
(* credential agree with each other and with what the tenant stored, and   *)
(* commands are given what is stored.                                      *)
(***************************************************************************)
EXTENDS Vault, TLAPS

\* A row holds what the tenant stored last under its name, in both copies.
RowsHoldGiven ==
  \A row \in rows :
    /\ \E g \in given[row.name] : g.value = row.hash.value /\ g.provider = row.provider
    /\ \A sealed \in row.blob : sealed = row.hash

IInv == TypeOK /\ RowsHoldGiven /\ GivenIsHeld

-----------------------------------------------------------------------------
LEMMA IdleType == Idle \in CallRecord
BY VaultAssumption DEF Idle, CallRecord, Forms

LEMMA HashType ==
  ASSUME NEW v \in Values, secret \in Secrets
  PROVE  Hash(v) \in Sealed /\ Hash(v).value = v /\ Hash(v).secret = secret
BY DEF Hash, Sealed

\* An idle call is given nothing.
LEMMA IdleHolds == Idle.pc = "idle" /\ Idle.value = {}
BY DEF Idle

\* What a change of the vault does to the calls: those that go on undisturbed still hold what
\* is stored.
LEMMA ChangeHolds ==
  ASSUME TypeOK, GivenIsHeld, NEW n \in Names, NEW new \in SUBSET Given, Change(n, new)
  PROVE  /\ GivenIsHeld'
         /\ given' \in [Names -> SUBSET Given] /\ overtaken' \in SUBSET Calls
<1>1. given' \in [Names -> SUBSET Given] /\ overtaken' \in SUBSET Calls
  BY DEF Change, TypeOK
<1>2. SUFFICES ASSUME NEW c \in Calls, call'[c].pc # "idle", c \notin overtaken',
                      NEW v \in call'[c].value
               PROVE  \E m \in Names : \E g \in given'[m] :
                        g.value = v /\ g.provider \in ProviderMap[call'[c].cli]
  BY <1>1 DEF GivenIsHeld
<1>3. call' = call BY DEF Change
<1>4. c \notin overtaken BY <1>2 DEF Change
<1>5. PICK m \in Names : \E g \in given[m] :
        g.value = v /\ g.provider \in ProviderMap[call[c].cli]
  BY <1>2, <1>3, <1>4 DEF GivenIsHeld
<1>6. m # n BY <1>2, <1>3, <1>5 DEF Change
<1>7. given'[m] = given[m] BY <1>6 DEF Change, TypeOK
<1> QED BY <1>3, <1>5, <1>7

-----------------------------------------------------------------------------
LEMMA InitIInv == Init => IInv
<1> SUFFICES ASSUME Init PROVE IInv OBVIOUS
<1>1. secret \in Secrets /\ stores = 0 /\ restarts = 0 /\ account = {} /\ overtaken = {}
        /\ call = [c \in Calls |-> Idle]
  BY DEF Init
<1>2. call \in [Calls -> CallRecord] /\ GivenIsHeld
  BY <1>1, IdleType, IdleHolds DEF GivenIsHeld
<1>3. CASE rows = {} /\ given = [n \in Names |-> {}]
  BY <1>1, <1>2, <1>3, VaultAssumption DEF IInv, TypeOK, RowsHoldGiven
<1>4. CASE \E n \in Names, p \in Providers, v \in Values :
             /\ rows = {[name |-> n, provider |-> p, hash |-> Hash(v), blob |-> {},
                         created_at |-> 0]}
             /\ given = [m \in Names |-> IF m = n THEN {[provider |-> p, value |-> v]} ELSE {}]
  <2>1. PICK n \in Names, p \in Providers, v \in Values :
          /\ rows = {[name |-> n, provider |-> p, hash |-> Hash(v), blob |-> {},
                      created_at |-> 0]}
          /\ given = [m \in Names |-> IF m = n THEN {[provider |-> p, value |-> v]} ELSE {}]
    BY <1>4
  <2> DEFINE row == [name |-> n, provider |-> p, hash |-> Hash(v), blob |-> {},
                     created_at |-> 0]
  <2>2. Hash(v) \in Sealed /\ Hash(v).value = v BY <1>1, HashType
  <2>3. row \in Row BY <2>2 DEF Row
  <2>4. given \in [Names -> SUBSET Given] /\ given[n] = {[provider |-> p, value |-> v]}
    BY <2>1 DEF Given
  <2>5. rows = {row} BY <2>1
  <2>6. RowsHoldGiven
    <3> DEFINE g == [provider |-> p, value |-> v]
    <3>1. g \in given[row.name] /\ g.value = row.hash.value /\ g.provider = row.provider
      BY <2>2, <2>4
    <3>2. \A sealed \in row.blob : sealed = row.hash OBVIOUS
    <3> QED BY <2>5, <3>1, <3>2 DEF RowsHoldGiven
  <2>7. TypeOK BY <1>1, <1>2, <2>3, <2>4, <2>5, VaultAssumption DEF TypeOK
  <2> QED BY <1>2, <2>6, <2>7 DEF IInv
<1> QED BY <1>3, <1>4 DEF Init

-----------------------------------------------------------------------------
LEMMA StoreKeeps ==
  ASSUME IInv, NEW n \in Names, NEW p \in Providers, NEW v \in Values,
         StoreCredential(n, p, v)
  PROVE  IInv'
<1> DEFINE new == [provider |-> p, value |-> v]
           row == [name |-> n, provider |-> p, hash |-> Hash(v), blob |-> {Hash(v)},
                   created_at |-> stores + 1]
<1>1. TypeOK /\ RowsHoldGiven /\ GivenIsHeld BY DEF IInv
<1>2. /\ stores < MaxStores /\ Named(n) = {} /\ stores' = stores + 1
      /\ rows' = rows \cup {row} /\ Change(n, {new})
  BY DEF StoreCredential
<1>3. UNCHANGED <<secret, account, call, restarts>> BY <1>2 DEF Change
<1>4. {new} \in SUBSET Given BY DEF Given
<1>5. GivenIsHeld' /\ given' \in [Names -> SUBSET Given] /\ overtaken' \in SUBSET Calls
  BY <1>1, <1>2, <1>4, ChangeHolds
<1>6. Hash(v) \in Sealed /\ Hash(v).value = v BY <1>1, HashType DEF TypeOK
<1>7. stores \in Nat /\ MaxStores \in Nat /\ stores + 1 \in 0 .. MaxStores
  BY <1>1, <1>2, VaultAssumption DEF TypeOK
<1>8. row \in Row /\ row.name = n /\ row.created_at = stores + 1 /\ row.blob = {Hash(v)}
        /\ row.hash = Hash(v) /\ row.provider = p
  BY <1>6, <1>7 DEF Row
<1> HIDE DEF row
<1>9. \A r \in rows : r \in Row /\ r.name # n /\ r.created_at \in Nat /\ r.created_at <= stores
  BY <1>1, <1>2 DEF TypeOK, Named, Row
<1>10. \A r, s \in rows' : r.name = s.name \/ r.created_at = s.created_at => r = s
  BY <1>1, <1>2, <1>7, <1>8, <1>9 DEF TypeOK
<1>11. \A r \in rows' : r.created_at <= stores' /\ \A a, b \in r.blob : a = b
  BY <1>1, <1>2, <1>7, <1>8, <1>9 DEF TypeOK
<1>12. rows' \in SUBSET Row BY <1>2, <1>8, <1>9
<1>13. TypeOK'
  BY <1>1, <1>2, <1>3, <1>5, <1>7, <1>10, <1>11, <1>12 DEF TypeOK
<1>14. given'[n] = {new} /\ \A m \in Names : m # n => given'[m] = given[m]
  BY <1>1, <1>2 DEF Change, TypeOK
<1>15. ASSUME NEW r \in rows'
       PROVE  /\ \E g \in given'[r.name] : g.value = r.hash.value /\ g.provider = r.provider
              /\ \A sealed \in r.blob : sealed = r.hash
  <2>1. CASE r = row
    <3>1. new \in given'[r.name] /\ new.value = r.hash.value /\ new.provider = r.provider
      BY <1>6, <1>8, <1>14, <2>1
    <3>2. \A sealed \in r.blob : sealed = r.hash BY <1>8, <2>1
    <3> QED BY <3>1, <3>2
  <2>2. CASE r \in rows
    <3>1. r.name \in Names /\ r.name # n BY <1>9, <2>2 DEF Row
    <3> QED BY <1>1, <1>14, <2>2, <3>1 DEF RowsHoldGiven
  <2> QED BY <1>2, <2>1, <2>2
<1>16. RowsHoldGiven' BY <1>15 DEF RowsHoldGiven
<1> QED BY <1>5, <1>13, <1>16 DEF IInv

LEMMA RotateKeeps ==
  ASSUME IInv, NEW n \in Names, NEW v \in Values, RotateCredential(n, v)
  PROVE  IInv'
<1>1. TypeOK /\ RowsHoldGiven /\ GivenIsHeld BY DEF IInv
<1>2. PICK old \in Named(n) :
        /\ rows' = (rows \ {old}) \cup {Rotated(old, v)}
        /\ Change(n, {[provider |-> old.provider, value |-> v]})
        /\ UNCHANGED stores
  BY DEF RotateCredential
<1> DEFINE new == [provider |-> old.provider, value |-> v]
           row == Rotated(old, v)
<1>3. UNCHANGED <<secret, account, call, restarts>> BY <1>2 DEF Change
<1>4. old \in rows /\ old \in Row /\ old.name = n BY <1>1 DEF Named, TypeOK
<1>5. {new} \in SUBSET Given BY <1>4 DEF Given, Row
<1>6. GivenIsHeld' /\ given' \in [Names -> SUBSET Given] /\ overtaken' \in SUBSET Calls
  BY <1>1, <1>2, <1>5, ChangeHolds
<1>7. Hash(v) \in Sealed /\ Hash(v).value = v BY <1>1, HashType DEF TypeOK
<1>8. row \in Row /\ row.name = n /\ row.created_at = old.created_at /\ row.blob = {Hash(v)}
        /\ row.hash = Hash(v) /\ row.provider = old.provider
        /\ rows' = (rows \ {old}) \cup {row} /\ stores' = stores
  BY <1>2, <1>4, <1>7 DEF Row, Rotated
<1> HIDE DEF row
<1>9. \A r \in rows \ {old} : r.name # n /\ r.created_at # old.created_at
  BY <1>1, <1>4 DEF TypeOK
<1>10. \A r, s \in rows' : r.name = s.name \/ r.created_at = s.created_at => r = s
  BY <1>1, <1>2, <1>8, <1>9 DEF TypeOK
<1>11. \A r \in rows' : r.created_at <= stores' /\ \A a, b \in r.blob : a = b
  BY <1>1, <1>2, <1>4, <1>8 DEF TypeOK
<1>12. rows' \in SUBSET Row BY <1>1, <1>2, <1>8 DEF TypeOK
<1>13. TypeOK'
  BY <1>1, <1>2, <1>3, <1>6, <1>10, <1>11, <1>12 DEF TypeOK
<1>14. given'[n] = {new} /\ \A m \in Names : m # n => given'[m] = given[m]
  BY <1>1, <1>2 DEF Change, TypeOK
<1>15. ASSUME NEW r \in rows'
       PROVE  /\ \E g \in given'[r.name] : g.value = r.hash.value /\ g.provider = r.provider
              /\ \A sealed \in r.blob : sealed = r.hash
  <2>1. CASE r = row
    <3>1. new \in given'[r.name] /\ new.value = r.hash.value /\ new.provider = r.provider
      BY <1>7, <1>8, <1>14, <2>1
    <3>2. \A sealed \in r.blob : sealed = r.hash BY <1>8, <2>1
    <3> QED BY <3>1, <3>2
  <2>2. CASE r \in rows \ {old}
    <3>1. r.name \in Names /\ r.name # n BY <1>1, <1>9, <2>2 DEF Row, TypeOK
    <3> QED BY <1>1, <1>14, <2>2, <3>1 DEF RowsHoldGiven
  <2> QED BY <1>8, <2>1, <2>2
<1>16. RowsHoldGiven' BY <1>15 DEF RowsHoldGiven
<1> QED BY <1>6, <1>13, <1>16 DEF IInv

LEMMA DeleteKeeps ==
  ASSUME IInv, NEW n \in Names, DeleteCredential(n)
  PROVE  IInv'
<1>1. TypeOK /\ RowsHoldGiven /\ GivenIsHeld BY DEF IInv
<1>2. rows' = rows \ Named(n) /\ Change(n, {}) /\ UNCHANGED stores BY DEF DeleteCredential
<1>3. UNCHANGED <<secret, account, call, restarts>> BY <1>2 DEF Change
<1>4. GivenIsHeld' /\ given' \in [Names -> SUBSET Given] /\ overtaken' \in SUBSET Calls
  BY <1>1, <1>2, ChangeHolds
<1>5. TypeOK' BY <1>1, <1>2, <1>3, <1>4 DEF TypeOK
<1>6. \A m \in Names : m # n => given'[m] = given[m] BY <1>1, <1>2 DEF Change, TypeOK
<1>7. \A r \in rows' : r \in rows /\ r.name \in Names /\ r.name # n
  BY <1>1, <1>2 DEF Named, TypeOK, Row
<1>8. RowsHoldGiven' BY <1>1, <1>6, <1>7 DEF RowsHoldGiven
<1> QED BY <1>4, <1>5, <1>8 DEF IInv

-----------------------------------------------------------------------------
LEMMA InjectionType ==
  ASSUME NEW cli \in CLIs, NEW kind \in Kinds, Injection(cli, kind) # "raises"
  PROVE  Injection(cli, kind) \in Forms
<1>1. CASE cli = "gcloud" BY <1>1 DEF Injection, Forms, Kinds
<1>2. CASE cli = "aws" BY <1>2 DEF Injection, Forms, Kinds
<1>3. CASE cli = "az" BY <1>3 DEF Injection, Forms, Kinds
<1>4. CASE cli = "kubectl" BY <1>4 DEF Injection, Forms, Kinds
<1> QED BY <1>1, <1>2, <1>3, <1>4, VaultAssumption

\* What agents can read in a row is what the tenant stored.
LEMMA ReadIsGiven ==
  ASSUME TypeOK, RowsHoldGiven, NEW row \in rows, NEW v \in Plaintext(row)
  PROVE  /\ v \in Values /\ row.name \in Names /\ row.hash = Hash(v)
         /\ \E g \in given[row.name] : g.value = v /\ g.provider = row.provider
<1>1. row \in Row BY DEF TypeOK
<1>2. PICK sealed \in row.blob : sealed.secret = secret /\ sealed.value = v BY DEF Plaintext
<1>3. sealed \in Sealed /\ sealed = row.hash BY <1>1, <1>2 DEF Row, RowsHoldGiven
<1>4. row.hash.value = v BY <1>2, <1>3
<1>5. row.hash = Hash(v) BY <1>2, <1>3 DEF Sealed, Hash
<1> QED BY <1>1, <1>2, <1>3, <1>4, <1>5 DEF Row, Sealed, RowsHoldGiven

LEMMA ResolveKeeps ==
  ASSUME IInv, NEW c \in Calls, NEW cli \in CLIs, Resolve(c, cli)
  PROVE  IInv'
<1>1. TypeOK /\ RowsHoldGiven /\ GivenIsHeld BY DEF IInv
<1>2. UNCHANGED <<rows, secret, account, given, overtaken, stores, restarts>> BY DEF Resolve
<1>3. RowsHoldGiven' BY <1>1, <1>2 DEF RowsHoldGiven
<1>4. \A new \in CallRecord :
        /\ call' = [call EXCEPT ![c] = new]
        /\ new.cli = cli
        /\ \A v \in new.value : \E n \in Names : \E g \in given[n] :
             g.value = v /\ g.provider \in ProviderMap[cli]
        => IInv'
  <2> SUFFICES ASSUME NEW new \in CallRecord,
                      call' = [call EXCEPT ![c] = new], new.cli = cli,
                      \A v \in new.value : \E n \in Names : \E g \in given[n] :
                        g.value = v /\ g.provider \in ProviderMap[cli]
               PROVE  IInv'
    OBVIOUS
  <2>1. TypeOK' BY <1>1, <1>2 DEF TypeOK
  <2>2. call'[c] = new /\ \A d \in Calls : d # c => call'[d] = call[d] BY <1>1 DEF TypeOK
  <2>3. GivenIsHeld' BY <1>1, <1>2, <2>2 DEF GivenIsHeld
  <2> QED BY <1>3, <2>1, <2>3 DEF IInv
<1>5. CASE \E row \in Picked(cli) : \E v \in Plaintext(row) :
             LET form == Injection(cli, Kind[v]) IN
             /\ form # "raises"
             /\ call' = [call EXCEPT ![c] =
                           [Idle EXCEPT !.pc = "resolved", !.cli = cli, !.form = form,
                                        !.value = IF form = "none" THEN {} ELSE {v}]]
  <2>0. PICK row \in Picked(cli) : \E v \in Plaintext(row) :
          /\ Injection(cli, Kind[v]) # "raises"
          /\ call' = [call EXCEPT ![c] =
                        [Idle EXCEPT !.pc = "resolved", !.cli = cli,
                                     !.form = Injection(cli, Kind[v]),
                                     !.value = IF Injection(cli, Kind[v]) = "none"
                                               THEN {} ELSE {v}]]
    BY <1>5
  <2>1. PICK v \in Plaintext(row) :
          /\ Injection(cli, Kind[v]) # "raises"
          /\ call' = [call EXCEPT ![c] =
                        [Idle EXCEPT !.pc = "resolved", !.cli = cli,
                                     !.form = Injection(cli, Kind[v]),
                                     !.value = IF Injection(cli, Kind[v]) = "none"
                                               THEN {} ELSE {v}]]
    BY <2>0
  <2> DEFINE form == Injection(cli, Kind[v])
             new == [Idle EXCEPT !.pc = "resolved", !.cli = cli, !.form = form,
                                 !.value = IF form = "none" THEN {} ELSE {v}]
  <2>2. row \in rows /\ row.provider \in ProviderMap[cli] BY DEF Picked, Available
  <2>3. /\ v \in Values /\ row.name \in Names
        /\ \E g \in given[row.name] : g.value = v /\ g.provider = row.provider
    BY <1>1, <2>2, ReadIsGiven
  <2>4. form \in Forms BY <2>1, <2>3, InjectionType, VaultAssumption
  <2>5. call' = [call EXCEPT ![c] = new] BY <2>1
  <2> HIDE DEF form
  <2>6. new \in CallRecord /\ new.cli = cli /\ new.value \subseteq {v}
    BY <2>3, <2>4, IdleType DEF Idle, CallRecord
  <2> HIDE DEF new
  <2> QED BY <1>4, <2>2, <2>3, <2>5, <2>6
<1>6. CASE call' = [call EXCEPT ![c] = [Idle EXCEPT !.pc = "resolved", !.cli = cli]]
  <2> DEFINE new == [Idle EXCEPT !.pc = "resolved", !.cli = cli]
  <2>1. new \in CallRecord /\ new.cli = cli /\ new.value = {}
    BY IdleType DEF Idle, CallRecord
  <2> HIDE DEF new
  <2> QED BY <1>4, <1>6, <2>1 DEF new
<1> QED BY <1>5, <1>6 DEF Resolve

LEMMA StartKeeps ==
  ASSUME IInv, NEW c \in Calls, Start(c)
  PROVE  IInv'
<1>1. TypeOK /\ RowsHoldGiven /\ GivenIsHeld BY DEF IInv
<1>2. UNCHANGED <<rows, secret, given, overtaken, stores, restarts>> BY DEF Start
<1>3. RowsHoldGiven' BY <1>1, <1>2 DEF RowsHoldGiven
<1>4. call[c] \in CallRecord BY <1>1 DEF TypeOK
<1>5. account' \in SUBSET Values BY <1>1, <1>4 DEF Start, TypeOK, CallRecord
<1>6. /\ call'[c].pc = "running" /\ call'[c].cli = call[c].cli /\ call'[c].value = call[c].value
      /\ call'[c] \in CallRecord /\ call[c].pc = "resolved"
  BY <1>1, <1>4 DEF Start, TypeOK, CallRecord
<1>7. call' \in [Calls -> CallRecord] /\ \A d \in Calls : d # c => call'[d] = call[d]
  BY <1>1, <1>4, <1>6 DEF Start, TypeOK
<1>8. TypeOK' BY <1>1, <1>2, <1>5, <1>7 DEF TypeOK
<1>9. GivenIsHeld' BY <1>1, <1>2, <1>6, <1>7 DEF GivenIsHeld
<1> QED BY <1>3, <1>8, <1>9 DEF IInv

LEMMA EndKeeps ==
  ASSUME IInv, NEW c \in Calls, End(c)
  PROVE  IInv'
<1>1. TypeOK /\ RowsHoldGiven /\ GivenIsHeld BY DEF IInv
<1>2. UNCHANGED <<rows, secret, account, given, stores, restarts>> BY DEF End
<1>3. RowsHoldGiven' BY <1>1, <1>2 DEF RowsHoldGiven
<1>4. call'[c] = Idle /\ \A d \in Calls : d # c => call'[d] = call[d]
  BY <1>1 DEF End, TypeOK
<1>5. TypeOK' BY <1>1, <1>2, IdleType DEF End, TypeOK
<1>6. GivenIsHeld' BY <1>1, <1>2, <1>4, IdleHolds DEF End, GivenIsHeld
<1> QED BY <1>3, <1>5, <1>6 DEF IInv

LEMMA RestartKeeps ==
  ASSUME IInv, Restart
  PROVE  IInv'
<1>1. TypeOK /\ RowsHoldGiven BY DEF IInv
<1>2. UNCHANGED <<rows, account, given, stores>> /\ secret' \in Secrets
        /\ restarts' = restarts + 1 /\ restarts < MaxRestarts
        /\ call' = [c \in Calls |-> Idle] /\ overtaken' = {}
  BY DEF Restart
<1>3. RowsHoldGiven' BY <1>1, <1>2 DEF RowsHoldGiven
<1>4. restarts' \in 0 .. MaxRestarts BY <1>1, <1>2, VaultAssumption DEF TypeOK
<1>5. TypeOK' BY <1>1, <1>2, <1>4, IdleType DEF TypeOK
<1>6. GivenIsHeld' BY <1>2, IdleHolds DEF GivenIsHeld
<1> QED BY <1>3, <1>5, <1>6 DEF IInv

-----------------------------------------------------------------------------
LEMMA NextIInv == IInv /\ [Next]_vars => IInv'
<1> SUFFICES ASSUME IInv, [Next]_vars PROVE IInv' OBVIOUS
<1>1. CASE \E n \in Names, p \in Providers, v \in Values : StoreCredential(n, p, v)
  BY <1>1, StoreKeeps
<1>2. CASE \E n \in Names, v \in Values : RotateCredential(n, v) BY <1>2, RotateKeeps
<1>3. CASE \E n \in Names : DeleteCredential(n) BY <1>3, DeleteKeeps
<1>4. CASE \E c \in Calls, cli \in CLIs : Resolve(c, cli) BY <1>4, ResolveKeeps
<1>5. CASE \E c \in Calls : Start(c) BY <1>5, StartKeeps
<1>6. CASE \E c \in Calls : End(c) BY <1>6, EndKeeps
<1>7. CASE Restart BY <1>7, RestartKeeps
<1>8. CASE UNCHANGED vars
  BY <1>8 DEF vars, IInv, TypeOK, RowsHoldGiven, GivenIsHeld
<1> QED BY <1>1, <1>2, <1>3, <1>4, <1>5, <1>6, <1>7, <1>8 DEF Next

\* The vault, the calls and the configuration of gcloud are always what TypeOK says, in
\* particular there is one row under a name.
THEOREM TypeCorrect == Spec => []TypeOK
<1>1. IInv => TypeOK BY DEF IInv
<1> QED BY InitIInv, NextIInv, <1>1, PTL DEF Spec

\* verify_credential and what agents read never disagree, and both are what the tenant stored
\* last under the name.
THEOREM CopiesAgree == Spec => []VerifiedIsRead
<1>1. IInv => VerifiedIsRead
  <2> SUFFICES ASSUME IInv, NEW n \in Names, NEW v \in Values
               PROVE  /\ Verifies(n, v) => \E g \in given[n] : g.value = v
                      /\ \A row \in Named(n) : v \in Plaintext(row) => Verifies(n, v)
    BY DEF VerifiedIsRead
  <2>0. TypeOK /\ RowsHoldGiven BY DEF IInv
  <2>1. ASSUME NEW row \in Named(n), row.hash = Hash(v)
        PROVE  \E g \in given[n] : g.value = v
    BY <2>0, <2>1, HashType DEF Named, RowsHoldGiven, TypeOK
  <2>2. ASSUME NEW row \in Named(n), v \in Plaintext(row)
        PROVE  row.hash = Hash(v)
    BY <2>0, <2>2, ReadIsGiven DEF Named
  <2> QED BY <2>1, <2>2 DEF Verifies
<1> QED BY InitIInv, NextIInv, <1>1, PTL DEF Spec

\* A command is given only what its tenant has stored for the tool, unless that changed after
\* the choice.
THEOREM CommandsGetTheirs == Spec => []GivenIsHeld
<1>1. IInv => GivenIsHeld BY DEF IInv
<1> QED BY InitIInv, NextIInv, <1>1, PTL DEF Spec
=============================================================================
