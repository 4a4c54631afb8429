------------------------------ MODULE Accounts ------------------------------
(***************************************************************************)
(* Users, roles and tokens (auth/routes.py, auth/dependencies.py,          *)
(* auth/security.py) and the admin that every new connection seeds         *)
(* (db/migrations.py).                                                     *)
(*                                                                         *)
(* get_auth_db is a synchronous dependency: FastAPI opens the connection   *)
(* of each request in a thread, where the migrations look for a user named *)
(* admin, hash the configured password and insert one.  The rest of a      *)
(* request to an endpoint of auth/routes.py, from the look-up of its token *)
(* to the commit, runs in the event loop without an await.  So these       *)
(* handlers exclude each other (loop), and every step of theirs            *)
(* interleaves with the threads.  The other endpoints look up the token,   *)
(* and then wait for threads, models and commands while requests pass.     *)
(***************************************************************************)
EXTENDS Naturals, FiniteSets

CONSTANTS
  Ids,            \* the ids uuid4 may give to an account
  Names,          \* user names
  Passwords,
  admin_password, \* config.py
  Requests        \* requests that may be under way at a time

Absent == [name |-> "", pw |-> "", role |-> ""]
Free   == "free"   \* nobody runs in the event loop

ASSUME AccountsAssumption ==
  /\ "admin" \in Names /\ "" \notin Names
  /\ admin_password \in Passwords
  /\ Free \notin Requests
  /\ IsFiniteSet(Ids) /\ IsFiniteSet(Names) /\ Cardinality(Ids) >= Cardinality(Names)

VARIABLES
  user,  \* user[i]: the row of the users table with id i
  token, \* the names ("sub") of the valid tokens clients hold
  req,   \* req[r]: one HTTP request
  loop   \* the request that has the event loop

vars == <<user, token, req, loop>>

-----------------------------------------------------------------------------
\* A role is any string: all but "admin" are alike.
Roles == {"admin", "user"}
Users == [name : Names, pw : Passwords, role : Roles]

\* "call" is any other endpoint behind get_current_user.
AdminKinds == {"create", "list", "delete"}
Kinds      == {"login", "call", "change"} \cup AdminKinds

\* sub is the name in the token the request carries, id the account it was let in as,
\* name the user it is about to create.
Idle == [pc |-> "idle", kind |-> "login", sub |-> "", id |-> "", name |-> ""]

RequestRecord ==
  [ pc : {"idle", "opening", "hashing", "ready", "serving", "authorized", "inserting"},
    kind : Kinds, sub : Names \cup {""}, id : Ids \cup {""}, name : Names \cup {""} ]

Exists(i) == user[i] # Absent
Named(n)  == {i \in Ids : Exists(i) /\ user[i].name = n}
Taken(n)  == Named(n) # {}

Init ==
  /\ user  = [i \in Ids |-> Absent]
  /\ token = {}
  /\ req   = [r \in Requests |-> Idle]
  /\ loop  = Free

\* The request is answered, whatever it was answered.
Answer(r) == req' = [req EXCEPT ![r] = Idle]

-----------------------------------------------------------------------------
(***************************************************************************)
(* The thread: create_connection, run_migrations, _create_auth_tables.     *)
(***************************************************************************)
Begin(r, kind, sub) ==
  /\ req[r].pc = "idle"
  /\ IF kind = "login" THEN sub = "" ELSE sub \in token
  /\ req' = [req EXCEPT ![r] = [Idle EXCEPT !.pc = "opening", !.kind = kind, !.sub = sub]]
  /\ UNCHANGED <<user, token, loop>>

\* SELECT ... WHERE username = 'admin'
LookForAdmin(r) ==
  /\ req[r].pc = "opening"
  /\ req' = [req EXCEPT ![r].pc = IF Taken("admin") THEN "ready" ELSE "hashing"]
  /\ UNCHANGED <<user, token, loop>>

\* Mutants: the constraint UNIQUE(username) is missing; an upsert; a role of the row only.
InsertAnyway(n, pw, role) ==
  \E i \in Ids : ~Exists(i) /\ user' = [user EXCEPT ![i] = [name |-> n, pw |-> pw, role |-> role]]
InsertOrReplace(n, pw, role) ==
  \E i \in Ids :
    /\ IF Taken(n) THEN i \in Named(n) ELSE ~Exists(i)
    /\ user' = [user EXCEPT ![i] = [name |-> n, pw |-> pw, role |-> role]]
InsertOwner(n, pw, role) ==
  /\ ~Taken(n)
  /\ \E i \in Ids :
       /\ ~Exists(i)
       /\ user' = [user EXCEPT ![i] = [name |-> n, pw |-> pw,
                                       role |-> IF n = "admin" THEN "owner" ELSE role]]

\* INSERT INTO users and the commit; enabled when the table's constraint permits it.
Insert(n, pw, role) ==
  /\ ~Taken(n)
  /\ \E i \in Ids :
       /\ ~Exists(i)
       /\ user' = [user EXCEPT ![i] = [name |-> n, pw |-> pw, role |-> role]]

\* Mutant: a refused insert waits for the name to be free.
SeedPatiently(r) ==
  /\ req[r].pc = "hashing"
  /\ Insert("admin", admin_password, "admin")
  /\ req' = [req EXCEPT ![r].pc = "ready"]
  /\ UNCHANGED <<token, loop>>

\* The password is hashed between the look-up and the insert: another thread, or the
\* create-user handler, may have inserted the name; then the request is answered 500.
SeedAdmin(r) ==
  /\ req[r].pc = "hashing"
  /\ \/ Insert("admin", admin_password, "admin") /\ req' = [req EXCEPT ![r].pc = "ready"]
     \/ Taken("admin") /\ Answer(r) /\ UNCHANGED user
  /\ UNCHANGED <<token, loop>>

-----------------------------------------------------------------------------
(***************************************************************************)
(* The event loop: get_current_user, get_current_admin_user, the handler.  *)
(***************************************************************************)
\* login: an unknown name and a wrong password are both 401.
Login(r) ==
  /\ req[r].pc = "ready" /\ req[r].kind = "login" /\ loop = Free
  /\ \E n \in Names, pw \in Passwords :
       token' = IF \E i \in Named(n) : user[i].pw = pw THEN token \cup {n} ELSE token
  /\ Answer(r)
  /\ UNCHANGED <<user, loop>>

\* The account is looked up by the name in the token (401), its role in its row (403).  A
\* handler of auth/routes.py goes on at once; any other endpoint first has the rest of its
\* dependencies resolved in threads.
Authenticate(r) ==
  /\ req[r].pc = "ready" /\ req[r].kind # "login" /\ loop = Free
  /\ \/ \E i \in Named(req[r].sub) :
          /\ req[r].kind \in AdminKinds => user[i].role = "admin"
          /\ \/ /\ req[r].kind = "call"
                /\ req' = [req EXCEPT ![r].pc = "serving", ![r].id = i] /\ UNCHANGED loop
             \/ /\ req[r].kind # "call"
                /\ req' = [req EXCEPT ![r].pc = "authorized", ![r].id = i] /\ loop' = r
     \/ /\ \A i \in Named(req[r].sub) : req[r].kind \in AdminKinds /\ user[i].role # "admin"
        /\ Answer(r)
        /\ UNCHANGED loop
  /\ UNCHANGED <<user, token>>

Authorized(r, kind) == loop = r /\ req[r].pc = "authorized" /\ req[r].kind = kind

\* The handlers of other routers write nothing here.
EndCall(r) ==
  /\ req[r].pc = "serving" /\ loop = Free
  /\ Answer(r)
  /\ UNCHANGED <<user, token, loop>>

\* list_users
ReadOnly(r) ==
  /\ Authorized(r, "list")
  /\ Answer(r) /\ loop' = Free
  /\ UNCHANGED <<user, token>>

\* Without the row of its own account the handler would raise, as it does when the old
\* password is wrong (400).
ChangePassword(r) ==
  LET i == req[r].id IN
  /\ Authorized(r, "change")
  /\ \E old, new \in Passwords :
       user' = IF Exists(i) /\ user[i].pw = old THEN [user EXCEPT ![i].pw = new] ELSE user
  /\ Answer(r) /\ loop' = Free
  /\ UNCHANGED token

\* create_user: the look-up (400), the hash, the insert.
CheckName(r) ==
  /\ Authorized(r, "create")
  /\ \E n \in Names :
       \/ Taken(n) /\ Answer(r) /\ loop' = Free
       \/ ~Taken(n) /\ req' = [req EXCEPT ![r].pc = "inserting", ![r].name = n] /\ UNCHANGED loop
  /\ UNCHANGED <<user, token>>

CreateUser(r) ==
  LET n == req[r].name IN
  /\ loop = r /\ req[r].pc = "inserting"
  /\ \/ \E pw \in Passwords, role \in Roles : Insert(n, pw, role)
     \/ Taken(n) /\ UNCHANGED user
  /\ Answer(r) /\ loop' = Free
  /\ UNCHANGED token

\* Mutant: also the own account.
DeleteAnyone(r) ==
  /\ Authorized(r, "delete")
  /\ \E i \in Ids : user' = [user EXCEPT ![i] = Absent]
  /\ Answer(r) /\ loop' = Free
  /\ UNCHANGED token

\* Mutant: the endpoint is a plain function and runs, with its checks, in a thread.
DeleteInThread(r) ==
  /\ req[r].kind = "delete"
  /\ \/ loop = r /\ req[r].pc = "authorized" /\ loop' = Free
     \/ req[r].pc = "ready" /\ UNCHANGED loop
  /\ \E i \in Ids :
       user' = IF \E a \in Named(req[r].sub) \ {i} : user[a].role = "admin"
               THEN [user EXCEPT ![i] = Absent] ELSE user
  /\ Answer(r)
  /\ UNCHANGED token

\* delete_user: not the own account (400); an id that is not there is no error.
DeleteUser(r) ==
  /\ Authorized(r, "delete")
  /\ \E i \in Ids : user' = IF i = req[r].id THEN user ELSE [user EXCEPT ![i] = Absent]
  /\ Answer(r) /\ loop' = Free
  /\ UNCHANGED token

-----------------------------------------------------------------------------
\* A token ends jwt_expiration_minutes after the login.
Expire(n) == n \in token /\ token' = token \ {n} /\ UNCHANGED <<user, req, loop>>

\* The process dies: requests are lost, what was not committed too; tokens stay valid.
Crash ==
  /\ req' = [r \in Requests |-> Idle] /\ loop' = Free
  /\ UNCHANGED <<user, token>>

Step(r) ==
  \/ LookForAdmin(r) \/ SeedAdmin(r)
  \/ Login(r) \/ Authenticate(r) \/ EndCall(r)
  \/ ReadOnly(r) \/ ChangePassword(r) \/ CheckName(r) \/ CreateUser(r) \/ DeleteUser(r)

Next ==
  \/ \E r \in Requests, kind \in Kinds, sub \in Names \cup {""} : Begin(r, kind, sub)
  \/ \E r \in Requests : Step(r)
  \/ \E n \in Names : Expire(n)
  \/ Crash

Spec == Init /\ [][Next]_vars

\* Threads and the event loop go on; the handlers of other endpoints wait for models, probes
\* and commands, which answer, fail or time out.  A request that is ready may wait for the
\* loop while others pass, so it needs strong fairness: the loop serves its queue in turn.
FairSpec ==
  /\ Spec
  /\ \A r \in Requests : WF_vars(Step(r)) /\ SF_vars(Login(r) \/ Authenticate(r) \/ EndCall(r))

-----------------------------------------------------------------------------
\* Type invariant: a row is whole or absent, a request carries what its step needs.
TypeOK ==
  /\ user \in [Ids -> Users \cup {Absent}]
  /\ token \in SUBSET Names
  /\ req \in [Requests -> RequestRecord]
  /\ loop \in Requests \cup {Free}

\* Nobody can lock everyone out: while there is any account there is one with the role
\* admin, although admins delete each other in requests that overlap, one of them under the
\* name the seed looks for (delete_user refuses the own account only).
AdminRemains == (\E i \in Ids : Exists(i)) => \E i \in Ids : Exists(i) /\ user[i].role = "admin"

\* From the check of the token to the end of a handler of auth/routes.py its account is
\* there, with the name of the token and, for the endpoints of admins, still with the role: no
\* such handler acts for an account another request has just deleted (so change_password
\* finds its row, and a deleted admin creates nobody).  The other endpoints have no such
\* guarantee: an analysis that is being served goes on after its user was deleted.
AuthorityHolds ==
  \A r \in Requests : req[r].pc \in {"authorized", "inserting"} =>
    /\ req[r].id \in Named(req[r].sub)
    /\ req[r].kind \in AdminKinds => user[req[r].id].role = "admin"

\* Names are unique, also when several threads found no admin on the first start and all of
\* them insert one, or one of them does while a handler creates that user.
OneUserPerName == \A n \in Names : \A i, j \in Named(n) : i = j

\* A row never changes but for its password, and only by a change-password request of that
\* account: neither the seed of a late connection nor a restart puts the default back.
ByItsOwner(i) ==
  \E r \in Requests : /\ loop = r /\ req[r].kind = "change" /\ req[r].id = i
                      /\ user'[i] = [user[i] EXCEPT !.pw = user'[i].pw]
RowsAreKept ==
  [][\A i \in Ids : user[i] # Absent /\ user'[i] \notin {Absent, user[i]} => ByItsOwner(i)]_vars

\* Every request is answered: the event loop is given back on every path.
EveryRequestEnds == \A r \in Requests : req[r].pc # "idle" ~> req[r].pc = "idle"
=============================================================================
