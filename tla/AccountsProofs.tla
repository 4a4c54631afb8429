--------------------------- MODULE AccountsProofs ---------------------------
(***************************************************************************)
(* Theorems about Accounts, for any sets of ids, names, passwords and      *)
(* requests.                                                               *)
(***************************************************************************)
EXTENDS Accounts, TLAPS

\* A request to auth/routes.py between its check and the end of its handler has the event
\* loop; this is what makes AuthorityHolds survive the deletions of other requests.
LoopHeld == \A r \in Requests :
  /\ req[r].pc \in {"authorized", "inserting"} => loop = r
  /\ req[r].pc = "inserting" => req[r].name \in Names

IInv == TypeOK /\ LoopHeld /\ AuthorityHolds /\ AdminRemains /\ OneUserPerName

-----------------------------------------------------------------------------
\* A row of the table is not the absent one.
LEMMA RowExists ==
  ASSUME NEW u \in Users PROVE u # Absent /\ u.name \in Names
<1>1. u.name \in Names /\ Absent.name = ""
  BY DEF Users, Absent
<1> QED BY <1>1, AccountsAssumption

\* What an insert does: the rows that are there stay as they are, one is added.
LEMMA InsertAdds ==
  ASSUME TypeOK, OneUserPerName, NEW n \in Names, NEW pw \in Passwords, NEW role \in Roles,
         Insert(n, pw, role)
  PROVE  /\ user' \in [Ids -> Users \cup {Absent}]
         /\ \A i \in Ids : Exists(i) => user'[i] = user[i]
         /\ OneUserPerName'
         /\ \E i \in Ids : user'[i] # Absent /\ user'[i].role = role
         /\ \A i \in Ids : user[i] # Absent => user'[i] = user[i]
<1>1. PICK k \in Ids : /\ ~Exists(k)
                       /\ user' = [user EXCEPT ![k] = [name |-> n, pw |-> pw, role |-> role]]
  BY DEF Insert
<1> DEFINE new == [name |-> n, pw |-> pw, role |-> role]
<1>2. new \in Users /\ new # Absent /\ new.name = n /\ new.role = role
  BY RowExists DEF Users, Roles
<1>3. user \in [Ids -> Users \cup {Absent}]
  BY DEF TypeOK
<1>4. user'[k] = new /\ \A i \in Ids \ {k} : user'[i] = user[i]
  BY <1>1, <1>3
<1>5. user' \in [Ids -> Users \cup {Absent}]
  BY <1>1, <1>2, <1>3
<1>6. \A i \in Ids : Exists(i) => user'[i] = user[i]
  BY <1>1, <1>4
<1>7. OneUserPerName'
  <2> SUFFICES ASSUME NEW m \in Names, NEW i \in Ids, NEW j \in Ids,
                      user'[i] # Absent, user'[i].name = m, user'[j] # Absent, user'[j].name = m
               PROVE  i = j
    BY DEF OneUserPerName, Named, Exists
  <2>1. \A h \in Ids : ~(user[h] # Absent /\ user[h].name = n)
    BY DEF Insert, Taken, Named, Exists
  <2>2. CASE i = k /\ j # k
    BY <1>2, <1>4, <2>1, <2>2
  <2>3. CASE j = k /\ i # k
    BY <1>2, <1>4, <2>1, <2>3
  <2>4. CASE i # k /\ j # k
    <3>1. i \in Named(m) /\ j \in Named(m)
      BY <1>4, <2>4 DEF Named, Exists
    <3> QED BY <3>1 DEF OneUserPerName
  <2> QED BY <2>2, <2>3, <2>4
<1> QED BY <1>2, <1>4, <1>5, <1>6, <1>7 DEF Exists

-----------------------------------------------------------------------------
(* What a request is after it was answered, and what that leaves of the others. *)
LEMMA AnswerTypes ==
  ASSUME NEW r \in Requests, req \in [Requests -> RequestRecord], Answer(r)
  PROVE  /\ req' \in [Requests -> RequestRecord]
         /\ req'[r] = Idle
         /\ \A o \in Requests \ {r} : req'[o] = req[o]
BY DEF Answer, Idle, RequestRecord, Kinds, AdminKinds

LEMMA IdlePc == Idle.pc = "idle"
BY DEF Idle

\* Steps that leave the table alone: a request is answered or moves to a step before its
\* check, and the loop is freed only by the one that had it.
LEMMA QuietStep ==
  ASSUME IInv, UNCHANGED user, token' \in SUBSET Names, NEW r \in Requests,
         req' \in [Requests -> RequestRecord],
         \A o \in Requests \ {r} : req'[o] = req[o],
         req'[r].pc \notin {"authorized", "inserting"},
         \/ loop' = loop
         \/ loop = r /\ loop' = Free
  PROVE  IInv'
<1>1. TypeOK'
  BY DEF IInv, TypeOK
<1>2. LoopHeld'
  BY DEF IInv, LoopHeld
<1>3. AuthorityHolds'
  BY DEF IInv, AuthorityHolds, Named, Exists
<1>4. AdminRemains' /\ OneUserPerName'
  BY DEF IInv, AdminRemains, OneUserPerName, Named, Exists
<1> QED BY <1>1, <1>2, <1>3, <1>4 DEF IInv

\* Steps that add a row, or none, and answer or move a request that is not checked then.
LEMMA AddStep ==
  ASSUME IInv, UNCHANGED token, NEW r \in Requests,
         req' \in [Requests -> RequestRecord],
         \A o \in Requests \ {r} : req'[o] = req[o],
         req'[r].pc \notin {"authorized", "inserting"},
         \/ loop' = loop
         \/ loop = r /\ loop' = Free,
         user' \in [Ids -> Users \cup {Absent}],
         \A i \in Ids : user[i] # Absent => user'[i] = user[i],
         OneUserPerName', AdminRemains'
  PROVE  IInv'
<1>1. TypeOK'
  BY DEF IInv, TypeOK
<1>2. LoopHeld'
  BY DEF IInv, LoopHeld
<1>3. AuthorityHolds'
  <2> SUFFICES ASSUME NEW o \in Requests, req'[o].pc \in {"authorized", "inserting"}
               PROVE  /\ req'[o].id \in Named(req[o].sub)'
                      /\ req'[o].kind \in AdminKinds => user'[req'[o].id].role = "admin"
    BY DEF AuthorityHolds
  <2>1. req'[o] = req[o]
    OBVIOUS
  <2>2. /\ req[o].id \in Named(req[o].sub)
        /\ req[o].kind \in AdminKinds => user[req[o].id].role = "admin"
    BY <2>1 DEF IInv, AuthorityHolds
  <2>3. req[o].id \in Ids /\ user'[req[o].id] = user[req[o].id]
    BY <2>2 DEF Named, Exists
  <2> QED BY <2>1, <2>2, <2>3 DEF Named, Exists
<1> QED BY <1>1, <1>2, <1>3 DEF IInv

-----------------------------------------------------------------------------
LEMMA InitIInv == Init => IInv
<1> SUFFICES ASSUME Init PROVE IInv
  OBVIOUS
<1>1. \A r \in Requests : req[r] = Idle /\ req[r].pc = "idle"
  BY DEF Init, Idle
<1>2. TypeOK
  BY DEF Init, TypeOK, Idle, RequestRecord, Kinds, AdminKinds
<1>3. LoopHeld /\ AuthorityHolds
  BY <1>1 DEF LoopHeld, AuthorityHolds
<1>4. \A i \in Ids : ~Exists(i)
  BY DEF Init, Exists
<1>5. AdminRemains /\ OneUserPerName
  BY <1>4 DEF AdminRemains, OneUserPerName, Named
<1> QED BY <1>2, <1>3, <1>5 DEF IInv

LEMMA BeginInv ==
  ASSUME IInv, NEW r \in Requests, NEW kind \in Kinds, NEW sub \in Names \cup {""},
         Begin(r, kind, sub)
  PROVE  IInv'
<1>1. req \in [Requests -> RequestRecord]
  BY DEF IInv, TypeOK
<1>2. req' = [req EXCEPT ![r] = [Idle EXCEPT !.pc = "opening", !.kind = kind, !.sub = sub]]
  BY DEF Begin
<1>3. /\ req' \in [Requests -> RequestRecord]
      /\ \A o \in Requests \ {r} : req'[o] = req[o]
      /\ req'[r].pc = "opening"
  BY <1>1, <1>2 DEF Idle, RequestRecord
<1> QED BY <1>3, QuietStep DEF Begin, IInv, TypeOK

LEMMA LookForAdminInv ==
  ASSUME IInv, NEW r \in Requests, LookForAdmin(r) PROVE IInv'
<1>1. req \in [Requests -> RequestRecord]
  BY DEF IInv, TypeOK
<1>2. PICK pc \in {"ready", "hashing"} : req' = [req EXCEPT ![r].pc = pc]
  BY DEF LookForAdmin
<1>3. /\ req' \in [Requests -> RequestRecord]
      /\ \A o \in Requests \ {r} : req'[o] = req[o]
      /\ req'[r].pc = pc
  BY <1>1, <1>2 DEF RequestRecord
<1> QED BY <1>3, QuietStep DEF LookForAdmin, IInv, TypeOK

LEMMA SeedAdminInv ==
  ASSUME IInv, NEW r \in Requests, SeedAdmin(r) PROVE IInv'
<1>1. req \in [Requests -> RequestRecord] /\ TypeOK /\ OneUserPerName /\ AdminRemains
  BY DEF IInv, TypeOK
<1>2. CASE Insert("admin", admin_password, "admin") /\ req' = [req EXCEPT ![r].pc = "ready"]
  <2>1. /\ user' \in [Ids -> Users \cup {Absent}]
        /\ \A i \in Ids : user[i] # Absent => user'[i] = user[i]
        /\ OneUserPerName'
        /\ \E i \in Ids : user'[i] # Absent /\ user'[i].role = "admin"
    BY <1>1, <1>2, InsertAdds, AccountsAssumption DEF Roles
  <2>2. AdminRemains'
    BY <2>1 DEF AdminRemains, Exists
  <2>3. /\ req' \in [Requests -> RequestRecord]
        /\ \A o \in Requests \ {r} : req'[o] = req[o]
        /\ req'[r].pc = "ready"
    BY <1>1, <1>2 DEF RequestRecord
  <2> QED BY <2>1, <2>2, <2>3, AddStep DEF SeedAdmin
<1>3. CASE Taken("admin") /\ Answer(r) /\ UNCHANGED user
  <2>1. /\ req' \in [Requests -> RequestRecord]
        /\ \A o \in Requests \ {r} : req'[o] = req[o]
        /\ req'[r].pc = "idle"
    BY <1>1, <1>3, AnswerTypes, IdlePc
  <2> QED BY <1>3, <2>1, QuietStep DEF SeedAdmin, IInv, TypeOK
<1> QED BY <1>2, <1>3 DEF SeedAdmin

LEMMA LoginInv ==
  ASSUME IInv, NEW r \in Requests, Login(r) PROVE IInv'
<1>1. req \in [Requests -> RequestRecord] /\ token \in SUBSET Names
  BY DEF IInv, TypeOK
<1>2. /\ req' \in [Requests -> RequestRecord]
      /\ \A o \in Requests \ {r} : req'[o] = req[o]
      /\ req'[r].pc = "idle"
  BY <1>1, AnswerTypes, IdlePc DEF Login
<1>3. token' \in SUBSET Names /\ UNCHANGED <<user, loop>>
  BY <1>1 DEF Login
<1> QED BY <1>2, <1>3, QuietStep

LEMMA AuthenticateInv ==
  ASSUME IInv, NEW r \in Requests, Authenticate(r) PROVE IInv'
<1>1. req \in [Requests -> RequestRecord] /\ token \in SUBSET Names /\ r # Free
  BY AccountsAssumption DEF IInv, TypeOK
<1>2. CASE UNCHANGED loop /\ Answer(r)
  <2>1. /\ req' \in [Requests -> RequestRecord]
        /\ \A o \in Requests \ {r} : req'[o] = req[o]
        /\ req'[r].pc = "idle"
    BY <1>1, <1>2, AnswerTypes, IdlePc
  <2> QED BY <1>1, <1>2, <2>1, QuietStep DEF Authenticate
<1>4. ASSUME NEW i \in Named(req[r].sub),
             req' = [req EXCEPT ![r].pc = "serving", ![r].id = i], UNCHANGED loop
      PROVE  IInv'
  <2>1. i \in Ids /\ UNCHANGED <<user, token>>
    BY DEF Authenticate, Named
  <2>2. /\ req' \in [Requests -> RequestRecord]
        /\ \A o \in Requests \ {r} : req'[o] = req[o]
        /\ req'[r].pc = "serving"
    BY <1>1, <1>4, <2>1 DEF RequestRecord
  <2> QED BY <1>1, <1>4, <2>1, <2>2, QuietStep
<1>3. ASSUME NEW i \in Named(req[r].sub),
             req[r].kind \in AdminKinds => user[i].role = "admin",
             req' = [req EXCEPT ![r].pc = "authorized", ![r].id = i],
             loop' = r
      PROVE  IInv'
  <2>1. i \in Ids /\ UNCHANGED <<user, token>> /\ loop = Free
    BY DEF Authenticate, Named
  <2>2. /\ req' \in [Requests -> RequestRecord]
        /\ \A o \in Requests \ {r} : req'[o] = req[o]
        /\ req'[r].id = i /\ req'[r].sub = req[r].sub /\ req'[r].kind = req[r].kind
    BY <1>1, <1>3, <2>1 DEF RequestRecord
  <2>3. \A o \in Requests : req[o].pc \notin {"authorized", "inserting"}
    BY <2>1, AccountsAssumption DEF IInv, LoopHeld
  <2>4. TypeOK'
    BY <1>3, <2>1, <2>2 DEF IInv, TypeOK
  <2>5. LoopHeld'
    BY <1>3, <2>2, <2>3 DEF LoopHeld
  <2>6. AuthorityHolds'
    <3> SUFFICES ASSUME NEW o \in Requests, req'[o].pc \in {"authorized", "inserting"}
                 PROVE  /\ req'[o].id \in Named(req[o].sub)'
                        /\ req'[o].kind \in AdminKinds => user'[req'[o].id].role = "admin"
      BY DEF AuthorityHolds
    <3>1. o = r
      BY <2>2, <2>3
    <3> QED BY <1>3, <2>1, <2>2, <3>1 DEF Named, Exists
  <2>7. AdminRemains' /\ OneUserPerName'
    BY <2>1 DEF IInv, AdminRemains, OneUserPerName, Named, Exists
  <2> QED BY <2>4, <2>5, <2>6, <2>7 DEF IInv
<1> QED BY <1>2, <1>3, <1>4 DEF Authenticate

LEMMA EndCallInv ==
  ASSUME IInv, NEW r \in Requests, EndCall(r) PROVE IInv'
<1>1. req \in [Requests -> RequestRecord] /\ token \in SUBSET Names
  BY DEF IInv, TypeOK
<1>2. /\ req' \in [Requests -> RequestRecord]
      /\ \A o \in Requests \ {r} : req'[o] = req[o]
      /\ req'[r].pc = "idle"
  BY <1>1, AnswerTypes, IdlePc DEF EndCall
<1> QED BY <1>1, <1>2, QuietStep DEF EndCall

LEMMA ReadOnlyInv ==
  ASSUME IInv, NEW r \in Requests, ReadOnly(r) PROVE IInv'
<1>1. req \in [Requests -> RequestRecord] /\ token \in SUBSET Names
  BY DEF IInv, TypeOK
<1>2. /\ req' \in [Requests -> RequestRecord]
      /\ \A o \in Requests \ {r} : req'[o] = req[o]
      /\ req'[r].pc = "idle"
  BY <1>1, AnswerTypes, IdlePc DEF ReadOnly
<1> QED BY <1>1, <1>2, QuietStep DEF ReadOnly, Authorized

LEMMA ChangePasswordInv ==
  ASSUME IInv, NEW r \in Requests, ChangePassword(r) PROVE IInv'
<1> DEFINE i == req[r].id
<1>1. /\ req \in [Requests -> RequestRecord] /\ token \in SUBSET Names
      /\ user \in [Ids -> Users \cup {Absent}]
  BY DEF IInv, TypeOK
<1>2. /\ req' \in [Requests -> RequestRecord]
      /\ \A o \in Requests \ {r} : req'[o] = req[o]
      /\ req'[r].pc = "idle"
  BY <1>1, AnswerTypes, IdlePc DEF ChangePassword
<1>3. loop = r /\ loop' = Free /\ UNCHANGED token /\ i \in Ids /\ user[i] # Absent
  BY DEF ChangePassword, Authorized, IInv, AuthorityHolds, Named, Exists
<1>4. PICK new \in Passwords : user' = user \/ user' = [user EXCEPT ![i].pw = new]
  BY DEF ChangePassword
<1>5. \A k \in Ids : /\ user'[k] \in Users \cup {Absent}
                     /\ user'[k] = Absent <=> user[k] = Absent
                     /\ user'[k].name = user[k].name /\ user'[k].role = user[k].role
  <2> SUFFICES ASSUME NEW k \in Ids
               PROVE  /\ user'[k] \in Users \cup {Absent}
                      /\ user'[k] = Absent <=> user[k] = Absent
                      /\ user'[k].name = user[k].name /\ user'[k].role = user[k].role
    OBVIOUS
  <2>1. CASE user'[k] = user[k]
    BY <1>1, <2>1
  <2>2. CASE user'[k] # user[k]
    <3>1. k = i /\ user[k] \in Users /\ user'[k] = [user[k] EXCEPT !.pw = new]
      BY <1>1, <1>3, <1>4, <2>2
    <3>2. user'[k] \in Users /\ user'[k].name = user[k].name /\ user'[k].role = user[k].role
      BY <3>1 DEF Users
    <3> QED BY <3>1, <3>2, RowExists
  <2> QED BY <2>1, <2>2
<1>6. \A o \in Requests : req'[o].pc \notin {"authorized", "inserting"}
  BY <1>2, <1>3 DEF IInv, LoopHeld
<1>7. TypeOK'
  BY <1>1, <1>2, <1>3, <1>4, <1>5 DEF TypeOK
<1>8. LoopHeld' /\ AuthorityHolds'
  BY <1>6 DEF LoopHeld, AuthorityHolds
<1>9. AdminRemains' /\ OneUserPerName'
  BY <1>5 DEF IInv, AdminRemains, OneUserPerName, Named, Exists
<1> QED BY <1>7, <1>8, <1>9 DEF IInv

LEMMA CheckNameInv ==
  ASSUME IInv, NEW r \in Requests, CheckName(r) PROVE IInv'
<1>1. req \in [Requests -> RequestRecord] /\ token \in SUBSET Names
  BY DEF IInv, TypeOK
<1>2. loop = r /\ req[r].pc = "authorized" /\ UNCHANGED <<user, token>>
  BY DEF CheckName, Authorized
<1>3. CASE Answer(r) /\ loop' = Free
  <2>1. /\ req' \in [Requests -> RequestRecord]
        /\ \A o \in Requests \ {r} : req'[o] = req[o]
        /\ req'[r].pc = "idle"
    BY <1>1, <1>3, AnswerTypes, IdlePc
  <2> QED BY <1>1, <1>2, <1>3, <2>1, QuietStep
<1>4. ASSUME NEW n \in Names, UNCHANGED loop,
             req' = [req EXCEPT ![r].pc = "inserting", ![r].name = n]
      PROVE  IInv'
  <2>1. /\ req' \in [Requests -> RequestRecord]
        /\ \A o \in Requests \ {r} : req'[o] = req[o]
        /\ req'[r].id = req[r].id /\ req'[r].sub = req[r].sub /\ req'[r].kind = req[r].kind
    BY <1>1, <1>4 DEF RequestRecord
  <2>2. TypeOK'
    BY <1>2, <1>4, <2>1 DEF IInv, TypeOK
  <2>3. LoopHeld'
    BY <1>2, <1>4, <2>1 DEF IInv, LoopHeld
  <2>4. AuthorityHolds'
    <3> SUFFICES ASSUME NEW o \in Requests, req'[o].pc \in {"authorized", "inserting"}
                 PROVE  /\ req'[o].id \in Named(req[o].sub)'
                        /\ req'[o].kind \in AdminKinds => user'[req'[o].id].role = "admin"
      BY DEF AuthorityHolds
    <3>1. req[o].pc \in {"authorized", "inserting"}
      BY <1>2, <2>1
    <3>2. /\ req[o].id \in Named(req[o].sub)
          /\ req[o].kind \in AdminKinds => user[req[o].id].role = "admin"
      BY <3>1 DEF IInv, AuthorityHolds
    <3>3. req'[o].id = req[o].id /\ req'[o].sub = req[o].sub /\ req'[o].kind = req[o].kind
      BY <2>1
    <3> QED BY <1>2, <3>2, <3>3 DEF Named, Exists
  <2>5. AdminRemains' /\ OneUserPerName'
    BY <1>2 DEF IInv, AdminRemains, OneUserPerName, Named, Exists
  <2> QED BY <2>2, <2>3, <2>4, <2>5 DEF IInv
<1> QED BY <1>3, <1>4 DEF CheckName

LEMMA CreateUserInv ==
  ASSUME IInv, NEW r \in Requests, CreateUser(r) PROVE IInv'
<1>1. req \in [Requests -> RequestRecord] /\ TypeOK /\ OneUserPerName /\ AdminRemains
  BY DEF IInv, TypeOK
<1>2. loop = r /\ loop' = Free /\ UNCHANGED token /\ req[r].pc = "inserting"
  BY DEF CreateUser
<1>3. /\ req' \in [Requests -> RequestRecord]
      /\ \A o \in Requests \ {r} : req'[o] = req[o]
      /\ req'[r].pc = "idle"
  BY <1>1, AnswerTypes, IdlePc DEF CreateUser
<1>4. PICK a \in Ids : Exists(a) /\ user[a].role = "admin"
  BY <1>1, <1>2 DEF IInv, AuthorityHolds, AdminRemains, Named
<1>5. ASSUME NEW pw \in Passwords, NEW role \in Roles, Insert(req[r].name, pw, role)
      PROVE  IInv'
  <2>1. req[r].name \in Names
    BY <1>2 DEF IInv, LoopHeld
  <2>2. /\ user' \in [Ids -> Users \cup {Absent}]
        /\ \A i \in Ids : user[i] # Absent => user'[i] = user[i]
        /\ OneUserPerName'
    BY <1>1, <1>5, <2>1, InsertAdds
  <2>3. AdminRemains'
    BY <1>4, <2>2 DEF AdminRemains, Exists
  <2> QED BY <1>2, <1>3, <2>2, <2>3, AddStep
<1>6. CASE UNCHANGED user
  BY <1>1, <1>2, <1>3, <1>6, QuietStep DEF TypeOK
<1> QED BY <1>5, <1>6 DEF CreateUser

LEMMA DeleteUserInv ==
  ASSUME IInv, NEW r \in Requests, DeleteUser(r) PROVE IInv'
<1> DEFINE me == req[r].id
<1>1. /\ req \in [Requests -> RequestRecord] /\ token \in SUBSET Names
      /\ user \in [Ids -> Users \cup {Absent}]
  BY DEF IInv, TypeOK
<1>2. /\ req' \in [Requests -> RequestRecord]
      /\ \A o \in Requests \ {r} : req'[o] = req[o]
      /\ req'[r].pc = "idle"
  BY <1>1, AnswerTypes, IdlePc DEF DeleteUser
<1>3. /\ loop = r /\ loop' = Free /\ UNCHANGED token
      /\ me \in Ids /\ user[me] # Absent /\ user[me].role = "admin"
  BY DEF DeleteUser, Authorized, IInv, AuthorityHolds, AdminKinds, Named, Exists
<1>4. \A k \in Ids : user'[k] = user[k] \/ user'[k] = Absent
  BY <1>1 DEF DeleteUser
<1>5. user'[me] = user[me] /\ user' \in [Ids -> Users \cup {Absent}]
  BY <1>1, <1>3 DEF DeleteUser
<1>6. \A o \in Requests : req'[o].pc \notin {"authorized", "inserting"}
  BY <1>2, <1>3 DEF IInv, LoopHeld
<1>7. TypeOK'
  BY <1>1, <1>2, <1>3, <1>5 DEF TypeOK
<1>8. LoopHeld' /\ AuthorityHolds'
  BY <1>6 DEF LoopHeld, AuthorityHolds
<1>9. AdminRemains'
  BY <1>3, <1>5 DEF AdminRemains, Exists
<1>10. OneUserPerName'
  BY <1>4 DEF IInv, OneUserPerName, Named, Exists
<1> QED BY <1>7, <1>8, <1>9, <1>10 DEF IInv

LEMMA OthersInv ==
  ASSUME IInv, (\E n \in Names : Expire(n)) \/ Crash \/ UNCHANGED vars PROVE IInv'
<1>1. /\ req \in [Requests -> RequestRecord] /\ token \in SUBSET Names
      /\ loop \in Requests \cup {Free}
  BY DEF IInv, TypeOK
<1>2. UNCHANGED user /\ token' \in SUBSET Names
  BY <1>1 DEF Expire, Crash, vars
<1>3. UNCHANGED <<req, loop>> \/ (req' = [r \in Requests |-> Idle] /\ loop' = Free)
  BY DEF Expire, Crash, vars
<1>4. Idle \in RequestRecord /\ Idle.pc = "idle"
  BY DEF Idle, RequestRecord, Kinds, AdminKinds
<1>5. TypeOK'
  BY <1>1, <1>2, <1>3, <1>4 DEF IInv, TypeOK
<1>6. LoopHeld'
  BY <1>3, <1>4 DEF IInv, LoopHeld
<1>7. AuthorityHolds'
  BY <1>2, <1>3, <1>4 DEF IInv, AuthorityHolds, Named, Exists
<1>8. AdminRemains' /\ OneUserPerName'
  BY <1>2 DEF IInv, AdminRemains, OneUserPerName, Named, Exists
<1> QED BY <1>5, <1>6, <1>7, <1>8 DEF IInv

LEMMA NextInv == IInv /\ [Next]_vars => IInv'
<1> SUFFICES ASSUME IInv, [Next]_vars PROVE IInv'
  OBVIOUS
<1>1. ASSUME NEW r \in Requests, NEW kind \in Kinds, NEW sub \in Names \cup {""},
             Begin(r, kind, sub)
      PROVE  IInv'
  BY <1>1, BeginInv
<1>2. ASSUME NEW r \in Requests, Step(r) PROVE IInv'
  BY <1>2, LookForAdminInv, SeedAdminInv, LoginInv, AuthenticateInv, EndCallInv, ReadOnlyInv,
     ChangePasswordInv, CheckNameInv, CreateUserInv, DeleteUserInv DEF Step
<1> QED BY <1>1, <1>2, OthersInv DEF Next

LEMMA SpecIInv == Spec => []IInv
BY InitIInv, NextInv, PTL DEF Spec

-----------------------------------------------------------------------------
\* Every variable of the accounts keeps its type.
THEOREM TypeCorrect == Spec => []TypeOK
<1>1. IInv => TypeOK
  BY DEF IInv
<1> QED BY <1>1, SpecIInv, PTL

\* There is always an account with the role admin, once there is any: admins cannot lock
\* everybody out, in whatever order their deletions meet.
THEOREM AdminsRemain == Spec => []AdminRemains
<1>1. IInv => AdminRemains
  BY DEF IInv
<1> QED BY <1>1, SpecIInv, PTL

\* What get_current_user and get_current_admin_user found is still so when a handler of
\* auth/routes.py acts.
THEOREM AuthorityIsCurrent == Spec => []AuthorityHolds
<1>1. IInv => AuthorityHolds
  BY DEF IInv
<1> QED BY <1>1, SpecIInv, PTL

\* No name is given twice, by whatever threads and handlers insert it.
THEOREM NamesAreUnique == Spec => []OneUserPerName
<1>1. IInv => OneUserPerName
  BY DEF IInv
<1> QED BY <1>1, SpecIInv, PTL

\* No step but the owner's own change of password alters a row, the seed least of all.
THEOREM RowsKept == Spec => RowsAreKept
<1> DEFINE Kept == \A i \in Ids : user[i] # Absent /\ user'[i] \notin {Absent, user[i]}
                                     => ByItsOwner(i)
<1>1. IInv /\ [Next]_vars => [Kept]_vars
  <2> SUFFICES ASSUME IInv, Next, NEW i \in Ids, user[i] # Absent,
                      user'[i] # Absent, user'[i] # user[i]
               PROVE  ByItsOwner(i)
    BY DEF vars
  <2>1. TypeOK /\ OneUserPerName /\ user \in [Ids -> Users \cup {Absent}]
    BY DEF IInv, TypeOK
  <2>2. ASSUME NEW n, NEW pw, NEW role, Insert(n, pw, role) PROVE FALSE
    BY <2>1, <2>2 DEF Insert, Exists
  <2>3. ASSUME NEW r \in Requests, SeedAdmin(r) PROVE FALSE
    BY <2>2, <2>3 DEF SeedAdmin
  <2>4. ASSUME NEW r \in Requests, CreateUser(r) PROVE FALSE
    BY <2>2, <2>4 DEF CreateUser
  <2>5. ASSUME NEW r \in Requests, DeleteUser(r) PROVE FALSE
    BY <2>1, <2>5 DEF DeleteUser
  <2>6. ASSUME NEW r \in Requests, ChangePassword(r) PROVE ByItsOwner(i)
    <3>1. PICK new \in Passwords : user' = [user EXCEPT ![req[r].id].pw = new]
      BY <2>6 DEF ChangePassword
    <3>2. req[r].id = i /\ user[i] \in Users
      BY <2>1, <3>1
    <3>3. user'[i] = [user[i] EXCEPT !.pw = new] /\ user'[i].pw = new
      BY <2>1, <3>1, <3>2 DEF Users
    <3> QED BY <2>6, <3>2, <3>3 DEF ByItsOwner, ChangePassword, Authorized
  <2>7. CASE UNCHANGED user
    BY <2>7
  <2>8. (\E r \in Requests : SeedAdmin(r) \/ CreateUser(r) \/ DeleteUser(r) \/ ChangePassword(r))
        \/ UNCHANGED user
    BY DEF Next, Step, Begin, LookForAdmin, Login, Authenticate, EndCall, ReadOnly, CheckName,
           Expire, Crash
  <2> QED BY <2>3, <2>4, <2>5, <2>6, <2>7, <2>8
<1> QED BY <1>1, SpecIInv, PTL DEF Spec, RowsAreKept
=============================================================================
