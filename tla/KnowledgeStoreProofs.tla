------------------------ MODULE KnowledgeStoreProofs ------------------------
(***************************************************************************)
(* Theorems about KnowledgeStore, for any documents, operations, failures  *)
(* and overlaps.                                                           *)
(***************************************************************************)
EXTENDS KnowledgeStore, TLAPS

\* A commit that keeps the rows of the vectors it keeps.
LEMMA CommitKeeps ==
  ASSUME VectorsHaveRows, NEW conn, NEW newrows, NEW newvecs, newvecs \subseteq newrows,
         Commit(conn, newrows, newvecs)
  PROVE  VectorsHaveRows'
BY DEF VectorsHaveRows, Commit

\* Deleting a document deletes from both tables.
LEMMA DeleteKeeps ==
  ASSUME VectorsHaveRows, NEW conn, NEW d, NEW ok, DeleteByDocument(conn, d, ok)
  PROVE  VectorsHaveRows'
<1> DEFINE ids == {r \in Seen(conn) : r.doc = d}
<1>1. CASE UNCHANGED tables
  BY <1>1 DEF tables, VectorsHaveRows
<1>2. CASE DeleteBoth(conn, ids)
  <2>1. vecs \ ids \subseteq (rows \cup Mine(conn)) \ ids
    BY DEF VectorsHaveRows
  <2> QED
    BY <1>2, <2>1, CommitKeeps DEF DeleteBoth
<1> QED
  BY <1>1, <1>2 DEF DeleteByDocument

\* An ingestion stores the row of a chunk before its vector, and commits both together.
LEMMA StoreKeeps ==
  ASSUME VectorsHaveRows, NEW o, StoreChunks(o)
  PROVE  VectorsHaveRows'
<1> DEFINE n      == op[o].chunks
           new(k) == {[doc |-> op[o].doc, op |-> o, at |-> i] : i \in 1 .. k}
<1> HIDE DEF new
<1>1. CASE CommitAll(n, new(n))
  BY <1>1, CommitKeeps DEF CommitAll, VectorsHaveRows
<1>2. CASE \E k \in 0 .. (n - 1) :
             /\ rows' = IF k = 0 THEN rows ELSE rows \cup Mine(Shared) \cup new(k)
             /\ vecs' = vecs \cup new(k)
  <2>1. new(0) = {}
    BY DEF new
  <2> QED
    BY <1>2, <2>1 DEF VectorsHaveRows
<1>3. CASE UNCHANGED tables
  BY <1>3 DEF tables, VectorsHaveRows
<1>4. CASE \E k \in 1 .. (n - 1) :
             rows' = rows \cup Mine(Shared) \cup new(k) /\ vecs' = vecs \cup new(k)
  BY <1>4 DEF VectorsHaveRows
<1> QED
  BY <1>1, <1>2, <1>3, <1>4 DEF StoreChunks, Locked, db, new

\* A sweep commits a row with its vector, or nothing.
LEMMA SweepKeeps ==
  ASSUME VectorsHaveRows, NEW o, SweepOne(o)
  PROVE  VectorsHaveRows'
<1> DEFINE chunk == [doc |-> op[o].doc, op |-> o, at |-> op[o].next]
<1>1. CASE Commit(o, rows \cup Mine(o) \cup {chunk}, vecs \cup {chunk})
  BY <1>1, CommitKeeps DEF VectorsHaveRows
<1>2. CASE UNCHANGED tables
  BY <1>2 DEF tables, VectorsHaveRows
<1> QED
  BY <1>1, <1>2 DEF SweepOne, HalfStored, Locked, Close, db

\* Everything else commits what is in the open transaction, which has rows only.
LEMMA OthersKeep ==
  ASSUME VectorsHaveRows, NEW o, NEW d,
         \/ StoreCredential(o, d) \/ RefreshInventory(o, d) \/ DeleteCredential(d)
         \/ OtherRead \/ OtherWrite \/ SaveCheckpoint \/ Crash
  PROVE  VectorsHaveRows'
<1>1. CASE Commit(Shared, rows \cup Mine(Shared), vecs)
  BY <1>1, CommitKeeps DEF VectorsHaveRows
<1>2. CASE UNCHANGED tables
  BY <1>2 DEF tables, VectorsHaveRows
<1>3. CASE SaveCheckpoint
  BY <1>3 DEF SaveCheckpoint, Commit, tables, VectorsHaveRows
<1> QED
  BY <1>1, <1>2, <1>3 DEF StoreCredential, RefreshInventory, DeleteCredential, OtherRead,
                          OtherWrite, Crash, Locked, Refused

\* No step leaves a vector without its row.
LEMMA NextKeeps ==
  ASSUME VectorsHaveRows, [Next]_vars
  PROVE  VectorsHaveRows'
<1>1. ASSUME NEW o \in Ops, NEW d \in Documents, NEW n \in 0 .. MaxChunks, Ingest(o, d, n)
      PROVE  VectorsHaveRows'
  BY <1>1, DeleteKeeps DEF Ingest
<1>2. ASSUME NEW d \in Docs, DeleteDocument(d)
      PROVE  VectorsHaveRows'
  BY <1>2, DeleteKeeps DEF DeleteDocument
<1>3. ASSUME NEW o \in Ops, StartSweep(o)
      PROVE  VectorsHaveRows'
  BY <1>3, DeleteKeeps DEF StartSweep
<1>4. CASE UNCHANGED vars \/ \E o \in Ops : NoSweep(o)
  BY <1>4 DEF vars, NoSweep, db, tables, VectorsHaveRows
<1> QED
  BY <1>1, <1>2, <1>3, <1>4, StoreKeeps, SweepKeeps, OthersKeep DEF Next, Step

\* No vector is left without its row, whatever fails, overlaps or crashes: a search never
\* joins a vector with nothing.
THEOREM VectorsKeepRows == Spec => []VectorsHaveRows
<1>1. Init => VectorsHaveRows
  BY DEF Init, VectorsHaveRows
<1> QED
  BY <1>1, NextKeeps, PTL DEF Spec
-----------------------------------------------------------------------------
(***************************************************************************)
(* Answered ingestions.  The invariant adds the types of the operations,   *)
(* and that a sweep is of a credential's inventory and has commands left.  *)
(***************************************************************************)
StoredOp(o, r, inrows, invecs) ==
  r.pc = "done" /\ r.doc \in Documents /\ ~r.replaced =>
    \A i \in 1 .. r.chunks : [doc |-> r.doc, op |-> o, at |-> i] \in inrows \cap invecs

OpOK(o, r, inrows, invecs) ==
  /\ r \in OpRecord
  /\ r.pc \in {"scheduled", "sweeping"} => r.doc \in Credentials /\ r.next <= SweepLength
  /\ r.pc = "preparing" => r.doc \in Documents
  /\ StoredOp(o, r, inrows, invecs)

IInv ==
  /\ DOMAIN op = Ops /\ op = [o \in Ops |-> op[o]]
  /\ \A o \in Ops : OpOK(o, op[o], rows, vecs)

\* An operation as it is before it starts, and one that is started, is an operation record.
LEMMA UnusedType ==
  /\ Unused \in OpRecord
  /\ \A d \in Docs, n \in 0 .. (MaxChunks + SweepLength),
       pc \in {"preparing", "scheduled", "done", "failed"} :
       [Unused EXCEPT !.doc = d, !.chunks = n, !.pc = pc] \in OpRecord
<1>1. (CHOOSE d \in Docs : TRUE) \in Docs
  BY StoreAssumption
<1>2. 1 \in Positions /\ 0 \in 0 .. (MaxChunks + SweepLength)
  BY StoreAssumption DEF Positions
<1> QED
  BY <1>1, <1>2 DEF Unused, OpRecord

\* What a commit adds, or a step that touches no table leaves, does not disturb an operation.
LEMMA MoreRows ==
  ASSUME NEW o, NEW r, OpOK(o, r, rows, vecs), rows \subseteq rows', vecs \subseteq vecs'
  PROVE  OpOK(o, r, rows', vecs')
BY DEF OpOK, StoredOp

\* Operation o becomes r while no row and no vector goes.
LEMMA MoveInv ==
  ASSUME IInv, NEW o \in Ops, NEW r, OpOK(o, r, rows', vecs'), op' = [op EXCEPT ![o] = r],
         rows \subseteq rows', vecs \subseteq vecs'
  PROVE  IInv'
BY MoreRows DEF IInv

\* No operation changes, and no row and no vector goes.
LEMMA StayInv ==
  ASSUME IInv, op' = op, rows \subseteq rows', vecs \subseteq vecs'
  PROVE  IInv'
BY MoreRows DEF IInv

\* What deleting a document leaves in the tables.
LEMMA DeleteFacts ==
  ASSUME NEW conn, NEW d, NEW ok, DeleteByDocument(conn, d, ok)
  PROVE  /\ \A c \in rows : c \in rows' \/ (ok /\ c.doc = d)
         /\ \A c \in vecs : c \in vecs' \/ (ok /\ c.doc = d)
<1> DEFINE ids == {c \in Seen(conn) : c.doc = d}
<1>1. CASE UNCHANGED tables
  BY <1>1 DEF tables
<1>2. CASE ok /\ DeleteBoth(conn, ids)
  BY <1>2 DEF DeleteBoth, Commit
<1> QED
  BY <1>1, <1>2 DEF DeleteByDocument

\* An operation survives the deletion of a document: either it is of another one, or it is
\* marked as replaced.
LEMMA DeletedInv ==
  ASSUME NEW x, NEW r, OpOK(x, r, rows, vecs), NEW conn, NEW d, NEW ok \in BOOLEAN,
         DeleteByDocument(conn, d, ok)
  PROVE  OpOK(x, IF ok /\ r.pc # "unused" /\ r.doc = d
                 THEN [r EXCEPT !.replaced = TRUE] ELSE r, rows', vecs')
<1>1. CASE ok /\ r.pc # "unused" /\ r.doc = d
  <2> DEFINE q == [r EXCEPT !.replaced = TRUE]
  <2>1. q \in OpRecord /\ q.pc = r.pc /\ q.doc = r.doc /\ q.next = r.next /\ q.replaced
    BY DEF OpOK, OpRecord
  <2> QED
    BY <1>1, <2>1 DEF OpOK, StoredOp
<1>2. CASE ~(ok /\ r.pc # "unused" /\ r.doc = d)
  <2>1. StoredOp(x, r, rows', vecs')
    BY <1>2, DeleteFacts DEF OpOK, StoredOp
  <2> QED
    BY <1>2, <2>1 DEF OpOK
<1> QED
  BY <1>1, <1>2

\* An ingestion or a sweep takes over its document.
LEMMA TakeInv ==
  ASSUME IInv, NEW o \in Ops, NEW r, NEW conn, NEW ok \in BOOLEAN,
         DeleteByDocument(conn, r.doc, ok), Take(o, r, ok), OpOK(o, r, rows', vecs')
  PROVE  IInv'
<1>1. ASSUME NEW x \in Ops, x # o
      PROVE  OpOK(x, op'[x], rows', vecs')
  BY <1>1, DeletedInv DEF IInv, Take
<1>2. op'[o] = r /\ DOMAIN op' = Ops /\ op' = [x \in Ops |-> op'[x]]
  BY DEF Take
<1> QED
  BY <1>1, <1>2 DEF IInv

\* Ingest starts an operation that has stored nothing, and of which nothing is answered
\* unless the document is empty.
LEMMA IngestInv ==
  ASSUME IInv, NEW o \in Ops, NEW d \in Documents, NEW n \in 0 .. MaxChunks, Ingest(o, d, n)
  PROVE  IInv'
<1>1. PICK ok \in BOOLEAN :
        /\ DeleteByDocument(Shared, d, ok)
        /\ Take(o, [Unused EXCEPT !.doc = d, !.chunks = n,
                                  !.pc = IF ~ok THEN "failed"
                                         ELSE IF n = 0 THEN "done" ELSE "preparing"], ok)
  BY DEF Ingest
<1> DEFINE pc == IF ~ok THEN "failed" ELSE IF n = 0 THEN "done" ELSE "preparing"
           r  == [Unused EXCEPT !.doc = d, !.chunks = n, !.pc = pc]
<1>2. r.doc = d /\ r.chunks = n /\ r.pc = pc
  BY DEF Unused
<1>3. r \in OpRecord
  <2>1. n \in 0 .. (MaxChunks + SweepLength) /\ d \in Docs
    BY StoreAssumption DEF Docs
  <2> QED
    BY <2>1, UnusedType
<1>4. StoredOp(o, r, rows', vecs')
  BY <1>2 DEF StoredOp
<1>5. OpOK(o, r, rows', vecs')
  BY <1>2, <1>3, <1>4 DEF OpOK
<1> HIDE DEF r
<1>6. DeleteByDocument(Shared, r.doc, ok) /\ Take(o, r, ok)
  BY <1>1, <1>2 DEF r
<1> QED
  BY <1>5, <1>6, TakeInv

\* An ingestion is answered as done when all its chunks are in both tables.
LEMMA StoreInv ==
  ASSUME IInv, NEW o \in Ops, StoreChunks(o)
  PROVE  IInv'
<1> DEFINE n      == op[o].chunks
           new(k) == {[doc |-> op[o].doc, op |-> o, at |-> i] : i \in 1 .. k}
<1>1. OpOK(o, op[o], rows, vecs) /\ op[o].pc = "preparing" /\ op[o] \in OpRecord
  BY DEF IInv, StoreChunks, OpOK
<1>2. CASE CommitAll(n, new(n)) /\ op' = [op EXCEPT ![o].pc = "done"]
  <2> DEFINE r == [op[o] EXCEPT !.pc = "done"]
  <2>1. r \in OpRecord /\ r.pc = "done" /\ r.doc = op[o].doc /\ r.chunks = n
    BY <1>1 DEF OpRecord
  <2>2. rows' = rows \cup Mine(Shared) \cup new(n) /\ vecs' = vecs \cup new(n)
    BY <1>2 DEF CommitAll, Commit
  <2>3. StoredOp(o, r, rows', vecs')
    BY <2>1, <2>2 DEF StoredOp
  <2>4. OpOK(o, r, rows', vecs')
    BY <2>1, <2>3 DEF OpOK
  <2>5. op' = [op EXCEPT ![o] = r]
    BY <1>2 DEF IInv
  <2> QED
    BY <2>2, <2>4, <2>5, MoveInv
<1>3. CASE op' = [op EXCEPT ![o].pc = "failed"] /\ rows \subseteq rows' /\ vecs \subseteq vecs'
  <2> DEFINE r == [op[o] EXCEPT !.pc = "failed"]
  <2>1. r \in OpRecord /\ r.pc = "failed"
    BY <1>1 DEF OpRecord
  <2>2. OpOK(o, r, rows', vecs')
    BY <2>1 DEF OpOK, StoredOp
  <2>3. op' = [op EXCEPT ![o] = r]
    BY <1>3 DEF IInv
  <2> QED
    BY <1>3, <2>2, <2>3, MoveInv
<1> HIDE DEF new
<1> QED
  BY <1>2, <1>3 DEF StoreChunks, Locked, db, tables, new

\* A sweep takes over the inventory of its credential.
LEMMA StartSweepInv ==
  ASSUME IInv, NEW o \in Ops, StartSweep(o)
  PROVE  IInv'
<1>1. PICK ok \in BOOLEAN, pc \in {"sweeping", "failed"} :
        /\ DeleteByDocument(o, op[o].doc, ok)
        /\ Take(o, [op[o] EXCEPT !.pc = pc], ok)
  BY DEF StartSweep
<1> DEFINE r == [op[o] EXCEPT !.pc = pc]
<1>2. OpOK(o, op[o], rows, vecs) /\ op[o].pc = "scheduled" /\ op[o] \in OpRecord
  BY DEF IInv, StartSweep, OpOK
<1>3. r \in OpRecord /\ r.pc = pc /\ r.doc = op[o].doc /\ r.next = op[o].next
  BY <1>2 DEF OpRecord
<1>4. OpOK(o, r, rows', vecs')
  BY <1>2, <1>3 DEF OpOK, StoredOp
<1> HIDE DEF r
<1>5. DeleteByDocument(o, r.doc, ok) /\ Take(o, r, ok)
  BY <1>1, <1>3 DEF r
<1> QED
  BY <1>4, <1>5, TakeInv

\* A sweep that has no commands answers nothing.
LEMMA NoSweepInv ==
  ASSUME IInv, NEW o \in Ops, NoSweep(o)
  PROVE  IInv'
<1> DEFINE r == [op[o] EXCEPT !.pc = "failed"]
<1>1. OpOK(o, op[o], rows, vecs) /\ op[o] \in OpRecord
  BY DEF IInv, OpOK
<1>2. r \in OpRecord /\ r.pc = "failed"
  BY <1>1 DEF OpRecord
<1>3. OpOK(o, r, rows', vecs')
  BY <1>2 DEF OpOK, StoredOp
<1>4. op' = [op EXCEPT ![o] = r] /\ rows' = rows /\ vecs' = vecs
  BY DEF NoSweep, IInv, db, tables
<1> QED
  BY <1>3, <1>4, MoveInv

\* A sweep goes on, or ends; it is of no ingested document.
LEMMA SweepInv ==
  ASSUME IInv, NEW o \in Ops, SweepOne(o)
  PROVE  IInv'
<1>1. OpOK(o, op[o], rows, vecs) /\ op[o].pc = "sweeping" /\ op[o] \in OpRecord
  BY DEF IInv, SweepOne, OpOK
<1> DEFINE pc == IF op[o].next = SweepLength THEN "done" ELSE op[o].pc
           r  == [op[o] EXCEPT !.next = @ + 1, !.pc = pc]
<1>2. op[o].next \in Nat /\ op[o].next <= SweepLength /\ op[o].doc \in Credentials
  BY <1>1, StoreAssumption DEF OpOK, OpRecord, Positions
<1>3. op[o].next + 1 \in Positions \cup {SweepLength + 1}
  BY <1>1, <1>2, StoreAssumption DEF OpRecord, Positions
<1>4. r \in OpRecord /\ r.doc = op[o].doc /\ r.next = op[o].next + 1 /\ r.pc = pc
  BY <1>1, <1>3 DEF OpRecord
<1>5. r.doc \notin Documents
  BY <1>2, <1>4, StoreAssumption
<1>6. r.pc = "sweeping" => r.next <= SweepLength
  BY <1>1, <1>2, <1>4, StoreAssumption
<1>7. OpOK(o, r, rows', vecs')
  BY <1>1, <1>2, <1>4, <1>5, <1>6 DEF OpOK, StoredOp
<1>8. op' = [op EXCEPT ![o] = r]
  BY DEF SweepOne, IInv
<1>9. rows \subseteq rows' /\ vecs \subseteq vecs'
  BY DEF SweepOne, Commit, HalfStored, Locked, Close, db, tables
<1> QED
  BY <1>7, <1>8, <1>9, MoveInv

\* A credential that is stored or refreshed schedules a sweep.
LEMMA ScheduleInv ==
  ASSUME IInv, NEW o \in Ops, NEW d \in Credentials,
         StoreCredential(o, d) \/ RefreshInventory(o, d)
  PROVE  IInv'
<1>1. rows \subseteq rows' /\ vecs \subseteq vecs'
  BY DEF StoreCredential, RefreshInventory, Commit, Locked, Refused, tables
<1>2. Scheduled(d) \in OpRecord /\ Scheduled(d).doc = d /\ Scheduled(d).next = 1
        /\ Scheduled(d).pc = "scheduled"
  <2>1. d \in Docs /\ SweepLength \in 0 .. (MaxChunks + SweepLength)
    BY StoreAssumption DEF Docs
  <2>2. 1 \in Positions /\ 0 \in 0 .. (MaxChunks + SweepLength)
    BY StoreAssumption DEF Positions
  <2>3. (CHOOSE x \in Docs : TRUE) \in Docs
    BY StoreAssumption
  <2> QED
    BY <2>1, <2>2, <2>3 DEF Scheduled, Unused, OpRecord
<1>3. OpOK(o, Scheduled(d), rows', vecs')
  BY <1>2, StoreAssumption DEF OpOK, StoredOp
<1>4. op' = op \/ op' = [op EXCEPT ![o] = Scheduled(d)]
  BY DEF StoreCredential, RefreshInventory
<1> QED
  BY <1>1, <1>3, <1>4, MoveInv, StayInv

\* A crash answers nothing.
LEMMA CrashInv == IInv /\ Crash => IInv'
<1> SUFFICES ASSUME IInv, Crash PROVE IInv'
  OBVIOUS
<1>1. rows' = rows /\ vecs' = vecs
  BY DEF Crash, tables
<1>2. ASSUME NEW o \in Ops
      PROVE  OpOK(o, op'[o], rows', vecs')
  <2>1. OpOK(o, op[o], rows, vecs) /\ op[o] \in OpRecord
    BY DEF IInv, OpOK
  <2>2. CASE ~InFlight(o)
    BY <1>1, <2>1, <2>2 DEF Crash
  <2>3. CASE InFlight(o)
    <3> DEFINE r == [op[o] EXCEPT !.pc = "failed"]
    <3>1. r \in OpRecord /\ r.pc = "failed"
      BY <2>1 DEF OpRecord
    <3>2. op'[o] = r
      BY <2>3 DEF Crash
    <3> QED
      BY <3>1, <3>2 DEF OpOK, StoredOp
  <2> QED
    BY <2>2, <2>3
<1>3. DOMAIN op' = Ops /\ op' = [o \in Ops |-> op'[o]]
  BY DEF Crash
<1> QED
  BY <1>2, <1>3 DEF IInv

\* Every step keeps the invariant.
LEMMA NextInv == IInv /\ [Next]_vars => IInv'
<1> SUFFICES ASSUME IInv, [Next]_vars PROVE IInv'
  OBVIOUS
<1>1. ASSUME NEW d \in Docs, DeleteDocument(d)
      PROVE  IInv'
  <2>1. PICK ok \in BOOLEAN :
          /\ DeleteByDocument(Shared, d, ok)
          /\ op' = [x \in Ops |-> IF ok /\ op[x].pc # "unused" /\ op[x].doc = d
                                  THEN [op[x] EXCEPT !.replaced = TRUE] ELSE op[x]]
    BY <1>1 DEF DeleteDocument
  <2>2. ASSUME NEW x \in Ops
        PROVE  OpOK(x, op'[x], rows', vecs')
    BY <2>1, DeletedInv DEF IInv
  <2>3. DOMAIN op' = Ops /\ op' = [x \in Ops |-> op'[x]]
    BY <2>1
  <2> QED
    BY <2>2, <2>3 DEF IInv
<1>2. ASSUME NEW d \in Credentials, DeleteCredential(d)
      PROVE  IInv'
  BY <1>2, StayInv DEF DeleteCredential, Commit, Locked, tables
<1>3. CASE OtherRead \/ OtherWrite \/ SaveCheckpoint
  BY <1>3, StayInv DEF OtherRead, OtherWrite, SaveCheckpoint, Commit, Locked, Refused, tables
<1>4. CASE UNCHANGED vars
  BY <1>4, StayInv DEF vars, db, tables
<1> QED
  BY <1>1, <1>2, <1>3, <1>4, IngestInv, StoreInv, StartSweepInv, NoSweepInv,
     SweepInv, ScheduleInv, CrashInv
     DEF Next, Step

\* Nothing is under way at the start.
LEMMA InitInv == Init => IInv
<1> SUFFICES ASSUME Init PROVE IInv
  OBVIOUS
<1>1. \A o \in Ops : op[o] = Unused /\ op[o].pc = "unused"
  BY DEF Init, Unused
<1> QED
  BY <1>1, UnusedType DEF Init, IInv, OpOK, StoredOp

\* An ingestion answered as done stays stored in both tables until its document is replaced
\* or deleted, also when others on the same document overlap with it.
THEOREM AnswersAreStored == Spec => []AnsweredIsStored
<1>1. IInv => AnsweredIsStored
  BY DEF IInv, OpOK, StoredOp, AnsweredIsStored
<1> QED
  BY <1>1, InitInv, NextInv, PTL DEF Spec
-----------------------------------------------------------------------------
(***************************************************************************)
(* Types.  The invariant above has those of the operations; what is left   *)
(* are the tables and the transactions over them.                          *)
(***************************************************************************)
DbOK ==
  /\ rows \subseteq Chunk /\ vecs \subseteq Chunk /\ vault \subseteq Credentials
  /\ writer \in Conns \cup {NoConn}
  /\ dirty \subseteq Chunk /\ (writer = NoConn => dirty = {})
  /\ shared \in SharedRecord

\* The connections are told apart by their numbers.
LEMMA ConnNames ==
  /\ Shared \notin Ops /\ Saver \notin Ops /\ NoConn \notin Ops
  /\ Shared # Saver /\ Shared # NoConn /\ Saver # NoConn
  /\ Shared \in Conns /\ Saver \in Conns /\ Ops \subseteq Conns /\ NoConn \notin Conns
BY StoreAssumption DEF Shared, Saver, NoConn, Ops, Conns

\* No transaction, one that has begun, and one that reads are what the shared connection has.
LEMMA SharedType ==
  ASSUME DbOK
  PROVE  /\ NoTransaction \in SharedRecord /\ AfterReading \in SharedRecord
         /\ [shared EXCEPT !.mode = "begun"] \in SharedRecord
         /\ [shared EXCEPT !.stale = (shared.mode = "reading")] \in SharedRecord
BY DEF DbOK, NoTransaction, AfterReading, SharedRecord

\* A commit of chunks.
LEMMA CommitType ==
  ASSUME DbOK, NEW conn, NEW newrows \in SUBSET Chunk, NEW newvecs \in SUBSET Chunk,
         Commit(conn, newrows, newvecs), vault' \subseteq Credentials
  PROVE  DbOK'
BY SharedType DEF DbOK, Commit

\* A statement that is locked, or refused.
LEMMA LockedType ==
  ASSUME DbOK, NEW conn, Locked(conn)
  PROVE  DbOK'
BY SharedType DEF DbOK, Locked, tables

LEMMA RefusedType ==
  ASSUME DbOK, Refused
  PROVE  DbOK'
BY ConnNames DEF DbOK, Refused, Mine, tables

\* The row of a chunk in an open transaction.
LEMMA HalfStoredType ==
  ASSUME DbOK, NEW conn \in Conns, NEW chunk \in Chunk, HalfStored(conn, chunk)
  PROVE  DbOK'
BY ConnNames DEF DbOK, HalfStored, Mine, tables

\* The deletion of a document.
LEMMA DeleteType ==
  ASSUME DbOK, NEW conn, NEW d, NEW ok, DeleteByDocument(conn, d, ok)
  PROVE  DbOK'
<1> DEFINE ids == {r \in Seen(conn) : r.doc = d}
<1>1. CASE DeleteBoth(conn, ids) /\ UNCHANGED vault
  <2>1. (rows \cup Mine(conn)) \ ids \subseteq Chunk /\ vecs \ ids \subseteq Chunk
    BY DEF DbOK, Mine
  <2> QED
    BY <1>1, <2>1, CommitType DEF DeleteBoth, DbOK
<1>2. CASE /\ UNCHANGED <<tables, writer, dirty>>
           /\ shared' \in {shared, AfterReading, [shared EXCEPT !.mode = "begun"]}
  BY <1>2, SharedType DEF DbOK, tables
<1> QED
  BY <1>1, <1>2 DEF DeleteByDocument

\* The chunks of an operation are chunks.
LEMMA ChunkTypes ==
  ASSUME IInv, NEW o \in Ops
  PROVE  /\ \A k \in 0 .. op[o].chunks : \A i \in 1 .. k :
              [doc |-> op[o].doc, op |-> o, at |-> i] \in Chunk
         /\ op[o].pc = "sweeping" =>
              [doc |-> op[o].doc, op |-> o, at |-> op[o].next] \in Chunk
<1>1. OpOK(o, op[o], rows, vecs) /\ op[o] \in OpRecord
  BY DEF IInv, OpOK
<1>2. op[o].doc \in Docs /\ op[o].chunks \in 0 .. (MaxChunks + SweepLength)
      /\ op[o].next \in Positions \cup {SweepLength + 1}
  BY <1>1 DEF OpRecord
<1>3. ASSUME NEW k \in 0 .. op[o].chunks, NEW i \in 1 .. k
      PROVE  i \in Positions
  BY <1>2, StoreAssumption DEF Positions
<1>4. op[o].pc = "sweeping" => op[o].next \in Positions
  BY <1>1, <1>2, StoreAssumption DEF OpOK, Positions
<1> QED
  BY <1>2, <1>3, <1>4 DEF Chunk

\* An ingestion stores chunks.
LEMMA StoreType ==
  ASSUME IInv, DbOK, NEW o \in Ops, StoreChunks(o)
  PROVE  DbOK'
<1> DEFINE n      == op[o].chunks
           new(k) == {[doc |-> op[o].doc, op |-> o, at |-> i] : i \in 1 .. k}
<1>1. n \in Nat
  BY DEF IInv, OpOK, OpRecord
<1>2. ASSUME NEW k \in 0 .. n
      PROVE  new(k) \subseteq Chunk
  BY <1>1, ChunkTypes
<1>3. Mine(Shared) \subseteq Chunk
  BY DEF Mine, DbOK
<1> HIDE DEF new
<1>4. CASE CommitAll(n, new(n)) /\ UNCHANGED vault
  <2>1. new(n) \subseteq Chunk
    BY <1>1, <1>2
  <2>2. vault' \subseteq Credentials
    BY <1>4 DEF DbOK
  <2> QED
    BY <1>3, <1>4, <2>1, <2>2, CommitType DEF CommitAll, DbOK
<1>5. ASSUME NEW k \in 0 .. (n - 1),
             rows' = IF k = 0 THEN rows ELSE rows \cup Mine(Shared) \cup new(k),
             vecs' = vecs \cup new(k),
             dirty' = (IF k = 0 THEN Mine(Shared) ELSE {}) \cup (new(k + 1) \ new(k)),
             shared' = (IF k = 0 THEN shared ELSE NoTransaction),
             writer' = Shared, UNCHANGED vault
      PROVE  DbOK'
  <2>1. k \in 0 .. n /\ k + 1 \in 0 .. n
    BY <1>1
  <2>2. new(k) \subseteq Chunk /\ new(k + 1) \subseteq Chunk
    BY <1>2, <2>1
  <2> QED
    BY <1>3, <1>5, <2>2, SharedType, ConnNames DEF DbOK
<1>6. CASE UNCHANGED db
  BY <1>6 DEF db, tables, DbOK
<1>7. ASSUME NEW k \in 1 .. (n - 1), rows' = rows \cup Mine(Shared) \cup new(k),
             vecs' = vecs \cup new(k), writer' = Saver, dirty' = {},
             shared' = [NoTransaction EXCEPT !.mode = "begun"], UNCHANGED vault
      PROVE  DbOK'
  <2>1. new(k) \subseteq Chunk
    BY <1>1, <1>2
  <2>2. shared' \in SharedRecord
    BY <1>7 DEF NoTransaction, SharedRecord
  <2> QED
    BY <1>3, <1>7, <2>1, <2>2, ConnNames DEF DbOK
<1> QED
  BY <1>4, <1>5, <1>6, <1>7, LockedType DEF StoreChunks, new

\* A sweep stores a chunk.
LEMMA SweepType ==
  ASSUME IInv, DbOK, NEW o \in Ops, SweepOne(o)
  PROVE  DbOK'
<1> DEFINE chunk == [doc |-> op[o].doc, op |-> o, at |-> op[o].next]
<1>1. chunk \in Chunk /\ o \in Conns
  BY ChunkTypes, ConnNames DEF SweepOne
<1>2. Mine(o) \subseteq Chunk
  BY DEF Mine, DbOK
<1> HIDE DEF chunk
<1>3. CASE Commit(o, rows \cup Mine(o) \cup {chunk}, vecs \cup {chunk}) /\ UNCHANGED vault
  BY <1>1, <1>2, <1>3, CommitType DEF DbOK
<1>4. CASE UNCHANGED db
  BY <1>4 DEF db, tables, DbOK
<1>5. CASE Close(o)
  BY <1>5 DEF Close, tables, DbOK
<1> QED
  BY <1>1, <1>3, <1>4, <1>5, HalfStoredType, LockedType DEF SweepOne, chunk

\* Requests that commit, and what they do when they cannot.
LEMMA RequestType ==
  ASSUME DbOK, NEW o, NEW d,
         \/ d \in Credentials /\ (StoreCredential(o, d) \/ DeleteCredential(d))
         \/ RefreshInventory(o, d) \/ OtherRead \/ OtherWrite \/ SaveCheckpoint \/ Crash
  PROVE  DbOK'
<1>1. CASE /\ Commit(Shared, rows \cup Mine(Shared), vecs)
           /\ vault' \subseteq Credentials
  <2>1. rows \cup Mine(Shared) \subseteq Chunk /\ vecs \subseteq Chunk
    BY DEF DbOK, Mine
  <2> QED
    BY <1>1, <2>1, CommitType
<1>2. CASE shared' = AfterReading /\ UNCHANGED <<tables, writer, dirty>>
  BY <1>2, SharedType DEF DbOK, tables
<1>3. CASE SaveCheckpoint
  <2>1. CASE Commit(Saver, rows, vecs) /\ UNCHANGED vault
    BY <2>1, CommitType DEF DbOK
  <2>2. CASE writer = NoConn /\ writer' = Saver /\ UNCHANGED <<tables, dirty, shared>>
    BY <2>2, ConnNames DEF DbOK, tables
  <2> QED
    BY <1>3, <2>1, <2>2 DEF SaveCheckpoint
<1>4. CASE Crash
  BY <1>4, SharedType DEF Crash, DbOK, tables
<1>5. vault \subseteq Credentials
  BY DEF DbOK
<1> QED
  BY <1>1, <1>2, <1>3, <1>4, <1>5, LockedType, RefusedType
     DEF StoreCredential, DeleteCredential, RefreshInventory, OtherRead, OtherWrite

\* Every step keeps the types.
LEMMA NextType == IInv /\ DbOK /\ [Next]_vars => DbOK'
<1> SUFFICES ASSUME IInv, DbOK, [Next]_vars PROVE DbOK'
  OBVIOUS
<1>1. ASSUME NEW o \in Ops, NEW d \in Documents, NEW n \in 0 .. MaxChunks, Ingest(o, d, n)
      PROVE  DbOK'
  BY <1>1, DeleteType DEF Ingest
<1>2. ASSUME NEW d \in Docs, DeleteDocument(d)
      PROVE  DbOK'
  BY <1>2, DeleteType DEF DeleteDocument
<1>3. ASSUME NEW o \in Ops, StartSweep(o)
      PROVE  DbOK'
  BY <1>3, DeleteType DEF StartSweep
<1>4. CASE UNCHANGED vars \/ \E o \in Ops : NoSweep(o)
  BY <1>4 DEF vars, NoSweep, db, tables, DbOK
<1> QED
  BY <1>1, <1>2, <1>3, <1>4, StoreType, SweepType, RequestType DEF Next, Step

\* The tables hold chunks, the transactions only what their one writer inserted, and the
\* operations are records, whatever overlaps, fails or crashes.
THEOREM TypeCorrect == Spec => []TypeOK
<1>1. Init => IInv /\ DbOK
  <2> SUFFICES ASSUME Init PROVE DbOK
    BY InitInv
  <2>1. NoTransaction \in SharedRecord
    BY DEF NoTransaction, SharedRecord
  <2> QED
    BY <2>1 DEF Init, DbOK
<1>2. IInv /\ DbOK => TypeOK
  BY DEF IInv, OpOK, DbOK, TypeOK
<1> QED
  BY <1>1, <1>2, NextInv, NextType, PTL DEF Spec
-----------------------------------------------------------------------------
(***************************************************************************)
(* Open transactions, also when operations overlap: whose rows are in      *)
(* them, what the shared connection reads, and two things that follow for  *)
(* the steps: a deletion takes all of a document, and the write lock of a  *)
(* sweep is held for a bounded number of commands.                         *)
(***************************************************************************)
Pending == rows \cup dirty

\* A sweep's transaction has its own chunks, the shared one those of ingestions that failed.
WriterOK ==
  /\ writer \in Ops => /\ op[writer].pc = "sweeping"
                       /\ \A c \in dirty : c.op = writer /\ c.doc = op[writer].doc
  /\ writer = Shared => \A c \in dirty : c.doc \in Documents
  /\ writer \in {Saver, NoConn} => dirty = {}

\* The shared connection reads what is committed, unless it can no longer write.
SnapshotOK ==
  /\ shared.stale => shared.mode = "reading"
  /\ shared.mode = "reading" /\ ~shared.stale => shared.rows = rows

SInv == IInv /\ DbOK /\ WriterOK /\ SnapshotOK

Same(x) == op'[x].pc = op[x].pc /\ op'[x].doc = op[x].doc

StaleStays == shared.stale => shared'.stale

\* A commit of a connection that can write, other than a deletion or an ingestion.
LEMMA CommitOpen ==
  ASSUME SInv, NEW conn \in Conns, CanWrite(conn), NEW newrows, NEW newvecs,
         Commit(conn, newrows, newvecs)
  PROVE  StaleStays /\ WriterOK' /\ SnapshotOK' /\ Pending' = newrows
BY ConnNames
   DEF SInv, DbOK, SharedRecord, Commit, CanWrite, StaleStays, WriterOK, SnapshotOK,
       NoTransaction, Pending

\* A read of the shared connection, and a statement of it that raised, begin what they begin.
LEMMA SharedOpen ==
  ASSUME SInv, UNCHANGED <<tables, writer, dirty>>,
         \/ shared' \in {shared, AfterReading}
         \/ shared.mode = "idle" /\ shared' = [shared EXCEPT !.mode = "begun"]
  PROVE  StaleStays /\ SnapshotOK' /\ Pending' = Pending
<1>1. shared \in SharedRecord
  BY DEF SInv, DbOK
<1>2. CASE shared' = shared
  BY <1>2 DEF SInv, SnapshotOK, StaleStays, Pending, tables
<1>3. CASE shared' = AfterReading
  BY <1>1, <1>3 DEF SInv, SnapshotOK, StaleStays, Pending, tables, AfterReading, SharedRecord
<1>4. CASE shared.mode = "idle" /\ shared' = [shared EXCEPT !.mode = "begun"]
  BY <1>1, <1>4 DEF SInv, SnapshotOK, StaleStays, Pending, tables, SharedRecord
<1> QED
  BY <1>2, <1>3, <1>4

\* The deletion of a document: what is left of it is uncommitted, of another connection, or
\* was not seen by a shared connection that can no longer write.
LEMMA DeleteOpen ==
  ASSUME SInv, NEW conn \in Conns, NEW d, NEW ok \in BOOLEAN, DeleteByDocument(conn, d, ok)
  PROVE  /\ StaleStays /\ SnapshotOK' /\ Pending' \subseteq Pending
         /\ \/ writer' = writer /\ dirty' = dirty
            \/ writer' = NoConn /\ dirty' = {}
         /\ ok => \/ conn = Shared /\ shared'.stale
                  \/ \A c \in Pending' : c.doc = d => c \in dirty /\ writer \notin {conn, NoConn}
<1> DEFINE ids == {r \in Seen(conn) : r.doc = d}
<1>1. ~(conn = Shared /\ shared.stale) => Seen(conn) = rows \cup Mine(conn)
  BY DEF SInv, SnapshotOK, Seen, Snapshot, Mine
<1>2. CASE ok /\ CanWrite(conn) /\ DeleteBoth(conn, ids)
  <2>1. ~(conn = Shared /\ shared.stale)
    BY <1>2 DEF CanWrite
  <2>2. StaleStays /\ SnapshotOK' /\ Pending' = (rows \cup Mine(conn)) \ ids
    BY <1>2, CommitOpen DEF DeleteBoth
  <2>3. writer' = NoConn /\ dirty' = {}
    BY <1>2 DEF DeleteBoth, Commit
  <2>4. \A c \in Pending' : c.doc # d
    BY <1>1, <2>1, <2>2
  <2> QED
    BY <2>2, <2>3, <2>4 DEF Pending, Mine
<1>3. CASE /\ ids = {} /\ ok /\ UNCHANGED <<tables, writer, dirty>>
           /\ shared' = IF conn = Shared THEN AfterReading ELSE shared
  <2>1. StaleStays /\ SnapshotOK' /\ Pending' = Pending
    BY <1>3, SharedOpen
  <2>2. CASE conn = Shared /\ shared.stale
    BY <1>3, <2>1, <2>2 DEF StaleStays
  <2>3. CASE ~(conn = Shared /\ shared.stale)
    <3>1. \A c \in rows \cup Mine(conn) : c.doc # d
      BY <1>1, <1>3, <2>3
    <3>2. writer = NoConn => dirty = {}
      BY DEF SInv, DbOK
    <3>3. \A c \in Pending' : c.doc = d => c \in dirty /\ writer \notin {conn, NoConn}
      BY <2>1, <3>1, <3>2 DEF Pending, Mine
    <3> QED
      BY <1>3, <2>1, <3>3
  <2> QED
    BY <2>2, <2>3
<1>4. CASE /\ ~ok /\ UNCHANGED <<tables, writer, dirty>>
           /\ \/ shared' \in {shared, AfterReading}
              \/ shared.mode = "idle" /\ shared' = [shared EXCEPT !.mode = "begun"]
  BY <1>4, SharedOpen
<1> QED
  BY <1>2, <1>3, <1>4 DEF DeleteByDocument

\* The writer's own transaction, when nobody starts or ends in it.
LEMMA WriterStays ==
  ASSUME SInv, writer' = writer, dirty' = dirty, writer \in Ops => Same(writer)
  PROVE  WriterOK'
BY DEF SInv, WriterOK, Same

LEMMA NoWriter ==
  ASSUME writer' = NoConn, dirty' = {}
  PROVE  WriterOK'
BY ConnNames DEF WriterOK

\* Requests that read or write nothing of their own commit what is open, or leave it open.
LEMMA RequestOpen ==
  ASSUME SInv, \A x \in Ops : op[x].pc = "sweeping" => Same(x),
         \/ CanWrite(Shared) /\ Commit(Shared, rows \cup Mine(Shared), vecs)
         \/ Locked(Shared) \/ Refused
         \/ shared' = AfterReading /\ UNCHANGED <<tables, writer, dirty>>
         \/ SaveCheckpoint
         \/ UNCHANGED db
  PROVE  WriterOK' /\ SnapshotOK' /\ StaleStays /\ Pending' \subseteq Pending
<1>1. writer \in Ops => Same(writer)
  BY DEF SInv, WriterOK
<1>2. CASE CanWrite(Shared) /\ Commit(Shared, rows \cup Mine(Shared), vecs)
  <2>1. /\ StaleStays /\ WriterOK' /\ SnapshotOK'
        /\ Pending' = rows \cup Mine(Shared)
    BY <1>2, ConnNames, CommitOpen
  <2> QED
    BY <2>1 DEF Pending, Mine
<1>3. CASE /\ UNCHANGED <<tables, writer, dirty>>
           /\ \/ shared' \in {shared, AfterReading}
              \/ shared.mode = "idle" /\ shared' = [shared EXCEPT !.mode = "begun"]
  BY <1>1, <1>3, SharedOpen, WriterStays
<1>4. CASE Refused
  <2>1. StaleStays /\ SnapshotOK' /\ Pending' \subseteq Pending
    BY <1>4 DEF Refused, tables, SInv, SnapshotOK, StaleStays, Pending, Mine
  <2>2. WriterOK'
    BY <1>4, ConnNames DEF Refused, WriterOK, SInv, Mine
  <2> QED
    BY <2>1, <2>2
<1>5. CASE writer = NoConn /\ writer' = Saver /\ UNCHANGED <<tables, dirty, shared>>
  <2>1. StaleStays /\ SnapshotOK' /\ Pending' = Pending
    BY <1>5 DEF tables, SInv, SnapshotOK, StaleStays, Pending
  <2>2. WriterOK'
    BY <1>5, ConnNames DEF WriterOK, SInv
  <2> QED
    BY <2>1, <2>2
<1>6. CASE writer = Saver /\ Commit(Saver, rows, vecs)
  <2>1. CanWrite(Saver)
    BY <1>6, ConnNames DEF CanWrite
  <2>2. StaleStays /\ WriterOK' /\ SnapshotOK' /\ Pending' = rows
    BY <1>6, <2>1, ConnNames, CommitOpen
  <2> QED
    BY <2>2 DEF Pending
<1> QED
  BY <1>2, <1>3, <1>4, <1>5, <1>6 DEF Locked, SaveCheckpoint, db

\* Only operation o has become another one when it takes over its document.
LEMMA TakeSame ==
  ASSUME IInv, NEW o \in Ops, NEW r, NEW ok, Take(o, r, ok)
  PROVE  \A x \in Ops : x # o => Same(x)
BY DEF Take, Same, IInv, OpOK, OpRecord

\* What a deletion leaves of the transactions.
LEMMA TakeOpen ==
  ASSUME SInv, NEW conn \in Conns, NEW d, NEW ok \in BOOLEAN, DeleteByDocument(conn, d, ok),
         writer \in Ops => Same(writer)
  PROVE  WriterOK' /\ SnapshotOK'
BY DeleteOpen, WriterStays, NoWriter

\* Operation o adds its own chunks, or none.
OwnChunks(o) == \A c \in Pending' \ Pending : c.op = o /\ c.doc = op[o].doc

\* An ingestion adds chunks when its connection can write.
LEMMA StoreOpen ==
  ASSUME SInv, NEW o \in Ops, StoreChunks(o)
  PROVE  /\ WriterOK' /\ SnapshotOK' /\ StaleStays /\ OwnChunks(o)
         /\ Pending' \subseteq Pending \/ ~shared.stale
<1> DEFINE n      == op[o].chunks
           new(k) == {[doc |-> op[o].doc, op |-> o, at |-> i] : i \in 1 .. k}
<1>1. op[o].pc = "preparing" /\ op[o] \in OpRecord /\ op[o].doc \in Documents
      /\ (writer \in Ops => writer # o)
  BY DEF StoreChunks, SInv, IInv, OpOK, WriterOK
<1>2. \A x \in Ops : x # o => Same(x)
  BY DEF StoreChunks, SInv, IInv, Same
<1>3. \A k : \A c \in new(k) : c.op = o /\ c.doc = op[o].doc
  OBVIOUS
<1> HIDE DEF new
<1>4. CASE CanWrite(Shared) /\ CommitAll(n, new(n))
  <2>1. /\ StaleStays /\ WriterOK' /\ SnapshotOK'
        /\ Pending' = rows \cup Mine(Shared) \cup new(n)
    BY <1>4, ConnNames, CommitOpen DEF CommitAll
  <2>2. ~shared.stale /\ OwnChunks(o)
    BY <1>3, <1>4, <2>1 DEF CanWrite, Pending, Mine, OwnChunks
  <2> QED
    BY <2>1, <2>2
<1>5. ASSUME NEW k \in 0 .. (n - 1), CanWrite(Shared),
             rows' = IF k = 0 THEN rows ELSE rows \cup Mine(Shared) \cup new(k),
             dirty' = (IF k = 0 THEN Mine(Shared) ELSE {}) \cup (new(k + 1) \ new(k)),
             shared' = (IF k = 0 THEN shared ELSE NoTransaction),
             writer' = Shared
      PROVE  WriterOK' /\ SnapshotOK' /\ StaleStays /\ OwnChunks(o) /\ ~shared.stale
  <2>1. ~shared.stale
    BY <1>5 DEF CanWrite
  <2>2. \A c \in Mine(Shared) : c.doc \in Documents
    BY DEF Mine, SInv, WriterOK
  <2>3. WriterOK'
    BY <1>1, <1>3, <1>5, <2>2, ConnNames DEF WriterOK
  <2>4. StaleStays /\ SnapshotOK'
    BY <1>5, <2>1 DEF StaleStays, SnapshotOK, SInv, NoTransaction
  <2>5. OwnChunks(o)
    BY <1>3, <1>5 DEF Pending, Mine, OwnChunks
  <2> QED
    BY <2>1, <2>3, <2>4, <2>5
<1>6. CASE Locked(Shared) \/ UNCHANGED db
  <2>1. StaleStays /\ SnapshotOK' /\ Pending' = Pending
    BY <1>6, SharedOpen DEF Locked, db
  <2>2. WriterOK'
    BY <1>1, <1>2, <1>6, WriterStays DEF Locked, db
  <2> QED
    BY <2>1, <2>2 DEF OwnChunks
<1>7. ASSUME NEW k \in 1 .. (n - 1), CanWrite(Shared),
             rows' = rows \cup Mine(Shared) \cup new(k), writer' = Saver, dirty' = {},
             shared' = [NoTransaction EXCEPT !.mode = "begun"]
      PROVE  WriterOK' /\ SnapshotOK' /\ StaleStays /\ OwnChunks(o) /\ ~shared.stale
  <2>1. ~shared.stale
    BY <1>7 DEF CanWrite
  <2>2. WriterOK'
    BY <1>7, ConnNames DEF WriterOK
  <2>3. StaleStays /\ SnapshotOK'
    BY <1>7, <2>1 DEF StaleStays, SnapshotOK, NoTransaction
  <2>4. OwnChunks(o)
    BY <1>3, <1>7 DEF Pending, Mine, OwnChunks
  <2> QED
    BY <2>1, <2>2, <2>3, <2>4
<1> QED
  BY <1>4, <1>5, <1>6, <1>7 DEF StoreChunks, new

\* A sweep adds its chunk to its transaction, commits it, or loses it.
LEMMA SweepOpen ==
  ASSUME SInv, NEW o \in Ops, SweepOne(o)
  PROVE  WriterOK' /\ SnapshotOK' /\ StaleStays /\ OwnChunks(o)
<1> DEFINE chunk == [doc |-> op[o].doc, op |-> o, at |-> op[o].next]
           last  == op[o].next = SweepLength
<1>1. op[o].pc = "sweeping" /\ op[o] \in OpRecord
  BY DEF SweepOne, SInv, IInv, OpOK
<1>2. op'[o].doc = op[o].doc /\ op'[o].pc = (IF last THEN "done" ELSE "sweeping")
      /\ \A x \in Ops : x # o => Same(x)
  BY <1>1 DEF SweepOne, SInv, IInv, OpRecord, Same
<1>3. chunk.op = o /\ chunk.doc = op[o].doc
  OBVIOUS
<1> HIDE DEF chunk
<1>4. CASE CanWrite(o) /\ Commit(o, rows \cup Mine(o) \cup {chunk}, vecs \cup {chunk})
  <2>1. /\ StaleStays /\ WriterOK' /\ SnapshotOK'
        /\ Pending' = rows \cup Mine(o) \cup {chunk}
    BY <1>4, ConnNames, CommitOpen
  <2> QED
    BY <1>3, <2>1 DEF Pending, Mine, OwnChunks
<1>5. CASE ~last /\ HalfStored(o, chunk)
  <2>1. WriterOK'
    BY <1>1, <1>2, <1>3, <1>5, ConnNames DEF HalfStored, Mine, WriterOK, SInv
  <2>2. StaleStays /\ SnapshotOK' /\ Pending' \subseteq Pending \cup {chunk}
    BY <1>5 DEF HalfStored, tables, SInv, SnapshotOK, StaleStays, Pending, Mine
  <2> QED
    BY <1>3, <2>1, <2>2 DEF OwnChunks
<1>6. CASE ~last /\ (Locked(o) \/ UNCHANGED db)
  <2>1. shared' = shared /\ UNCHANGED <<tables, writer, dirty>>
    BY <1>6, ConnNames DEF Locked, db
  <2>2. StaleStays /\ SnapshotOK' /\ Pending' = Pending
    BY <2>1, SharedOpen
  <2>3. WriterOK'
    BY <1>1, <1>2, <1>6, <2>1, WriterStays DEF Same
  <2> QED
    BY <2>2, <2>3 DEF OwnChunks
<1>7. CASE last /\ Close(o)
  <2>1. StaleStays /\ SnapshotOK' /\ Pending' \subseteq Pending
    BY <1>7 DEF Close, tables, SInv, SnapshotOK, StaleStays, Pending
  <2>2. CASE writer = o
    BY <1>7, <2>1, <2>2, NoWriter DEF Close, OwnChunks
  <2>3. CASE writer # o
    BY <1>2, <1>7, <2>1, <2>3, WriterStays DEF Close, OwnChunks
  <2> QED
    BY <2>2, <2>3
<1> QED
  BY <1>4, <1>5, <1>6, <1>7 DEF SweepOne, chunk

\* Every step keeps the invariant.
LEMMA NextOpen == SInv /\ [Next]_vars => SInv'
<1> SUFFICES ASSUME SInv, [Next]_vars PROVE WriterOK' /\ SnapshotOK'
  BY NextInv, NextType DEF SInv
<1>1. ASSUME NEW o \in Ops, NEW d \in Documents, NEW n \in 0 .. MaxChunks, Ingest(o, d, n)
      PROVE  WriterOK' /\ SnapshotOK'
  <2>1. PICK ok \in BOOLEAN : DeleteByDocument(Shared, d, ok) /\ \E r : Take(o, r, ok)
    BY <1>1 DEF Ingest
  <2>2. writer \in Ops => Same(writer)
    BY <1>1, <2>1, TakeSame DEF Ingest, MayStart, SInv, WriterOK
  <2> QED
    BY <2>1, <2>2, ConnNames, TakeOpen
<1>2. ASSUME NEW o \in Ops, StartSweep(o)
      PROVE  WriterOK' /\ SnapshotOK'
  <2>1. PICK ok \in BOOLEAN : DeleteByDocument(o, op[o].doc, ok) /\ \E r : Take(o, r, ok)
    BY <1>2 DEF StartSweep
  <2>2. writer \in Ops => Same(writer)
    BY <1>2, <2>1, TakeSame DEF StartSweep, SInv, WriterOK
  <2> QED
    BY <2>1, <2>2, ConnNames, TakeOpen
<1>3. ASSUME NEW d \in Docs, DeleteDocument(d)
      PROVE  WriterOK' /\ SnapshotOK'
  <2>1. PICK ok \in BOOLEAN :
          /\ DeleteByDocument(Shared, d, ok)
          /\ op' = [x \in Ops |-> IF ok /\ op[x].pc # "unused" /\ op[x].doc = d
                                  THEN [op[x] EXCEPT !.replaced = TRUE] ELSE op[x]]
    BY <1>3 DEF DeleteDocument
  <2>2. \A x \in Ops : Same(x)
    BY <2>1 DEF Same, SInv, IInv, OpOK, OpRecord
  <2> QED
    BY <2>1, <2>2, ConnNames, TakeOpen
<1>4. ASSUME NEW o, NEW d,
             \/ o \in Ops /\ (NoSweep(o) \/ StoreCredential(o, d) \/ RefreshInventory(o, d))
             \/ DeleteCredential(d) \/ OtherRead \/ OtherWrite \/ SaveCheckpoint
             \/ UNCHANGED vars
      PROVE  WriterOK' /\ SnapshotOK'
  <2>1. \A x \in Ops : op[x].pc = "sweeping" => Same(x)
    BY <1>4 DEF NoSweep, StoreCredential, RefreshInventory, MayStart, DeleteCredential,
                OtherRead, OtherWrite, SaveCheckpoint, vars, Same, SInv, IInv
  <2> QED
    BY <1>4, <2>1, RequestOpen DEF NoSweep, StoreCredential, RefreshInventory,
                                   DeleteCredential, OtherRead, OtherWrite, vars
<1>5. CASE Crash
  BY <1>5, NoWriter DEF Crash, SnapshotOK, NoTransaction
<1> QED
  BY <1>1, <1>2, <1>3, <1>4, <1>5, StoreOpen, SweepOpen DEF Next, Step

LEMMA InitOpen == Init => SInv
<1> SUFFICES ASSUME Init PROVE SInv
  OBVIOUS
<1>1. NoTransaction \in SharedRecord
  BY DEF NoTransaction, SharedRecord
<1> QED
  BY <1>1, InitInv, ConnNames DEF Init, SInv, DbOK, WriterOK, SnapshotOK, NoTransaction

\* When a committed row of a document goes, all of the document goes: its other rows, those
\* in a transaction still open, and its vectors.
Whole ==
  \A d \in Docs : (\E r \in rows \ rows' : r.doc = d) => \A r \in Pending' \cup vecs' : r.doc # d

\* A deletion by a connection that can write sees all there is of the document.
LEMMA DeleteWhole ==
  ASSUME SInv, NEW conn, NEW d, NEW ok, DeleteByDocument(conn, d, ok)
  PROVE  \/ UNCHANGED <<rows, vecs>>
         \/ dirty' = {} /\ \A c \in rows' : c.doc # d
<1> DEFINE ids == {r \in Seen(conn) : r.doc = d}
<1>1. CASE UNCHANGED tables
  BY <1>1 DEF tables
<1>2. CASE CanWrite(conn) /\ DeleteBoth(conn, ids)
  <2>1. Seen(conn) = rows \cup Mine(conn)
    BY <1>2 DEF CanWrite, SInv, SnapshotOK, Seen, Snapshot, Mine
  <2> QED
    BY <1>2, <2>1 DEF DeleteBoth, Commit
<1> QED
  BY <1>1, <1>2 DEF DeleteByDocument

\* What a step does to the stored and to the answered, when it is about document d.
About(d) ==
  /\ \A c \in rows : c \in rows' \/ c.doc = d
  /\ \A c \in vecs : c \in vecs' \/ c.doc = d
  /\ \/ rows \subseteq rows' /\ vecs \subseteq vecs'
     \/ dirty' = {} /\ \A c \in rows' : c.doc # d
  /\ \A o \in Ops : op[o].pc = "done" => op'[o] = op[o] \/ op[o].doc = d

LEMMA TakeAbout ==
  ASSUME SInv, NEW o \in Ops, op[o].pc # "done", NEW r, NEW conn, NEW ok \in BOOLEAN,
         DeleteByDocument(conn, r.doc, ok), Take(o, r, ok)
  PROVE  About(r.doc)
<1>1. \A x \in Ops : op[x].pc = "done" => op'[x] = op[x] \/ op[x].doc = r.doc
  BY DEF Take
<1> QED
  BY <1>1, DeleteFacts, DeleteWhole DEF About

\* Every step is about one document.
LEMMA StepAbout ==
  ASSUME SInv, [Next]_vars
  PROVE  \E d \in Docs : About(d)
<1>1. ASSUME NEW o \in Ops, NEW d \in Documents, NEW n \in 0 .. MaxChunks, Ingest(o, d, n)
      PROVE  About(d)
  <2>1. PICK ok \in BOOLEAN :
          /\ DeleteByDocument(Shared, d, ok)
          /\ Take(o, [Unused EXCEPT !.doc = d, !.chunks = n,
                                    !.pc = IF ~ok THEN "failed"
                                           ELSE IF n = 0 THEN "done" ELSE "preparing"], ok)
    BY <1>1 DEF Ingest
  <2> DEFINE r == [Unused EXCEPT !.doc = d, !.chunks = n,
                                 !.pc = IF ~ok THEN "failed"
                                        ELSE IF n = 0 THEN "done" ELSE "preparing"]
  <2>2. r.doc = d /\ op[o].pc # "done"
    BY <1>1 DEF Unused, Ingest, MayStart
  <2> HIDE DEF r
  <2>3. DeleteByDocument(Shared, r.doc, ok) /\ Take(o, r, ok)
    BY <2>1, <2>2 DEF r
  <2> QED
    BY <2>2, <2>3, TakeAbout
<1>2. ASSUME NEW o \in Ops, StartSweep(o)
      PROVE  op[o].doc \in Docs /\ About(op[o].doc)
  <2>1. PICK ok \in BOOLEAN, pc \in {"sweeping", "failed"} :
          DeleteByDocument(o, op[o].doc, ok) /\ Take(o, [op[o] EXCEPT !.pc = pc], ok)
    BY <1>2 DEF StartSweep
  <2> DEFINE r == [op[o] EXCEPT !.pc = pc]
  <2>2. r.doc = op[o].doc /\ op[o].pc # "done" /\ op[o].doc \in Docs
    BY <1>2 DEF StartSweep, SInv, IInv, OpOK, OpRecord
  <2> HIDE DEF r
  <2>3. DeleteByDocument(o, r.doc, ok) /\ Take(o, r, ok)
    BY <2>1, <2>2 DEF r
  <2> QED
    BY <2>2, <2>3, TakeAbout
<1>3. ASSUME NEW d \in Docs, DeleteDocument(d)
      PROVE  About(d)
  <2>1. PICK ok \in BOOLEAN :
          /\ DeleteByDocument(Shared, d, ok)
          /\ op' = [x \in Ops |-> IF ok /\ op[x].pc # "unused" /\ op[x].doc = d
                                  THEN [op[x] EXCEPT !.replaced = TRUE] ELSE op[x]]
    BY <1>3 DEF DeleteDocument
  <2>2. \A x \in Ops : op[x].pc = "done" => op'[x] = op[x] \/ op[x].doc = d
    BY <2>1
  <2> QED
    BY <2>1, <2>2, DeleteFacts, DeleteWhole DEF About
<1>4. ASSUME rows \subseteq rows', vecs \subseteq vecs',
             \A o \in Ops : op[o].pc = "done" => op'[o] = op[o]
      PROVE  \E d \in Docs : About(d)
  BY <1>4, StoreAssumption DEF About
<1>5. ASSUME NEW o \in Ops, StoreChunks(o) \/ NoSweep(o) \/ SweepOne(o)
      PROVE  \E d \in Docs : About(d)
  <2>1. rows \subseteq rows' /\ vecs \subseteq vecs'
    BY <1>5 DEF StoreChunks, NoSweep, SweepOne, CommitAll, Commit, Locked, HalfStored, Close,
                db, tables
  <2>2. op[o].pc # "done" /\ \A x \in Ops : x # o => op'[x] = op[x]
    BY <1>5 DEF StoreChunks, NoSweep, SweepOne, SInv, IInv
  <2> QED
    BY <1>4, <2>1, <2>2
<1>6. ASSUME NEW o \in Ops, NEW d, StoreCredential(o, d) \/ RefreshInventory(o, d)
      PROVE  \E e \in Docs : About(e)
  <2>1. rows \subseteq rows' /\ vecs \subseteq vecs'
    BY <1>6 DEF StoreCredential, RefreshInventory, Commit, Locked, Refused, tables
  <2>2. op' = op \/ (op[o].pc # "done" /\ \A x \in Ops : x # o => op'[x] = op[x])
    BY <1>6 DEF StoreCredential, RefreshInventory, MayStart, SInv, IInv
  <2> QED
    BY <1>4, <2>1, <2>2
<1>7. ASSUME NEW d,
             \/ DeleteCredential(d) \/ OtherRead \/ OtherWrite \/ SaveCheckpoint
             \/ Crash \/ UNCHANGED vars
      PROVE  \E e \in Docs : About(e)
  <2>1. rows \subseteq rows' /\ vecs \subseteq vecs'
    BY <1>7 DEF DeleteCredential, OtherRead, OtherWrite, SaveCheckpoint, Crash, Commit, Locked,
                Refused, vars, db, tables
  <2>2. \A x \in Ops : op[x].pc = "done" => op'[x] = op[x]
    BY <1>7 DEF DeleteCredential, OtherRead, OtherWrite, SaveCheckpoint, Crash, InFlight, vars
  <2> QED
    BY <1>4, <2>1, <2>2
<1>8. Documents \subseteq Docs
  BY DEF Docs
<1> QED
  BY <1>1, <1>2, <1>3, <1>5, <1>6, <1>7, <1>8 DEF Next, Step

\* No step takes a part of a document away, whatever overlaps, fails or is still open, and
\* whichever connection deletes: no re-ingestion leaves a part of the last version behind.
THEOREM DeletionsAreWhole == Spec => [][Whole]_vars
<1>1. SInv /\ VectorsHaveRows' /\ [Next]_vars => Whole
  BY StepAbout DEF About, Whole, Pending, VectorsHaveRows
<1>2. Init => VectorsHaveRows
  BY DEF Init, VectorsHaveRows
<1> QED
  BY <1>1, <1>2, InitOpen, NextOpen, NextKeeps, PTL DEF Spec

\* A sweep that holds the write lock has commands left.
SweepsHold == writer \in Ops => op[writer].pc = "sweeping" /\ op[writer].next <= SweepLength

\* Each of its steps is one command less, and nothing gives it one more.
FewerLeft ==
  \A o \in Ops : writer = o =>
    op'[o].next >= op[o].next /\ (Step(o) => op'[o].next = op[o].next + 1)

\* The write lock of a sweep, which stops every request of the tenant, is given back after at
\* most SweepLength steps of the sweep, whatever else happens: the half of LocksEnd that needs
\* no fairness.
THEOREM LocksAreBounded == Spec => []SweepsHold /\ [][FewerLeft]_vars
<1>1. SInv => SweepsHold
  BY DEF SInv, WriterOK, IInv, OpOK, SweepsHold
<1>2. SInv /\ [Next]_vars => FewerLeft
  <2> SUFFICES ASSUME SInv, [Next]_vars, NEW o \in Ops, writer = o
               PROVE  op'[o].next >= op[o].next /\ (Step(o) => op'[o].next = op[o].next + 1)
    BY DEF FewerLeft
  <2>1. op[o].pc = "sweeping" /\ op[o] \in OpRecord /\ op[o].next \in Nat
    BY StoreAssumption DEF SInv, WriterOK, IInv, OpOK, OpRecord, Positions
  <2>2. DOMAIN op = Ops
    BY DEF SInv, IInv
  <2>3. ASSUME Step(o)
        PROVE  op'[o].next = op[o].next + 1
    <3>1. SweepOne(o)
      BY <2>1, <2>3 DEF Step, StoreChunks, StartSweep, NoSweep
    <3>2. op' = [op EXCEPT ![o].next = @ + 1,
                           ![o].pc = IF op[o].next = SweepLength THEN "done" ELSE @]
      BY <3>1 DEF SweepOne
    <3> QED
      BY <2>1, <2>2, <3>2 DEF OpRecord
  <2>4. ASSUME NEW x \in Ops, NEW r, NEW ok, x # o, Take(x, r, ok)
        PROVE  op'[o].next = op[o].next
    BY <2>1, <2>4 DEF Take, OpRecord
  <2>5. ASSUME NEW x \in Ops, NEW d, NEW n, x # o,
               \/ Step(x) \/ Ingest(x, d, n) \/ StoreCredential(x, d) \/ RefreshInventory(x, d)
        PROVE  op'[o].next = op[o].next
    <3>1. CASE StartSweep(x)
      BY <2>4, <2>5, <3>1 DEF StartSweep
    <3>2. CASE Ingest(x, d, n)
      BY <2>4, <2>5, <3>2 DEF Ingest
    <3>3. CASE \/ StoreChunks(x) \/ NoSweep(x) \/ SweepOne(x)
               \/ StoreCredential(x, d) \/ RefreshInventory(x, d)
      <4>1. op' = op \/ op'[o] = op[o]
        BY <2>2, <2>5, <3>3 DEF StoreChunks, NoSweep, SweepOne, StoreCredential, RefreshInventory
      <4> QED
        BY <4>1
    <3> QED
      BY <2>5, <3>1, <3>2, <3>3 DEF Step
  <2>6. ASSUME NEW d,
               \/ DeleteDocument(d) \/ DeleteCredential(d) \/ OtherRead \/ OtherWrite
               \/ SaveCheckpoint \/ Crash \/ UNCHANGED vars
        PROVE  op'[o].next = op[o].next
    BY <2>1, <2>6 DEF DeleteDocument, DeleteCredential, OtherRead, OtherWrite, SaveCheckpoint,
                      Crash, vars, OpRecord
  <2> QED
    <3>1. ASSUME NEW d, NEW n,
                 \/ Ingest(o, d, n) \/ StoreCredential(o, d) \/ RefreshInventory(o, d)
          PROVE  op'[o].next = op[o].next
      BY <2>1, <3>1 DEF Ingest, StoreCredential, RefreshInventory, MayStart
    <3>2. op'[o].next = op[o].next \/ Step(o)
      BY <2>5, <2>6, <3>1 DEF Next
    <3> QED
      BY <2>1, <2>3, <3>2
<1> QED
  BY <1>1, <1>2, InitOpen, NextOpen, PTL DEF Spec
-----------------------------------------------------------------------------
(***************************************************************************)
(* One version of a document, when operations on it come one after the     *)
(* other.  The property speaks of the committed rows only; the invariant   *)
(* adds the rows of the open transaction, whose they are, and what the     *)
(* operation under way may rely on since it took its document over.        *)
(***************************************************************************)
OneAtATime == \A o, x \in Ops : InFlight(o) /\ InFlight(x) /\ op[o].doc = op[x].doc => o = x

\* Once an operation has deleted what was there, all there is of its document is its own;
\* an ingestion that did not see all of it cannot write.
OwnsIts(o, r, pending, stale) ==
  r.pc \in {"preparing", "sweeping"} =>
    (r.pc = "preparing" /\ stale) \/ \A c \in pending : c.doc = r.doc => c.op = o

OneOf(pending) == \A c, e \in pending : c.doc = e.doc => c.op = e.op

VInv ==
  /\ SInv /\ ~Overlap /\ OneAtATime
  /\ \A o \in Ops : OwnsIts(o, op[o], Pending, shared.stale)
  /\ OneOf(Pending)

\* What the invariant needs of a step in which at most one operation changes: it adds only
\* chunks of its own to a document it has taken over.
LEMMA VersionInv ==
  ASSUME VInv, IInv', DbOK', WriterOK', SnapshotOK', StaleStays, NEW o,
         \A x \in Ops : x # o => Same(x),
         o \in Ops /\ InFlight(o)' => \/ InFlight(o) /\ op'[o].doc = op[o].doc
                                      \/ MayStart(o, op'[o].doc),
         o \in Ops => OwnsIts(o, op'[o], Pending', shared'.stale),
         \A c \in Pending' :
           \/ c \in Pending
           \/ /\ o \in Ops /\ c.op = o /\ c.doc = op[o].doc
              /\ op[o].pc \in {"preparing", "sweeping"}
              /\ op[o].pc = "preparing" => ~shared.stale
  PROVE  VInv'
<1>1. ASSUME NEW x \in Ops, NEW y \in Ops, InFlight(x)', InFlight(y)',
             op'[x].doc = op'[y].doc, x # y, y # o
      PROVE  FALSE
  <2>1. Same(y) /\ InFlight(y)
    BY <1>1 DEF InFlight, Same
  <2>2. CASE InFlight(x) /\ op'[x].doc = op[x].doc
    BY <1>1, <2>1, <2>2 DEF VInv, OneAtATime, Same
  <2>3. CASE MayStart(x, op'[x].doc)
    BY <1>1, <2>1, <2>3 DEF VInv, MayStart, Same
  <2>4. CASE x # o
    BY <1>1, <2>1, <2>2, <2>4 DEF Same, InFlight
  <2> QED
    BY <1>1, <2>2, <2>3, <2>4
<1>2. OneAtATime'
  BY <1>1 DEF OneAtATime
<1>3. ASSUME NEW x \in Ops
      PROVE  OwnsIts(x, op'[x], Pending', shared'.stale)
  <2>1. CASE x # o /\ op'[x].pc \in {"preparing", "sweeping"}
    <3>1. Same(x) /\ InFlight(x) /\ OwnsIts(x, op[x], Pending, shared.stale)
      BY <2>1 DEF Same, InFlight, VInv
    <3>2. ASSUME NEW c \in Pending', c \notin Pending
          PROVE  c.doc # op[x].doc
      BY <2>1, <3>1, <3>2 DEF VInv, OneAtATime, InFlight
    <3> QED
      BY <2>1, <3>1, <3>2 DEF OwnsIts, Same, StaleStays
  <2> QED
    BY <2>1 DEF OwnsIts
<1>4. ASSUME NEW c \in Pending', NEW e \in Pending', c.doc = e.doc, c \notin Pending
      PROVE  c.op = e.op
  <2>1. o \in Ops /\ c.op = o /\ c.doc = op[o].doc
    BY <1>4
  <2>2. \A f \in Pending : f.doc = op[o].doc => f.op = o
    BY <1>4 DEF VInv, OwnsIts
  <2> QED
    BY <1>4, <2>1, <2>2
<1>5. OneOf(Pending')
  BY <1>4 DEF OneOf, VInv
<1> QED
  BY <1>2, <1>3, <1>5 DEF VInv, SInv

\* An operation that ends has nothing to own.
LEMMA EndedOwns ==
  ASSUME NEW o, NEW r, r.pc \notin {"preparing", "sweeping"}, NEW pending, NEW stale
  PROVE  OwnsIts(o, r, pending, stale)
BY DEF OwnsIts

\* An ingestion takes over its document.
LEMMA IngestVersions ==
  ASSUME VInv, IInv', DbOK', NEW o \in Ops, NEW d \in Documents, NEW n \in 0 .. MaxChunks,
         Ingest(o, d, n)
  PROVE  VInv'
<1>1. PICK ok \in BOOLEAN :
        /\ DeleteByDocument(Shared, d, ok)
        /\ Take(o, [Unused EXCEPT !.doc = d, !.chunks = n,
                                  !.pc = IF ~ok THEN "failed"
                                         ELSE IF n = 0 THEN "done" ELSE "preparing"], ok)
  BY DEF Ingest
<1>2. op'[o].doc = d /\ op'[o].pc \in {"failed", "done", "preparing"}
      /\ (op'[o].pc = "preparing" => ok)
  BY <1>1 DEF Take, Unused
<1>3. \A x \in Ops : x # o => Same(x)
  BY <1>1, TakeSame DEF VInv, SInv
<1>4. MayStart(o, d) /\ op[o].pc = "unused"
  BY DEF Ingest, MayStart
<1>5. /\ StaleStays /\ SnapshotOK' /\ Pending' \subseteq Pending
      /\ \/ writer' = writer /\ dirty' = dirty
         \/ writer' = NoConn /\ dirty' = {}
      /\ ok => \/ shared'.stale
               \/ \A c \in Pending' : c.doc = d => c \in dirty /\ writer \notin {Shared, NoConn}
  BY <1>1, ConnNames, DeleteOpen DEF VInv
<1>6. WriterOK'
  <2>1. writer \in Ops => Same(writer)
    BY <1>3, <1>4 DEF VInv, SInv, WriterOK
  <2> QED
    BY <1>5, <2>1, WriterStays, NoWriter DEF VInv
<1>7. ASSUME NEW c \in dirty, writer \notin {Shared, NoConn}
      PROVE  c.doc \notin Documents
  <2>1. writer \in Ops
    BY <1>7 DEF VInv, SInv, DbOK, WriterOK, Conns
  <2>2. c.doc = op[writer].doc /\ op[writer].doc \in Credentials
    BY <1>7, <2>1 DEF VInv, SInv, WriterOK, IInv, OpOK
  <2> QED
    BY <2>2, StoreAssumption
<1>8. OwnsIts(o, op'[o], Pending', shared'.stale)
  BY <1>2, <1>5, <1>7 DEF OwnsIts
<1> QED
  BY <1>2, <1>3, <1>4, <1>5, <1>6, <1>8, VersionInv

\* A sweep takes over the inventory of its credential.
LEMMA StartSweepVersions ==
  ASSUME VInv, IInv', DbOK', NEW o \in Ops, StartSweep(o)
  PROVE  VInv'
<1> DEFINE d == op[o].doc
<1>1. PICK ok \in BOOLEAN, pc \in {"sweeping", "failed"} :
        /\ DeleteByDocument(o, d, ok)
        /\ Take(o, [op[o] EXCEPT !.pc = pc], ok)
        /\ pc = "sweeping" => ok
  BY DEF StartSweep
<1>2. op[o].pc = "scheduled" /\ d \in Credentials /\ op[o] \in OpRecord /\ InFlight(o)
  BY DEF StartSweep, VInv, SInv, IInv, OpOK, InFlight
<1>3. op'[o].doc = d /\ op'[o].pc = pc
  BY <1>1, <1>2 DEF Take, OpRecord
<1>4. \A x \in Ops : x # o => Same(x)
  BY <1>1, TakeSame DEF VInv, SInv
<1>5. /\ StaleStays /\ SnapshotOK' /\ Pending' \subseteq Pending
      /\ \/ writer' = writer /\ dirty' = dirty
         \/ writer' = NoConn /\ dirty' = {}
      /\ ok => \A c \in Pending' : c.doc = d => c \in dirty /\ writer \notin {o, NoConn}
  BY <1>1, ConnNames, DeleteOpen DEF VInv
<1>6. WriterOK'
  <2>1. writer \in Ops => Same(writer)
    BY <1>2, <1>4 DEF VInv, SInv, WriterOK
  <2> QED
    BY <1>5, <2>1, WriterStays, NoWriter DEF VInv
<1>7. ASSUME NEW c \in dirty, writer \notin {o, NoConn}
      PROVE  c.doc # d
  <2>1. CASE writer \in Ops
    <3>1. c.doc = op[writer].doc /\ InFlight(writer)
      BY <1>7, <2>1 DEF VInv, SInv, WriterOK, InFlight
    <3> QED
      BY <1>2, <1>7, <2>1, <3>1 DEF VInv, OneAtATime
  <2>2. CASE writer = Shared
    BY <1>2, <1>7, <2>2, StoreAssumption DEF VInv, SInv, WriterOK
  <2> QED
    BY <1>7, <2>1, <2>2 DEF VInv, SInv, DbOK, WriterOK, Conns
<1>8. OwnsIts(o, op'[o], Pending', shared'.stale)
  BY <1>1, <1>3, <1>5, <1>7 DEF OwnsIts
<1> QED
  BY <1>2, <1>3, <1>4, <1>5, <1>6, <1>8, VersionInv

\* An ingestion adds to a document it has taken over, if its connection can write.
LEMMA StoreVersions ==
  ASSUME VInv, IInv', DbOK', NEW o \in Ops, StoreChunks(o)
  PROVE  VInv'
<1>1. op[o].pc = "preparing" /\ op[o] \in OpRecord
  BY DEF StoreChunks, VInv, SInv, IInv, OpOK
<1>2. op'[o].doc = op[o].doc /\ op'[o].pc \in {"done", "failed"}
      /\ \A x \in Ops : x # o => Same(x)
  BY <1>1 DEF StoreChunks, VInv, SInv, IInv, OpRecord, Same
<1>3. /\ WriterOK' /\ SnapshotOK' /\ StaleStays /\ OwnChunks(o)
      /\ Pending' \subseteq Pending \/ ~shared.stale
  BY StoreOpen DEF VInv
<1>4. OwnsIts(o, op'[o], Pending', shared'.stale) /\ ~InFlight(o)'
  BY <1>2, EndedOwns DEF InFlight
<1> QED
  BY <1>1, <1>2, <1>3, <1>4, VersionInv DEF OwnChunks

\* A sweep adds to the inventory it has taken over.
LEMMA SweepVersions ==
  ASSUME VInv, IInv', DbOK', NEW o \in Ops, SweepOne(o)
  PROVE  VInv'
<1>1. op[o].pc = "sweeping" /\ op[o] \in OpRecord /\ InFlight(o)
  BY DEF SweepOne, VInv, SInv, IInv, OpOK, InFlight
<1>2. op'[o].doc = op[o].doc /\ \A x \in Ops : x # o => Same(x)
  BY <1>1 DEF SweepOne, VInv, SInv, IInv, OpRecord, Same
<1>3. WriterOK' /\ SnapshotOK' /\ StaleStays /\ OwnChunks(o)
  BY SweepOpen DEF VInv
<1>4. OwnsIts(o, op'[o], Pending', shared'.stale)
  BY <1>1, <1>2, <1>3 DEF VInv, OwnsIts, OwnChunks
<1> QED
  BY <1>1, <1>2, <1>3, <1>4, VersionInv DEF OwnChunks

\* A credential that is stored or refreshed schedules a sweep when none is under way.
LEMMA ScheduleVersions ==
  ASSUME VInv, IInv', DbOK', NEW o \in Ops, NEW d \in Credentials,
         StoreCredential(o, d) \/ RefreshInventory(o, d)
  PROVE  VInv'
<1>1. \/ op' = op
      \/ op' = [op EXCEPT ![o] = Scheduled(d)] /\ MayStart(o, d) /\ op[o].pc = "unused"
  BY DEF StoreCredential, RefreshInventory, MayStart
<1>2. Scheduled(d).pc = "scheduled" /\ Scheduled(d).doc = d
  BY DEF Scheduled, Unused
<1>3. \A x \in Ops : x # o => Same(x)
  BY <1>1 DEF Same, VInv, SInv, IInv
<1>4. \/ Same(o)
      \/ op'[o].pc = "scheduled" /\ MayStart(o, op'[o].doc) /\ op[o].pc = "unused"
  BY <1>1, <1>2 DEF Same, VInv, SInv, IInv
<1>5. WriterOK' /\ SnapshotOK' /\ StaleStays /\ Pending' \subseteq Pending
  <2>1. \A x \in Ops : op[x].pc = "sweeping" => Same(x)
    BY <1>3, <1>4
  <2> QED
    BY <2>1, RequestOpen DEF VInv, StoreCredential, RefreshInventory
<1>6. OwnsIts(o, op'[o], Pending', shared'.stale)
  BY <1>4, <1>5 DEF VInv, OwnsIts, Same, StaleStays
<1> QED
  BY <1>3, <1>4, <1>5, <1>6, VersionInv DEF InFlight, Same

\* A step of none of the operations.
LEMMA OtherVersions ==
  ASSUME VInv, IInv', DbOK', WriterOK', SnapshotOK', StaleStays,
         \A x \in Ops : Same(x), Pending' \subseteq Pending
  PROVE  VInv'
BY ConnNames, VersionInv

\* A crash loses what is not committed, and every operation under way.
LEMMA CrashVersions ==
  ASSUME VInv, IInv', DbOK', Crash
  PROVE  VInv'
<1>1. \A o \in Ops : op'[o].pc \notin {"preparing", "scheduled", "sweeping"}
  BY DEF Crash, InFlight, VInv, SInv, IInv, OpOK, OpRecord
<1>2. OneAtATime' /\ \A o \in Ops : OwnsIts(o, op'[o], Pending', shared'.stale)
  BY <1>1 DEF OneAtATime, InFlight, OwnsIts
<1>3. WriterOK' /\ SnapshotOK'
  BY NoWriter DEF Crash, SnapshotOK, NoTransaction
<1>4. OneOf(Pending')
  BY DEF Crash, tables, Pending, VInv, OneOf
<1> QED
  BY <1>2, <1>3, <1>4 DEF VInv, SInv

\* Every step keeps the invariant.
LEMMA NextVersions == VInv /\ [Next]_vars => VInv'
<1> SUFFICES ASSUME VInv, [Next]_vars PROVE VInv'
  OBVIOUS
<1>1. IInv' /\ DbOK'
  BY NextInv, NextType DEF VInv, SInv
<1>2. ASSUME NEW d \in Docs, DeleteDocument(d)
      PROVE  VInv'
  <2>1. PICK ok \in BOOLEAN :
          /\ DeleteByDocument(Shared, d, ok)
          /\ op' = [x \in Ops |-> IF ok /\ op[x].pc # "unused" /\ op[x].doc = d
                                  THEN [op[x] EXCEPT !.replaced = TRUE] ELSE op[x]]
    BY <1>2 DEF DeleteDocument
  <2>2. \A x \in Ops : Same(x)
    BY <2>1 DEF Same, VInv, SInv, IInv, OpOK, OpRecord
  <2>3. WriterOK' /\ SnapshotOK' /\ StaleStays /\ Pending' \subseteq Pending
    BY <2>1, <2>2, ConnNames, DeleteOpen, WriterStays, NoWriter DEF VInv
  <2> QED
    BY <1>1, <2>2, <2>3, OtherVersions
<1>3. ASSUME NEW o \in Ops, NoSweep(o)
      PROVE  VInv'
  <2>1. op'[o].pc = "failed" /\ op[o].pc # "sweeping" /\ \A x \in Ops : x # o => Same(x)
    BY <1>3 DEF NoSweep, VInv, SInv, IInv, OpOK, OpRecord, Same
  <2>2. WriterOK' /\ SnapshotOK' /\ StaleStays /\ Pending' \subseteq Pending
    BY <1>3, <2>1, RequestOpen DEF VInv, NoSweep
  <2>3. OwnsIts(o, op'[o], Pending', shared'.stale) /\ ~InFlight(o)'
    BY <2>1, EndedOwns DEF InFlight
  <2> QED
    BY <1>1, <2>1, <2>2, <2>3, VersionInv
<1>4. ASSUME NEW d,
             DeleteCredential(d) \/ OtherRead \/ OtherWrite \/ SaveCheckpoint \/ UNCHANGED vars
      PROVE  VInv'
  <2>1. \A x \in Ops : Same(x)
    BY <1>4 DEF DeleteCredential, OtherRead, OtherWrite, SaveCheckpoint, vars, Same
  <2>2. WriterOK' /\ SnapshotOK' /\ StaleStays /\ Pending' \subseteq Pending
    BY <1>4, <2>1, RequestOpen DEF VInv, DeleteCredential, OtherRead, OtherWrite, vars
  <2> QED
    BY <1>1, <2>1, <2>2, OtherVersions
<1> QED
  BY <1>1, <1>2, <1>3, <1>4, IngestVersions, StartSweepVersions, StoreVersions,
     SweepVersions, ScheduleVersions, CrashVersions
     DEF Next, Step

LEMMA InitVersions == Init /\ ~Overlap => VInv
<1> SUFFICES ASSUME Init, ~Overlap PROVE VInv
  OBVIOUS
<1>1. SInv /\ Pending = {} /\ \A o \in Ops : op[o].pc = "unused"
  BY InitOpen DEF Init, Pending, Unused
<1> QED
  BY <1>1 DEF VInv, OneAtATime, InFlight, OwnsIts, OneOf

\* With operations on a document one after the other, no document is a mixture of two
\* versions, whatever fails, crashes, or is left in an open transaction.
THEOREM VersionsDoNotMix == ASSUME ~Overlap PROVE Spec => []OneVersion
<1>1. Init => VInv
  BY InitVersions
<1>2. VInv => OneVersion
  BY DEF VInv, OneOf, Pending, OneVersion, OneVersionOf
<1> QED
  BY <1>1, <1>2, NextVersions, PTL DEF Spec
-----------------------------------------------------------------------------
(***************************************************************************)
(* The store implements Library.                                           *)
(***************************************************************************)
LInv == SInv /\ VectorsHaveRows /\ (~Overlap => VInv)

\* A step about one document is one of Library.
LEMMA AboutHandles ==
  ASSUME LInv', NEW d \in Docs, About(d)
  PROVE  Stored!Handle(d)
<1>1. IInv' /\ VectorsHaveRows' /\ (~Overlap => OneOf(Pending'))
  BY DEF LInv, SInv, VInv
<1>2. ASSUME NEW m \in Docs, \A c \in rows : c.doc = m => c \in rows',
             \A c \in vecs : c.doc = m => c \in vecs'
      PROVE  Stored!Added(m)
  BY <1>2 DEF Stored!Added, PiecesOf
<1>3. Stored!Added(d) \/ Stored!Gone(d)
  BY <1>2 DEF About, Stored!Gone, PiecesOf
<1>4. \A m \in Docs \ {d} : Stored!Added(m)
  BY <1>2 DEF About
<1>5. ASSUME NEW m \in Docs
      PROVE  /\ PiecesOf(m, vecs') \subseteq PiecesOf(m, rows')
             /\ ~Overlap => Stored!OneMaker(PiecesOf(m, rows'))
  BY <1>1 DEF PiecesOf, VectorsHaveRows, Stored!OneMaker, OneOf, Pending
<1>6. ASSUME NEW p \in {[name |-> op[o].doc, maker |-> o, size |-> op[o].chunks] : o \in Answered}
                 \ {[name |-> op[o].doc, maker |-> o, size |-> op[o].chunks] : o \in Answered}'
      PROVE  p.name = d
  BY <1>6 DEF Answered, About
<1>7. ASSUME NEW o \in Answered'
      PROVE  /\ op'[o].doc \in Docs
             /\ {o} \X (1 .. op'[o].chunks) \subseteq PiecesOf(op'[o].doc, vecs')
  <2>1. o \in Ops /\ OpOK(o, op'[o], rows', vecs') /\ op'[o].doc \in Documents
    BY <1>1, <1>7 DEF Answered, IInv
  <2>2. ASSUME NEW i \in 1 .. op'[o].chunks
        PROVE  <<o, i>> \in PiecesOf(op'[o].doc, vecs')
    <3> DEFINE c == [doc |-> op'[o].doc, op |-> o, at |-> i]
    <3>1. c \in vecs' /\ c.doc = op'[o].doc /\ c.op = o /\ c.at = i
      BY <1>7, <2>1 DEF Answered, OpOK, StoredOp
    <3> HIDE DEF c
    <3> QED
      BY <3>1 DEF PiecesOf
  <2> QED
    BY <2>1, <2>2 DEF Docs
<1>8. ASSUME NEW p \in {[name |-> op[o].doc, maker |-> o, size |-> op[o].chunks] : o \in Answered}'
      PROVE  {p.maker} \X (1 .. p.size) \subseteq ([e \in Docs |-> PiecesOf(e, vecs)]')[p.name]
  <2>1. PICK o \in Answered' : p = [name |-> op'[o].doc, maker |-> o, size |-> op'[o].chunks]
    BY <1>8
  <2>2. p.name = op'[o].doc /\ p.maker = o /\ p.size = op'[o].chunks
    BY <2>1
  <2> QED
    BY <1>7, <2>2
<1>9. \A m \in Docs :
        /\ ([e \in Docs |-> PiecesOf(e, vecs)]')[m]
             \subseteq ([e \in Docs |-> PiecesOf(e, rows)]')[m]
        /\ ~Overlap => Stored!OneMaker(([e \in Docs |-> PiecesOf(e, rows)]')[m])
  BY <1>5
<1> QED
  BY <1>3, <1>4, <1>6, <1>8, <1>9, Zenon DEF Stored!Handle

\* With any operations, failures, crashes and overlaps, the store implements Library: every
\* step of it is a step of Library, about one document.
THEOREM ImplementsLibrary == Spec => KeepsLibrary
<1>1. Init => LInv /\ Stored!Init
  <2> SUFFICES ASSUME Init PROVE LInv /\ Stored!Init
    OBVIOUS
  <2>1. VectorsHaveRows /\ SInv
    BY InitOpen DEF Init, VectorsHaveRows
  <2>2. ~Overlap => VInv
    BY InitVersions
  <2>3. rows = {} /\ vecs = {} /\ Answered = {}
    BY DEF Init, Answered, Unused
  <2> QED
    BY <2>1, <2>2, <2>3 DEF LInv, Stored!Init, PiecesOf
<1>2. LInv /\ [Next]_vars => LInv'
  BY NextOpen, NextKeeps, NextVersions DEF LInv
<1>3. LInv /\ LInv' /\ [Next]_vars => [Stored!Next]_(Stored!vars)
  <2> SUFFICES ASSUME LInv, LInv', [Next]_vars PROVE Stored!Next
    OBVIOUS
  <2>1. PICK d \in Docs : About(d)
    BY StepAbout DEF LInv
  <2> QED
    BY <2>1, AboutHandles DEF Stored!Next
<1> QED
  BY <1>1, <1>2, <1>3, PTL DEF Spec, KeepsLibrary, Stored!Spec
=============================================================================
