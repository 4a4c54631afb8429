--------------------------- MODULE KnowledgeStore ---------------------------
(***************************************************************************)
(* The long-term memory of one tenant: ingestion of documents              *)
(* (ingestion/pipeline.py, api/routes/knowledge.py), the inventory sweeps  *)
(* of stored credentials (vault/inventory.py, api/routes/credentials.py)   *)
(* and the two tables of a chunk (db/long_term.py), over SQLite.           *)
(*                                                                         *)
(* All requests of the tenant use one connection, which is never closed    *)
(* (api/dependencies.py); each sweep opens its own, and LangGraph keeps    *)
(* the checkpoints in the same file over another (api/routes/analyze.py).  *)
(* One begins a transaction before a statement that writes, and nothing    *)
(* but a commit, or closing the connection, ends it: no handler rolls back *)
(* when a statement raises. Between two awaits a request or a sweep runs   *)
(* alone, so a write that finds another connection in a transaction waits  *)
(* in vain, and raises "database is locked".                               *)
(***************************************************************************)
EXTENDS Naturals, FiniteSets

CONSTANTS
  Documents,    \* names of documents users ingest
  Credentials,  \* names of credentials; their inventory is a document too
  MaxChunks,    \* bound: chunks of an ingested document
  SweepLength,  \* commands of a sweep, a chunk each
  Faults,       \* the failures that may happen: of an embedding, of a vector its table refuses,
                \* of a credential no sweep can use
  Overlap,      \* may two operations on one document be under way?
  MaxOps        \* bound: ingestions and sweeps

Ops    == 1 .. MaxOps
Docs   == Documents \cup Credentials
Shared == 0               \* the connection of the requests; a sweep's is the sweep
Saver  == MaxOps + 1      \* the connection of the checkpoints
Conns  == {Shared, Saver} \cup Ops
NoConn == MaxOps + 2

ASSUME StoreAssumption ==
  /\ Documents \cap Credentials = {} /\ Docs # {}
  /\ MaxChunks \in Nat /\ SweepLength \in Nat \ {0} /\ MaxOps \in Nat
  /\ Faults \subseteq {"embedding", "vector", "credential"}
  /\ Overlap \in BOOLEAN

VARIABLES
  rows,     \* knowledge_chunks, as committed
  vecs,     \* knowledge_vectors, as committed
  vault,    \* names in the credentials table
  writer,   \* the connection in a transaction that has written, or NoConn
  dirty,    \* the rows it has inserted
  shared,   \* the transaction of the shared connection when it has not written
  op        \* op[o]: one ingestion or sweep

tables == <<rows, vecs, vault>>
db     == <<tables, writer, dirty, shared>>
vars   == <<db, op>>

-----------------------------------------------------------------------------
\* A chunk, by its document, the operation that made it, and its place.
Positions == 1 .. (MaxChunks + SweepLength)
Chunk     == [doc : Docs, op : Ops, at : Positions]

OpRecord ==
  [ pc : {"unused", "preparing", "scheduled", "sweeping", "done", "failed"},
    doc : Docs, chunks : 0 .. (MaxChunks + SweepLength), next : Positions \cup {SweepLength + 1},
    replaced : BOOLEAN ]   \* history: its document was deleted or taken over since

\* "begun": a statement that writes has failed, and the transaction goes on.  "reading": in
\* such a transaction something was read: from then on the connection sees what it saw then.
\* "stale": somebody else has committed since: then it can no longer write.
SharedRecord ==
  [ mode : {"idle", "begun", "reading"}, rows : SUBSET Chunk, vault : SUBSET Credentials,
    stale : BOOLEAN ]

NoTransaction == [mode |-> "idle", rows |-> {}, vault |-> {}, stale |-> FALSE]

InFlight(o) == op[o].pc \in {"preparing", "scheduled", "sweeping"}

Unused == [pc |-> "unused", doc |-> CHOOSE d \in Docs : TRUE, chunks |-> 0, next |-> 1,
           replaced |-> FALSE]

MayStart(o, d) ==
  /\ op[o].pc = "unused" /\ \A x \in 1 .. (o - 1) : op[x].pc # "unused"
  /\ Overlap \/ \A x \in Ops : InFlight(x) => op[x].doc # d

Init ==
  /\ rows = {} /\ vecs = {} /\ vault = {}
  /\ writer = NoConn /\ dirty = {} /\ shared = NoTransaction
  /\ op = [o \in Ops |-> Unused]

-----------------------------------------------------------------------------
(***************************************************************************)
(* SQLite in WAL mode, as seen from two kinds of connections.              *)
(***************************************************************************)
CanWrite(conn) == writer \in {NoConn, conn} /\ (conn = Shared => ~shared.stale)

\* Is the shared connection reading what it read before?
Snapshot == shared.mode = "reading" /\ writer # Shared

\* Mutant: what was inserted in the same transaction is not seen.
SeenCommitted(conn) == IF conn = Shared /\ Snapshot THEN shared.rows ELSE rows

\* What a connection reads: its own insertions, or the last commit; the shared one, in a
\* transaction that has read, what it read then.
Seen(conn) == IF conn = Shared /\ Snapshot THEN shared.rows
              ELSE IF writer = conn THEN rows \cup dirty ELSE rows

SeenVault == IF Snapshot THEN shared.vault ELSE vault

\* The shared connection after it has read, with nothing to write.
AfterReading ==
  IF shared.mode = "begun" /\ writer # Shared
  THEN [mode |-> "reading", rows |-> rows, vault |-> vault, stale |-> FALSE] ELSE shared

\* A commit, of what this connection has written before as well.
Commit(conn, newrows, newvecs) ==
  /\ rows' = newrows /\ vecs' = newvecs
  /\ writer' = NoConn /\ dirty' = {}
  /\ shared' = IF conn = Shared THEN NoTransaction
               ELSE [shared EXCEPT !.stale = (shared.mode = "reading")]

Mine(conn) == IF writer = conn THEN dirty ELSE {}

\* A statement that writes raises "database is locked".  (A sweep's connection reads nothing
\* afterwards, so that it began a transaction makes no difference.)
Locked(conn) ==
  /\ ~CanWrite(conn)
  /\ shared' = IF conn = Shared /\ shared.mode = "idle"
               THEN [shared EXCEPT !.mode = "begun"] ELSE shared
  /\ UNCHANGED <<tables, writer, dirty>>

\* A request's statement is refused by its table (a name that exists, the vector of a turn) in
\* the transaction it has begun, which stays open and holds the write lock.
Refused ==
  /\ CanWrite(Shared)
  /\ writer' = Shared /\ dirty' = Mine(Shared)
  /\ UNCHANGED <<tables, shared>>

\* The row is inserted, its vector is refused (a wrong number of dimensions): the transaction
\* stays open.
HalfStored(conn, chunk) ==
  /\ "vector" \in Faults /\ CanWrite(conn)
  /\ writer' = conn /\ dirty' = Mine(conn) \cup {chunk}
  /\ UNCHANGED <<tables, shared>>

\* Mutant: the vectors of a deleted document stay.
DeleteRowsOnly(conn, ids) ==
  Commit(conn, (rows \cup Mine(conn)) \ ids, vecs)

DeleteBoth(conn, ids) ==
  Commit(conn, (rows \cup Mine(conn)) \ ids, vecs \ ids)

\* delete_knowledge_by_document: without chunks it neither writes nor commits.
DeleteByDocument(conn, d, ok) ==
  LET ids == {r \in Seen(conn) : r.doc = d} IN
  \/ /\ ids = {} /\ ok
     /\ shared' = IF conn = Shared THEN AfterReading ELSE shared
     /\ UNCHANGED <<tables, writer, dirty>>
  \/ /\ ids # {} /\ ok /\ CanWrite(conn)
     /\ DeleteBoth(conn, ids)
     /\ UNCHANGED vault
  \/ /\ ids # {} /\ ~ok /\ ~CanWrite(conn)
     /\ shared' = IF conn # Shared THEN shared
                  ELSE IF shared.mode = "idle" THEN [shared EXCEPT !.mode = "begun"]
                  ELSE AfterReading
     /\ UNCHANGED <<tables, writer, dirty>>

\* Operation o becomes r; when it has deleted what was there, the others' chunks are replaced.
Take(o, r, ok) ==
  op' = [x \in Ops |-> IF x = o THEN r
                       ELSE IF ok /\ op[x].pc # "unused" /\ op[x].doc = r.doc
                       THEN [op[x] EXCEPT !.replaced = TRUE] ELSE op[x]]

-----------------------------------------------------------------------------
(***************************************************************************)
(* IngestionPipeline.ingest: delete the old chunks, await contexts (whose  *)
(* failure is an empty context) and embeddings, store chunk after chunk.   *)
(***************************************************************************)
Ingest(o, d, n) ==
  /\ MayStart(o, d)
  /\ \E ok \in BOOLEAN :
       /\ DeleteByDocument(Shared, d, ok)
       /\ Take(o, [Unused EXCEPT !.doc = d, !.chunks = n,
                                 !.pc = IF ~ok THEN "failed"
                                        ELSE IF n = 0 THEN "done" ELSE "preparing"], ok)

\* Mutant: the last chunk is not committed.
CommitAllButLast(n, new) ==
  /\ rows' = (rows \cup Mine(Shared) \cup new) \ {c \in new : c.at = n}
  /\ vecs' = (vecs \cup new) \ {c \in new : c.at = n}
  /\ writer' = Shared /\ dirty' = {c \in new : c.at = n}
  /\ shared' = NoTransaction

CommitAll(n, new) == Commit(Shared, rows \cup Mine(Shared) \cup new, vecs \cup new)

\* One step, for nothing is awaited between two chunks: all are stored; or the first k and
\* half of the next, whose vector is refused; or the first k, for the thread of the
\* checkpoints has taken the write lock between two commits.
StoreChunks(o) ==
  LET n      == op[o].chunks
      new(k) == {[doc |-> op[o].doc, op |-> o, at |-> i] : i \in 1 .. k}
  IN
  /\ op[o].pc = "preparing"
  /\ \/ /\ CanWrite(Shared)
        /\ CommitAll(n, new(n))
        /\ UNCHANGED vault
        /\ op' = [op EXCEPT ![o].pc = "done"]
     \/ /\ "vector" \in Faults /\ CanWrite(Shared)
        /\ \E k \in 0 .. (n - 1) :
             /\ rows' = IF k = 0 THEN rows ELSE rows \cup Mine(Shared) \cup new(k)
             /\ vecs' = vecs \cup new(k)
             /\ dirty' = (IF k = 0 THEN Mine(Shared) ELSE {}) \cup (new(k + 1) \ new(k))
             /\ shared' = IF k = 0 THEN shared ELSE NoTransaction
        /\ writer' = Shared
        /\ UNCHANGED vault
        /\ op' = [op EXCEPT ![o].pc = "failed"]
     \/ /\ CanWrite(Shared)
        /\ \E k \in 1 .. (n - 1) :
             rows' = rows \cup Mine(Shared) \cup new(k) /\ vecs' = vecs \cup new(k)
        /\ writer' = Saver /\ dirty' = {} /\ shared' = [NoTransaction EXCEPT !.mode = "begun"]
        /\ UNCHANGED vault
        /\ op' = [op EXCEPT ![o].pc = "failed"]
     \/ /\ Locked(Shared)
        /\ op' = [op EXCEPT ![o].pc = "failed"]
     \/ /\ "embedding" \in Faults
        /\ UNCHANGED db
        /\ op' = [op EXCEPT ![o].pc = "failed"]

\* DELETE of a document, an inventory included.
DeleteDocument(d) ==
  /\ \E ok \in BOOLEAN :
       /\ DeleteByDocument(Shared, d, ok)
       /\ op' = [x \in Ops |-> IF ok /\ op[x].pc # "unused" /\ op[x].doc = d
                               THEN [op[x] EXCEPT !.replaced = TRUE] ELSE op[x]]

-----------------------------------------------------------------------------
(***************************************************************************)
(* Credentials and their sweeps.                                           *)
(***************************************************************************)
\* schedule_inventory_capture: a task that starts when the loop comes to it.
Scheduled(d) == [Unused EXCEPT !.pc = "scheduled", !.doc = d, !.chunks = SweepLength]

\* A name that exists is answered with 409.
StoreCredential(o, d) ==
  /\ \/ /\ MayStart(o, d)
        /\ CanWrite(Shared) /\ d \notin vault
        /\ Commit(Shared, rows \cup Mine(Shared), vecs)
        /\ vault' = vault \cup {d}
        /\ op' = [op EXCEPT ![o] = Scheduled(d)]
     \/ /\ d \in vault
        /\ Refused
        /\ UNCHANGED op
     \/ /\ Locked(Shared)
        /\ UNCHANGED op

RefreshInventory(o, d) ==
  /\ MayStart(o, d) /\ d \in SeenVault
  /\ shared' = AfterReading
  /\ op' = [op EXCEPT ![o] = Scheduled(d)]
  /\ UNCHANGED <<tables, writer, dirty>>

\* The inventory of a deleted credential stays.
DeleteCredential(d) ==
  /\ \/ /\ CanWrite(Shared)
        /\ Commit(Shared, rows \cup Mine(Shared), vecs)
        /\ vault' = vault \ {d}
     \/ Locked(Shared)
  /\ UNCHANGED op

\* capture_inventory up to its first await; an exception ends the task, and its connection
\* goes with it.
StartSweep(o) ==
  /\ op[o].pc = "scheduled"
  /\ \E ok \in BOOLEAN :
       /\ DeleteByDocument(o, op[o].doc, ok)
       /\ \E resolved \in {TRUE} \cup (IF "credential" \in Faults THEN {FALSE} ELSE {}) :
            Take(o, [op[o] EXCEPT !.pc = IF ok /\ resolved THEN "sweeping" ELSE "failed"], ok)

\* It returns at once: a provider it has no commands for.
NoSweep(o) ==
  /\ op[o].pc = "scheduled" /\ "credential" \in Faults
  /\ op' = [op EXCEPT ![o].pc = "failed"]
  /\ UNCHANGED db

\* Mutants: the connection is not closed; its rows outlive it.
KeepDirty(o) ==
  /\ writer' = IF writer = o THEN NoConn ELSE writer
  /\ UNCHANGED <<tables, shared, dirty>>
LeaveOpen(o) == UNCHANGED db

\* conn.close() rolls back what is not committed.
Close(o) ==
  /\ writer' = IF writer = o THEN NoConn ELSE writer
  /\ dirty' = IF writer = o THEN {} ELSE dirty
  /\ UNCHANGED <<tables, shared>>

\* One command: it is run and its output embedded, then its chunk is stored.  Whatever fails,
\* the sweep goes on to the next; after the last the connection is closed.
SweepOne(o) ==
  LET chunk == [doc |-> op[o].doc, op |-> o, at |-> op[o].next]
      last  == op[o].next = SweepLength
  IN
  /\ op[o].pc = "sweeping"
  /\ \/ /\ CanWrite(o)
        /\ Commit(o, rows \cup Mine(o) \cup {chunk}, vecs \cup {chunk})
        /\ UNCHANGED vault
     \/ ~last /\ HalfStored(o, chunk)
     \/ ~last /\ Locked(o)
     \/ ~last /\ "embedding" \in Faults /\ UNCHANGED db
     \/ /\ last /\ ({"vector", "embedding"} \cap Faults # {} \/ ~CanWrite(o))
        /\ Close(o)
  /\ op' = [op EXCEPT ![o].next = @ + 1, ![o].pc = IF last THEN "done" ELSE @]

-----------------------------------------------------------------------------
\* The tenant's other requests (sessions, turns, rotated credentials) read, or write and
\* commit, on the shared connection.
OtherRead ==
  /\ shared' = AfterReading
  /\ UNCHANGED <<tables, writer, dirty, op>>

OtherWrite ==
  /\ \/ /\ CanWrite(Shared)
        /\ Commit(Shared, rows \cup Mine(Shared), vecs)
        /\ UNCHANGED vault
     \/ "vector" \in Faults /\ Refused
     \/ Locked(Shared)
  /\ UNCHANGED op

\* A checkpoint is inserted and committed in two awaits.
SaveCheckpoint ==
  /\ \/ writer = NoConn /\ writer' = Saver /\ UNCHANGED <<tables, dirty, shared>>
     \/ writer = Saver /\ Commit(Saver, rows, vecs) /\ UNCHANGED vault
  /\ UNCHANGED op

\* The process dies: every transaction is rolled back, every task is gone.
Crash ==
  /\ writer' = NoConn /\ dirty' = {} /\ shared' = NoTransaction
  /\ op' = [o \in Ops |-> IF InFlight(o) THEN [op[o] EXCEPT !.pc = "failed"] ELSE op[o]]
  /\ UNCHANGED tables

Step(o) == StoreChunks(o) \/ StartSweep(o) \/ NoSweep(o) \/ SweepOne(o)

Next ==
  \/ \E o \in Ops, d \in Documents, n \in 0 .. MaxChunks : Ingest(o, d, n)
  \/ \E o \in Ops, d \in Credentials : StoreCredential(o, d) \/ RefreshInventory(o, d)
  \/ \E d \in Docs : DeleteDocument(d)
  \/ \E d \in Credentials : DeleteCredential(d)
  \/ \E o \in Ops : Step(o)
  \/ OtherRead \/ OtherWrite \/ SaveCheckpoint
  \/ Crash

Spec == Init /\ [][Next]_vars

\* The loop runs what can go on, commands have a timeout, embeddings are answered.
FairSpec == Spec /\ \A o \in Ops : WF_vars(Step(o))

-----------------------------------------------------------------------------
(***************************************************************************)
(* The documents, as Library sees them.                                    *)
(***************************************************************************)
PiecesOf(d, chunks) == {<<c.op, c.at>> : c \in {x \in chunks : x.doc = d}}

Answered == {o \in Ops : op[o].pc = "done" /\ op[o].doc \in Documents /\ ~op[o].replaced}

Stored ==
  INSTANCE Library WITH
    Names     <- Docs,
    Exclusive <- ~Overlap,
    held      <- [d \in Docs |-> PiecesOf(d, rows)],
    found     <- [d \in Docs |-> PiecesOf(d, vecs)],
    promised  <- {[name |-> op[o].doc, maker |-> o, size |-> op[o].chunks] : o \in Answered}

-----------------------------------------------------------------------------
(***************************************************************************)
(* Properties.                                                             *)
(***************************************************************************)

\* Type invariant: in particular only the one writer has rows that are not committed.
TypeOK ==
  /\ rows \subseteq Chunk /\ vecs \subseteq Chunk /\ vault \subseteq Credentials
  /\ writer \in Conns \cup {NoConn}
  /\ dirty \subseteq Chunk /\ (writer = NoConn => dirty = {})
  /\ shared \in SharedRecord
  /\ op \in [Ops -> OpRecord]

\* No vector is left without its row, although a chunk is deleted from two tables by whoever
\* replaces its document, over rows some of which are only in an open transaction.
VectorsHaveRows == vecs \subseteq rows

\* An ingestion that was answered as done is stored, whole and durably: until its document is
\* ingested again or deleted, every chunk of it is in both tables, through crashes, failures
\* of others, and transactions they leave open.
AnsweredIsStored ==
  \A o \in Ops : op[o].pc = "done" /\ op[o].doc \in Documents /\ ~op[o].replaced =>
    \A i \in 1 .. op[o].chunks :
      [doc |-> op[o].doc, op |-> o, at |-> i] \in rows \cap vecs

\* A document has the chunks of one operation only.
OneVersionOf(d) == \A r, q \in rows : r.doc = d /\ q.doc = d => r.op = q.op

\* With operations on a document one after the other, no document is a mixture of versions,
\* although failed ones leave rows behind, some of them in the transaction still open.
OneVersion == \A d \in Docs : OneVersionOf(d)

\* The store implements Library: whatever fails, crashes or is committed by somebody else, a
\* step takes all of one document or nothing, what a search finds has its text, what was
\* answered is found until it is replaced, and with operations on a document one after the
\* other no document is a mixture of versions.
KeepsLibrary == Stored!Spec

\* The write lock a failed sweep holds, which stops every request of the tenant and the
\* checkpoints, is given back: the sweep ends, and its connection is closed.
LocksEnd == writer \in Ops ~> writer \notin Ops
=============================================================================
