------------------------ MODULE KnowledgeStoreClaims ------------------------
(***************************************************************************)
(* What the comments of the code say of the knowledge store, where         *)
(* KnowledgeStore shows the code does otherwise.                           *)
(***************************************************************************)
EXTENDS KnowledgeStore

\* long_term.py, store_knowledge_chunk: "This is an atomic operation -- both the metadata row
\* and the vector row are inserted in a single transaction": no committed row is without its
\* vector.  A failed vector leaves the row in the open transaction, and the next commit of
\* any request keeps it.
ChunksAreAtomic == rows \subseteq vecs

\* knowledge.py: "Re-uploading a document with the same name replaces the previous version
\* (idempotent)": when nothing is under way, a document has one version.  Two uploads at the
\* same time both delete first and store later.
ReplacesThePrevious ==
  \A d \in Documents : (\A o \in Ops : ~InFlight(o)) => OneVersionOf(d)
=============================================================================
