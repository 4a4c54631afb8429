------------------------------ MODULE Library -------------------------------
(***************************************************************************)
(* What the long-term memory promises of its documents, without saying how *)
(* they are stored.  A step is about one document: it may take all of it   *)
(* away, or nothing; whatever else it does only adds.  What is found has a *)
(* text; what was promised is found, whole, until its document is replaced *)
(* or deleted; and unless several work on a document at the same time, all *)
(* of it comes from one of them.                                           *)
(***************************************************************************)
EXTENDS Naturals

CONSTANTS
  Names,     \* documents
  Exclusive  \* does one work on a document at a time?

VARIABLES
  held,      \* held[n]: the pieces of document n whose text is stored, a maker and a place
  found,     \* found[n]: those a search finds
  promised   \* the documents answered as stored and not replaced, a name, a maker and a size

vars == <<held, found, promised>>

Init ==
  /\ held = [n \in Names |-> {}]
  /\ found = [n \in Names |-> {}]
  /\ promised = {}

Added(n) == held[n] \subseteq held'[n] /\ found[n] \subseteq found'[n]

Gone(n) == held'[n] = {}

OneMaker(pieces) == \A p, q \in pieces : p[1] = q[1]

Handle(n) ==
  /\ Added(n) \/ Gone(n)
  /\ \A m \in Names \ {n} : Added(m)
  /\ \A m \in Names : found'[m] \subseteq held'[m] /\ (Exclusive => OneMaker(held'[m]))
  /\ \A p \in promised \ promised' : p.name = n
  /\ \A p \in promised' : {p.maker} \X (1 .. p.size) \subseteq found'[p.name]

Next == \E n \in Names : Handle(n)

Spec == Init /\ [][Next]_vars
=============================================================================
