---------------------------- MODULE KnowledgeStore -----------------------------
(***************************************************************************)
(* What a search may rely on, told without uploads, events and consumers:  *)
(* the vectors of a document are in Milvus before it is READY, vectors and *)
(* READY are for good, a document is shown from the step that makes it     *)
(* READY until another one of its type is, and never again.                *)
(* KnowledgePipeline implements it and Retrieval is built on it.           *)
(***************************************************************************)

CONSTANTS Documents, TypeOf

VARIABLES
  ready,      \* documents that are READY
  shown,      \* ... those with is_current_ready
  inMilvus    \* documents whose vectors are in Milvus

vars == <<ready, shown, inMilvus>>

Init ==
  /\ ready = {}
  /\ shown = {}
  /\ inMilvus = {}

\* The vectors of a document are acknowledged.
Embed(d) ==
  /\ d \notin inMilvus
  /\ inMilvus' = inMilvus \cup {d}
  /\ UNCHANGED <<ready, shown>>

\* It is READY, once, and takes the place of the one that was shown.
Publish(d) ==
  /\ d \in inMilvus \ ready
  /\ ready' = ready \cup {d}
  /\ shown' = {c \in shown : TypeOf[c] # TypeOf[d]} \cup {d}
  /\ UNCHANGED inMilvus

Next == \E d \in Documents : Embed(d) \/ Publish(d)

Spec == Init /\ [][Next]_vars

================================================================================
