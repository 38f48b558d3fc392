------------------------------- MODULE Retrieval -------------------------------
(***************************************************************************)
(* knowledge-service: SearchProductKnowledge, while documents change.      *)
(*                                                                         *)
(* A search asks MySQL for the documents that are current, the model for   *)
(* the vector of its query, Milvus for the nearest chunks of just these    *)
(* documents, and MySQL again for the text of those chunks whose document  *)
(* is still current.  In between, documents become current and take the    *)
(* place of others: that is what KnowledgePipeline is about, and here a    *)
(* step of the KnowledgeStore it implements.  Nothing ever removes a       *)
(* vector or changes its is_current_ready.                                 *)
(*                                                                         *)
(* One product.  Milvus is taken to know all vectors that were acknowledged*)
(* and to find as many as it is asked for.  Left out: scores and texts.    *)
(***************************************************************************)
EXTENDS Integers, FiniteSets, SharedNames

CONSTANTS
  DocTypes,
  KnowledgeDocuments,
  TypeOf,         \* ... their doc_type
  ChunkCount,     \* ... and how many chunks each has
  Searches,       \* calls, one after the other
  TopKs,          \* what they ask for, 0 if they leave it out
  DefaultTopK,
  MaxTopK

ASSUME RetrievalConstants ==
  /\ TypeOf \in [KnowledgeDocuments -> DocTypes]
  /\ ChunkCount \in [KnowledgeDocuments -> Nat \ {0}]
  /\ TopKs \subseteq Nat /\ TopKs # {}
  /\ DefaultTopK \in Int
  /\ MaxTopK \in Int

ChunksOf(d) == {d} \X (1 .. ChunkCount[d])
AllChunks == UNION {ChunksOf(d) : d \in KnowledgeDocuments}
DocumentOfChunk(chunk) == chunk[1]

VARIABLES
  ready,      \* documents that are READY
  shown,      \* ... those with is_current_ready
  inMilvus,   \* documents whose vectors are in Milvus
  searching,  \* where a search is
  wanted,     \* the types it asks for, and top_k
  listed,     \* the documents it has found
  hits,       \* the chunks Milvus has found
  snippets    \* how it ended: the chunks, or why there are none

retrievalVars == <<ready, shown, inMilvus, searching, wanted, listed, hits, snippets>>
knowledgeRows == <<ready, shown, inMilvus>>
searchVars == <<searching, wanted, listed, hits, snippets>>

Store == INSTANCE KnowledgeStore WITH Documents <- KnowledgeDocuments

NoReadyKnowledge == {None}

RetrievalTypeOK ==
  /\ ready \subseteq KnowledgeDocuments
  /\ shown \subseteq ready
  /\ inMilvus \subseteq KnowledgeDocuments
  /\ searching \in [Searches -> {"idle", "list", "embed", "search", "hydrate"}]
  /\ wanted \in [Searches -> [types : SUBSET DocTypes, topK : TopKs]]
  /\ listed \in [Searches -> SUBSET KnowledgeDocuments]
  /\ hits \in [Searches -> SUBSET AllChunks]
  /\ snippets \in [Searches -> (SUBSET AllChunks) \cup {NoReadyKnowledge}]

Nothing == [types |-> {}, topK |-> CHOOSE k \in TopKs : TRUE]

RetrievalInit ==
  /\ Store!Init
  /\ searching = [s \in Searches |-> "idle"]
  /\ wanted = [s \in Searches |-> Nothing]
  /\ listed = [s \in Searches |-> {}]
  /\ hits = [s \in Searches |-> {}]
  /\ snippets = [s \in Searches |-> {}]

--------------------------------------------------------------------------------
(* The documents.                                                            *)

UpsertVectors(d) == Store!Embed(d) /\ UNCHANGED searchVars

\* MarkDocumentReadyWithVectors; READY is final, and never shown again once replaced.
BecomeCurrent(d) == Store!Publish(d) /\ UNCHANGED searchVars

--------------------------------------------------------------------------------
(* A search.                                                                 *)

\* topK
TopK(s) ==
  LET default == IF DefaultTopK <= 0 THEN 5 ELSE DefaultTopK
      max == IF MaxTopK <= 0 THEN 10 ELSE MaxTopK
      k == IF wanted[s].topK = 0 THEN default ELSE wanted[s].topK
  IN IF k > max THEN max ELSE k

Search(s, types, k) ==
  /\ searching[s] = "idle"
  /\ searching' = [searching EXCEPT ![s] = "list"]
  /\ wanted' = [wanted EXCEPT ![s] = [types |-> types, topK |-> k]]
  /\ snippets' = [snippets EXCEPT ![s] = {}]
  /\ UNCHANGED <<knowledgeRows, listed, hits>>

SearchEnds(s, result) ==
  /\ searching' = [searching EXCEPT ![s] = "idle"]
  /\ wanted' = [wanted EXCEPT ![s] = Nothing]
  /\ listed' = [listed EXCEPT ![s] = {}]
  /\ hits' = [hits EXCEPT ![s] = {}]
  /\ snippets' = [snippets EXCEPT ![s] = result]

\* No types are all of them.
AskedTypes(s) == IF wanted[s].types = {} THEN DocTypes ELSE wanted[s].types

CurrentReady(s) == {d \in shown : TypeOf[d] \in AskedTypes(s)}

ListCurrentReadyDocuments(s) ==
  /\ searching[s] = "list"
  /\ IF CurrentReady(s) = {}
     THEN SearchEnds(s, NoReadyKnowledge)
     ELSE /\ searching' = [searching EXCEPT ![s] = "embed"]
          /\ listed' = [listed EXCEPT ![s] = CurrentReady(s)]
          /\ UNCHANGED <<wanted, hits, snippets>>
  /\ UNCHANGED knowledgeRows

EmbedQuery(s) ==
  /\ searching[s] = "embed"
  /\ searching' = [searching EXCEPT ![s] = "search"]
  /\ UNCHANGED <<knowledgeRows, wanted, listed, hits, snippets>>

\* is_current_ready alone tells nothing apart ...
VectorFilterBug(s) == inMilvus

\* The filter names the documents; that their vectors are current is what Milvus was told
\* once, of every vector.
VectorFilter(s) == listed[s] \cap inMilvus

Smaller(m, n) == IF m < n THEN m ELSE n

\* Milvus: the nearest ones, whichever these are.
NearestChunks(s) ==
  LET chunks == UNION {ChunksOf(d) : d \in VectorFilter(s)}
  IN {found \in SUBSET chunks : Cardinality(found) = Smaller(TopK(s), Cardinality(chunks))}

VectorSearch(s) ==
  /\ searching[s] = "search"
  /\ \E found \in NearestChunks(s) : hits' = [hits EXCEPT ![s] = found]
  /\ searching' = [searching EXCEPT ![s] = "hydrate"]
  /\ UNCHANGED <<knowledgeRows, wanted, listed, snippets>>

Hydrated(chunk) == DocumentOfChunk(chunk) \in shown

HydrateKnowledgeSnippets(s) ==
  /\ searching[s] = "hydrate"
  /\ SearchEnds(s, {chunk \in hits[s] : Hydrated(chunk)})
  /\ UNCHANGED knowledgeRows

\* A call fails or its context ends.
SearchFails(s) ==
  /\ searching[s] # "idle"
  /\ SearchEnds(s, {})
  /\ UNCHANGED knowledgeRows

--------------------------------------------------------------------------------

SearchStep(s) ==
  \/ \E types \in SUBSET DocTypes, k \in TopKs : Search(s, types, k)
  \/ ListCurrentReadyDocuments(s)
  \/ EmbedQuery(s)
  \/ VectorSearch(s)
  \/ HydrateKnowledgeSnippets(s)
  \/ SearchFails(s)

RetrievalNext ==
  \/ \E d \in KnowledgeDocuments : UpsertVectors(d) \/ BecomeCurrent(d)
  \/ \E s \in Searches : SearchStep(s)

RetrievalSpec == RetrievalInit /\ [][RetrievalNext]_retrievalVars

--------------------------------------------------------------------------------
(* Properties                                                                *)

ListedChunks(s) == UNION {ChunksOf(d) : d \in listed[s]}

\* The vectors of old versions, which Milvus keeps with is_current_ready set, are neither
\* shown nor take the room of others: a search answers with chunks of documents that were
\* current when it listed them and are when it ends, never of two of one type; and if no
\* version changed in between, with as many as it was asked for and there are.
SearchShowsTheCurrent ==
  [][\A s \in Searches :
       HydrateKnowledgeSnippets(s) =>
         /\ \A chunk \in snippets'[s] :
              DocumentOfChunk(chunk) \in shown \cap listed[s]
         /\ \A c, d \in listed[s] : TypeOf[c] = TypeOf[d] => c = d
         /\ listed[s] \subseteq shown =>
              Cardinality(snippets'[s]) = Smaller(TopK(s), Cardinality(ListedChunks(s)))]_retrievalVars

================================================================================
