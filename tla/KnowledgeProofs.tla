---------------------------- MODULE KnowledgeProofs ----------------------------
(***************************************************************************)
(* Proofs about KnowledgePipeline, for any number of documents, requests,  *)
(* consumers, retries and faults, and about Chunker, for texts of any      *)
(* length and any limits.                                                  *)
(***************************************************************************)
EXTENDS KnowledgePipeline, Chunker, NumberTheorems, SequenceTheorems

--------------------------------------------------------------------------------
(* Facts about the operators the actions share.                              *)

LEMMA EventFacts ==
  /\ \A c \in Contents, n \in 0 .. MaxRetries : IngestEvent(c, n) \in Events
  /\ \A e \in Events : EmbedEvent(e) \in Events
  BY DEF Events, IngestEvent, EmbedEvent

\* An upload that goes on or ends keeps the types of the request table.
LEMMA UploadMoves ==
  ASSUME TypeOK, NEW r \in Requests, NEW call \in UploadCalls,
         UploadGoes(r, call) \/ UploadEnds(r)
  PROVE  /\ up' \in [Requests -> {"idle", "done"} \cup UploadCalls]
         /\ file' \in [Requests -> Contents \cup {None}]
         /\ drawn' \in [Requests -> Nat]
  BY DEF TypeOK, UploadGoes, UploadEnds

\* So does a handler's call, and the count of faults stays within its bound.
LEMMA HandlerMoves ==
  ASSUME TypeOK, NEW w \in Consumers, NEW call \in HandlerCalls,
         Goes(w, call)
  PROVE  /\ pc' \in [Consumers -> {"idle", "stopped"} \cup HandlerCalls]
         /\ message' \in [Consumers -> Messages \cup {None}]
         /\ faults' \in 0 .. MaxFaults
  BY KnowledgeConstants DEF TypeOK, Goes, Stop, Fault

LEMMA FaultMoves == ASSUME TypeOK, Fault PROVE faults' \in 0 .. MaxFaults
  BY KnowledgeConstants DEF TypeOK, Fault

LEMMA StopMoves ==
  ASSUME TypeOK, NEW w \in Consumers, Stop(w)
  PROVE  /\ pc' \in [Consumers -> {"idle", "stopped"} \cup HandlerCalls]
         /\ message' \in [Consumers -> Messages \cup {None}]
  BY DEF TypeOK, Stop

USE DEF documents, outboxes, offsets, uploads, consumers

LEMMA UploadTyping ==
  ASSUME TypeOK, UploadsInv, NEW r \in Requests, Upload(r)
  PROVE  TypeOK'
<1>1. ASSUME NEW c \in Contents, UploadDocument(r, c) PROVE TypeOK'
  BY <1>1 DEF UploadDocument, TypeOK, UploadCalls
<1>2. CASE FindDocumentBySourceHash(r)
  <2>1. UploadGoes(r, "version") \/ UploadEnds(r)
    BY <1>2 DEF FindDocumentBySourceHash
  <2> QED
    BY <1>2, <2>1, UploadMoves DEF FindDocumentBySourceHash, TypeOK, UploadCalls
<1>3. CASE NextDocumentVersion(r)
  BY <1>3 DEF NextDocumentVersion, TypeOK, UploadCalls, Saved
<1>4. CASE PutObject(r)
  <2>1. Key(r) \in Contents \X Nat
    BY <1>4 DEF PutObject, UploadsInv, UploadCalls, TypeOK, Key
  <2> QED
    BY <1>4, <2>1, UploadMoves, FaultMoves DEF PutObject, TypeOK, UploadCalls
<1>5. CASE CreateDocumentWithEvent(r)
  BY <1>5, UploadMoves, FaultMoves, EventFacts DEF CreateDocumentWithEvent, TypeOK, UploadCalls
<1>6. CASE DocumentNotInserted(r)
  BY <1>6, UploadMoves, FaultMoves DEF DocumentNotInserted, TypeOK, UploadCalls
<1>7. CASE Recheck(r)
  BY <1>7, UploadMoves, FaultMoves DEF Recheck, TypeOK, UploadCalls
<1>8. CASE DeleteObject(r)
  BY <1>8, UploadMoves DEF DeleteObject, TypeOK, UploadCalls
<1>9. CASE UploadLost(r)
  BY <1>9, UploadMoves, FaultMoves DEF UploadLost, TypeOK, UploadCalls
<1> QED
  BY <1>1, <1>2, <1>3, <1>4, <1>5, <1>6, <1>7, <1>8, <1>9 DEF Upload

LEMMA RetryTyping ==
  ASSUME TypeOK, NEW c \in Contents, RetryFailedDocument(c)
  PROVE  TypeOK'
<1>1. IngestEvent(c, retries[c] + 1) \in Events /\ retries[c] + 1 \in 0 .. MaxRetries
  BY KnowledgeConstants, EventFacts DEF RetryFailedDocument, TypeOK
<1> QED
  BY <1>1 DEF RetryFailedDocument, RetryEvent, TypeOK

LEMMA RelayTyping ==
  ASSUME TypeOK, NEW e \in Events, Relay(e)
  PROVE  TypeOK'
<1>1. CASE LeasePending(e)
  BY <1>1, FaultMoves, KnowledgeConstants DEF LeasePending, TypeOK
<1>2. CASE Publish(e)
  BY <1>2, KnowledgeConstants DEF Publish, AppendMessage, TypeOK
<1>3. CASE PublishUnrecorded(e)
  BY <1>3, FaultMoves, KnowledgeConstants DEF PublishUnrecorded, AppendMessage, TypeOK
<1>4. CASE PublishFails(e)
  BY <1>4, FaultMoves DEF PublishFails, TypeOK
<1> QED
  BY <1>1, <1>2, <1>3, <1>4 DEF Relay

\* The event of a consumer's message.
LEMMA MessageFacts ==
  ASSUME NEW m \in Messages
  PROVE  m.event \in Events /\ m.event.doc \in Contents /\ m.copy \in Nat
  BY DEF Messages, Events

Consume(w) ==
  Handle(w) \/ IdleTimeout(w) \/ CallFails(w) \/ EmbeddingFails(w) \/ Restart(w)

\* Outside its message every consumer keeps the types whatever it handles; what it
\* handles is a message when it is in a call, by HandlersInv.
LEMMA ConsumerTyping ==
  ASSUME TypeOK, HandlersInv, NEW w \in Consumers, Consume(w)
  PROVE  TypeOK'
<1>0. ASSUME pc[w] \in HandlerCalls
      PROVE  /\ message[w] \in Messages /\ EventOf(w) \in Events
             /\ DocumentOf(w) \in Contents /\ message[w].copy \in Nat
  BY <1>0, MessageFacts DEF HandlersInv, HandlerInv, EventOf, DocumentOf
<1>1. CASE FetchMessage(w)
  <2>1. PICK e \in Events :
          message' = [message EXCEPT ![w] = [event |-> e, copy |-> committed[e] + 1]]
    BY <1>1 DEF FetchMessage, Waiting
  <2>2. [event |-> e, copy |-> committed[e] + 1] \in Messages
    BY DEF TypeOK, Messages
  <2> QED
    BY <1>1, <2>1, <2>2 DEF FetchMessage, TypeOK, HandlerCalls
<1>2. CASE Restart(w)
  BY <1>2 DEF Restart, TypeOK
<1>3. CASE StartConsumption(w)
  <2>1. EventOf(w) \in Events
    BY <1>0, <1>3 DEF StartConsumption, HandlerCalls
  <2>2. Goes(w, "find") \/ Goes(w, "commit") \/ (Stop(w) /\ UNCHANGED faults)
    BY <1>3 DEF StartConsumption
  <2> QED
    BY <1>3, <2>1, <2>2, HandlerMoves, StopMoves DEF StartConsumption, TypeOK, HandlerCalls
<1>4. CASE FindDocumentByNo(w)
  BY <1>4 DEF FindDocumentByNo, TypeOK, HandlerCalls
<1>5. CASE MarkDocumentProcessing(w)
  <2>1. DocumentOf(w) \in Contents
    BY <1>0, <1>5 DEF MarkDocumentProcessing, HandlerCalls
  <2>2. Goes(w, "get") \/ (Stop(w) /\ UNCHANGED faults)
    BY <1>5 DEF MarkDocumentProcessing
  <2> QED
    BY <1>5, <2>1, <2>2, HandlerMoves, StopMoves
    DEF MarkDocumentProcessing, TypeOK, HandlerCalls
<1>6. CASE GetObject(w)
  BY <1>6, StopMoves DEF GetObject, TypeOK, HandlerCalls
<1>7. CASE MarkDocumentFailed(w)
  BY <1>0, <1>7, HandlerMoves DEF MarkDocumentFailed, TypeOK, HandlerCalls
<1>8. CASE SaveChunksAndEmbedEvent(w)
  BY <1>0, <1>8, HandlerMoves, EventFacts
  DEF SaveChunksAndEmbedEvent, ChunkEvent, TypeOK, HandlerCalls
<1>9. CASE ListDocumentChunks(w)
  BY <1>9 DEF ListDocumentChunks, TypeOK, HandlerCalls
<1>10. CASE UpsertChunks(w)
  BY <1>0, <1>10 DEF UpsertChunks, TypeOK, HandlerCalls
<1>11. CASE MarkDocumentReadyWithVectors(w)
  <2>1. DocumentOf(w) \in Contents /\ EventOf(w) \in Events
    BY <1>0, <1>11 DEF MarkDocumentReadyWithVectors, HandlerCalls
  <2>2. Goes(w, "succeed") \/ (Stop(w) /\ UNCHANGED faults)
    BY <1>11 DEF MarkDocumentReadyWithVectors
  <2>3. /\ pc' \in [Consumers -> {"idle", "stopped"} \cup HandlerCalls]
        /\ message' \in [Consumers -> Messages \cup {None}]
        /\ faults' \in 0 .. MaxFaults
    BY <2>2, HandlerMoves, StopMoves DEF TypeOK, HandlerCalls
  <2>4. /\ status' \in [Contents -> {"none", "PENDING", "PROCESSING", "READY", "FAILED"}]
        /\ chunks' \in [Contents -> {"none", "PENDING_EMBEDDING", "EMBEDDED"}]
        /\ current' \in [Contents -> BOOLEAN]
        /\ task' \in [Events -> {"none", "FAILED", "DONE"}]
        /\ UNCHANGED <<version, retries, vectors>>
    <3>1. CASE chunks[DocumentOf(w)] = "EMBEDDED"
      BY <1>11, <3>1 DEF MarkDocumentReadyWithVectors, TypeOK
    <3>2. CASE chunks[DocumentOf(w)] # "EMBEDDED"
      <4>1. /\ status' = [status EXCEPT ![DocumentOf(w)] = "READY"]
            /\ chunks' = [chunks EXCEPT ![DocumentOf(w)] = IF @ = "none" THEN @ ELSE "EMBEDDED"]
            /\ current' = Show(DocumentOf(w))
            /\ task' = [task EXCEPT ![EventOf(w)] = "DONE"]
            /\ UNCHANGED <<version, retries, vectors>>
        BY <1>11, <3>2 DEF MarkDocumentReadyWithVectors
      <4> QED
        BY <2>1, <4>1 DEF Show, TypeOK
    <3> QED
      BY <3>1, <3>2
  <2>5. UNCHANGED <<objects, outboxes, committed, consumption, uploads>>
    BY <1>11 DEF MarkDocumentReadyWithVectors
  <2> QED
    BY <2>3, <2>4, <2>5 DEF TypeOK
<1>12. CASE MarkConsumptionSucceeded(w)
  BY <1>0, <1>12, HandlerMoves DEF MarkConsumptionSucceeded, TypeOK, HandlerCalls
<1>13. CASE CommitMessages(w)
  <2>1. EventOf(w) \in Events /\ message[w].copy \in Nat
    BY <1>0, <1>13 DEF CommitMessages, HandlerCalls
  <2>2. committed' \in [Events -> Nat]
    BY <1>13, <2>1 DEF CommitMessages, TypeOK
  <2> QED
    BY <1>13, <2>2, FaultMoves, StopMoves DEF CommitMessages, TypeOK
<1>14. CASE IdleTimeout(w)
  BY <1>14, FaultMoves, StopMoves DEF IdleTimeout, TypeOK
<1>15. CASE CallFails(w)
  BY <1>15, FaultMoves, StopMoves DEF CallFails, TypeOK
<1>16. CASE EmbeddingFails(w)
  <2>1. DocumentOf(w) \in Contents /\ EventOf(w) \in Events
    BY <1>0, <1>16 DEF EmbeddingFails, HandlerCalls
  <2> QED
    BY <1>16, <2>1, FaultMoves, StopMoves DEF EmbeddingFails, TypeOK
<1> QED
  BY <1>1, <1>2, <1>3, <1>4, <1>5, <1>6, <1>7, <1>8, <1>9, <1>10, <1>11, <1>12, <1>13,
     <1>14, <1>15, <1>16
  DEF Consume, Handle

LEMMA Typing == TypeOK /\ UploadsInv /\ HandlersInv /\ [Next]_vars => TypeOK'
<1>1. ASSUME TypeOK, UNCHANGED vars PROVE TypeOK'
  BY <1>1 DEF TypeOK, vars
<1> QED
  BY <1>1, UploadTyping, RetryTyping, RelayTyping, ConsumerTyping DEF Next, Consume

--------------------------------------------------------------------------------
(* What a step does to the documents, with what the invariant knows of it.   *)

Inserts(c) ==
  /\ c \notin Saved
  /\ status' = [status EXCEPT ![c] = "PENDING"]
  /\ \E v \in Nat :
       /\ v > 0 /\ version' = [version EXCEPT ![c] = v]
       /\ \A d \in Saved : version[d] # v
       /\ v > 1 => \E d \in Saved : version[d] = v - 1
  /\ outbox' = [outbox EXCEPT ![IngestEvent(c, 0)] = "PENDING"]
  /\ UNCHANGED <<current, retries, chunks, vectors>>

Retries(c) ==
  /\ status[c] = "FAILED"
  /\ retries[c] + 1 \in 0 .. MaxRetries
  /\ status' = [status EXCEPT ![c] = "PENDING"]
  /\ retries' = [retries EXCEPT ![c] = @ + 1]
  /\ outbox' = [outbox EXCEPT ![IngestEvent(c, retries[c] + 1)] = "PENDING"]
  /\ UNCHANGED <<version, current, chunks, vectors>>

Processes(c) ==
  /\ status[c] = "PENDING"
  /\ status' = [status EXCEPT ![c] = "PROCESSING"]
  /\ UNCHANGED <<version, current, retries, chunks, vectors, outbox>>

Fails(c) ==
  /\ c \in Saved \ Splittable
  /\ status' = [status EXCEPT ![c] = "FAILED"]
  /\ current' = [current EXCEPT ![c] = FALSE]
  /\ UNCHANGED <<version, retries, chunks, vectors, outbox>>

Splits(c) ==
  /\ c \in Saved \cap Splittable
  /\ chunks' = [chunks EXCEPT ![c] = IF @ = "EMBEDDED" THEN @ ELSE "PENDING_EMBEDDING"]
  /\ \E f \in Events :
       /\ f.topic = "embed" /\ f.doc = c /\ f.no <= retries[c]
       /\ outbox' = [outbox EXCEPT ![f] = "PENDING"]
  /\ UNCHANGED <<status, version, current, retries, vectors>>

Embeds(c) ==
  /\ vectors' \in {vectors, vectors \cup {c}}
  /\ UNCHANGED <<status, version, current, retries, chunks, outbox>>

BecomesReady(c) ==
  /\ c \in Saved \cap Splittable
  /\ c \in vectors /\ chunks[c] = "PENDING_EMBEDDING"
  /\ status' = [status EXCEPT ![c] = "READY"]
  /\ chunks' = [chunks EXCEPT ![c] = "EMBEDDED"]
  /\ current' = Show(c)
  /\ UNCHANGED <<version, retries, vectors, outbox>>

DocumentStep ==
  \/ /\ UNCHANGED documents
     /\ outbox' \in [Events -> {"none", "PENDING", "PROCESSING", "PUBLISHED", "DEAD"}]
     /\ \A e \in Events : outbox'[e] = "none" <=> outbox[e] = "none"
  \/ \E c \in Contents : \/ Inserts(c) \/ Retries(c) \/ Processes(c) \/ Fails(c)
                         \/ Splits(c) \/ Embeds(c) \/ BecomesReady(c)

LEMMA UploadSteps ==
  ASSUME TypeOK, UploadsInv, NEW r \in Requests, Upload(r)
  PROVE  DocumentStep
<1>1. CASE CreateDocumentWithEvent(r)
  <2>1. file[r] \in Contents /\ drawn[r] \in Nat
    BY <1>1 DEF CreateDocumentWithEvent, UploadsInv, UploadCalls, TypeOK
  <2>2. drawn[r] > 0 /\ (drawn[r] > 1 => \E d \in Saved : version[d] = drawn[r] - 1)
    BY <1>1 DEF CreateDocumentWithEvent, UploadsInv
  <2>3. Inserts(file[r])
    BY <1>1, <2>1, <2>2 DEF CreateDocumentWithEvent, MayInsert, Inserts
  <2> QED
    BY <2>1, <2>3 DEF DocumentStep
<1>2. CASE UNCHANGED <<documents, outboxes>>
  BY <1>2 DEF DocumentStep, TypeOK
<1> QED
  BY <1>1, <1>2
  DEF Upload, UploadDocument, FindDocumentBySourceHash, NextDocumentVersion, PutObject,
      DocumentNotInserted, Recheck, DeleteObject, UploadLost

LEMMA RetrySteps ==
  ASSUME TypeOK, NEW c \in Contents, RetryFailedDocument(c)
  PROVE  DocumentStep
<1>1. Retries(c)
  BY KnowledgeConstants DEF RetryFailedDocument, MayRetry, RetryEvent, Retries, TypeOK
<1> QED
  BY <1>1 DEF DocumentStep

LEMMA RelaySteps ==
  ASSUME TypeOK, EventsInv, NEW e \in Events, Relay(e)
  PROVE  DocumentStep
<1>1. UNCHANGED documents
  BY DEF Relay, LeasePending, Publish, PublishUnrecorded, PublishFails
<1>2. UNCHANGED outbox
      \/ /\ outbox[e] # "none"
         /\ \E s \in {"PENDING", "PROCESSING", "PUBLISHED", "DEAD"} :
              outbox' = [outbox EXCEPT ![e] = s]
  BY DEF Relay, LeasePending, Publish, PublishUnrecorded, PublishFails
<1> QED
  BY <1>1, <1>2 DEF DocumentStep, TypeOK

\* The assignments of the calls that change documents, and nothing of the rest.
LEMMA ConsumerEffects ==
  ASSUME NEW w \in Consumers, Consume(w)
  PROVE  LET c == DocumentOf(w) IN
         \/ UNCHANGED <<documents, outboxes>>
         \/ /\ pc[w] = "processing" /\ status[c] = "PENDING"
            /\ status' = [status EXCEPT ![c] = "PROCESSING"]
            /\ UNCHANGED <<version, current, retries, chunks, vectors, outboxes>>
         \/ /\ pc[w] = "fail"
            /\ status' = [status EXCEPT ![c] = "FAILED"]
            /\ current' = [current EXCEPT ![c] = FALSE]
            /\ UNCHANGED <<version, retries, chunks, vectors, outboxes>>
         \/ /\ pc[w] = "save"
            /\ chunks' = [chunks EXCEPT ![c] =
                            IF @ = "EMBEDDED" THEN @ ELSE "PENDING_EMBEDDING"]
            /\ outbox' = ChunkEvent(EventOf(w))
            /\ UNCHANGED <<status, version, current, retries, vectors, attempts, appended>>
         \/ /\ pc[w] = "embed"
            /\ vectors' \in {vectors, vectors \cup {c}}
            /\ UNCHANGED <<status, version, current, retries, chunks, outboxes>>
         \/ /\ pc[w] = "ready" /\ chunks[c] # "EMBEDDED"
            /\ status' = [status EXCEPT ![c] = "READY"]
            /\ chunks' = [chunks EXCEPT ![c] = IF @ = "none" THEN @ ELSE "EMBEDDED"]
            /\ current' = Show(c)
            /\ UNCHANGED <<version, retries, vectors, outboxes>>
<1>1. CASE MarkDocumentProcessing(w)
  BY <1>1 DEF MarkDocumentProcessing
<1>2. CASE MarkDocumentFailed(w)
  BY <1>2 DEF MarkDocumentFailed
<1>3. CASE SaveChunksAndEmbedEvent(w)
  BY <1>3 DEF SaveChunksAndEmbedEvent
<1>4. CASE UpsertChunks(w) \/ EmbeddingFails(w)
  BY <1>4 DEF UpsertChunks, EmbeddingFails
<1>5. CASE MarkDocumentReadyWithVectors(w)
  <2>1. CASE chunks[DocumentOf(w)] = "EMBEDDED"
    BY <1>5, <2>1 DEF MarkDocumentReadyWithVectors
  <2>2. CASE chunks[DocumentOf(w)] # "EMBEDDED"
    BY <1>5, <2>2 DEF MarkDocumentReadyWithVectors
  <2> QED
    BY <2>1, <2>2
<1>6. CASE UNCHANGED <<documents, outboxes>>
  BY <1>6
<1> QED
  BY <1>1, <1>2, <1>3, <1>4, <1>5, <1>6
  DEF Consume, Handle, FetchMessage, Restart, StartConsumption, FindDocumentByNo, GetObject,
      ListDocumentChunks, MarkConsumptionSucceeded, CommitMessages, IdleTimeout, CallFails

LEMMA ConsumerSteps ==
  ASSUME TypeOK, EventsInv, DocumentsInv, HandlersInv, NEW w \in Consumers, Consume(w)
  PROVE  DocumentStep
<1> DEFINE c == DocumentOf(w)
<1>1. CASE UNCHANGED <<documents, outboxes>>
  BY <1>1 DEF DocumentStep, TypeOK
<1>2. CASE ~UNCHANGED <<documents, outboxes>>
  <2>1. pc[w] \in HandlerCalls
    BY <1>2, ConsumerEffects DEF HandlerCalls
  <2>2. /\ EventOf(w) \in Events /\ c \in Contents /\ c \in Saved
        /\ EventOf(w).no <= retries[c] /\ EventOf(w).doc = c /\ EventOf(w).topic = TopicOf(w)
        /\ outbox[EventOf(w)] # "none"
    <3>1. message[w] \in Messages /\ outbox[EventOf(w)] # "none" /\ EventOf(w).topic = TopicOf(w)
      BY <2>1 DEF HandlersInv, HandlerInv
    <3> QED
      BY <3>1, MessageFacts DEF EventsInv, EventOf, DocumentOf
  <2>3. CASE pc[w] = "processing"
    <3>1. Processes(c)
      BY <1>2, <2>3, ConsumerEffects DEF Processes
    <3> QED
      BY <2>2, <3>1 DEF DocumentStep
  <2>4. CASE pc[w] = "fail"
    <3>1. c \notin Splittable
      BY <2>1, <2>4 DEF HandlersInv, HandlerInv
    <3>2. Fails(c)
      BY <1>2, <2>2, <2>4, <3>1, ConsumerEffects DEF Fails
    <3> QED
      BY <2>2, <3>2 DEF DocumentStep
  <2>5. CASE pc[w] = "save"
    <3>1. c \in Splittable
      BY <2>1, <2>5 DEF HandlersInv, HandlerInv
    <3>2. /\ EmbedEvent(EventOf(w)) \in Events /\ EmbedEvent(EventOf(w)).topic = "embed"
          /\ EmbedEvent(EventOf(w)).doc = c /\ EmbedEvent(EventOf(w)).no <= retries[c]
      BY <2>2, EventFacts DEF EmbedEvent
    <3>3. /\ chunks' = [chunks EXCEPT ![c] = IF @ = "EMBEDDED" THEN @ ELSE "PENDING_EMBEDDING"]
          /\ outbox' = [outbox EXCEPT ![EmbedEvent(EventOf(w))] = "PENDING"]
          /\ UNCHANGED <<status, version, current, retries, vectors>>
      BY <1>2, <2>5, ConsumerEffects DEF ChunkEvent
    <3>4. Splits(c)
      BY <2>2, <3>1, <3>2, <3>3 DEF Splits
    <3> QED
      BY <2>2, <3>4 DEF DocumentStep
  <2>6. CASE pc[w] = "embed"
    <3>1. Embeds(c)
      BY <1>2, <2>6, ConsumerEffects DEF Embeds
    <3> QED
      BY <2>2, <3>1 DEF DocumentStep
  <2>7. CASE pc[w] = "ready"
    <3>1. w \in EmbedConsumers /\ c \in vectors
      BY <2>1, <2>7 DEF HandlersInv, HandlerInv
    <3>2. EventOf(w).topic = "embed"
      BY <2>2, <3>1, KnowledgeConstants DEF TopicOf
    <3>3. c \in Splittable /\ chunks[c] # "none"
      BY <2>2, <3>2 DEF EventsInv
    <3>4. /\ chunks[c] # "EMBEDDED"
          /\ status' = [status EXCEPT ![c] = "READY"]
          /\ chunks' = [chunks EXCEPT ![c] = IF @ = "none" THEN @ ELSE "EMBEDDED"]
          /\ current' = Show(c)
          /\ UNCHANGED <<version, retries, vectors, outboxes>>
      BY <1>2, <2>7, ConsumerEffects
    <3>5. chunks[c] = "PENDING_EMBEDDING" /\ chunks' = [chunks EXCEPT ![c] = "EMBEDDED"]
      BY <2>2, <3>3, <3>4 DEF TypeOK
    <3>6. BecomesReady(c)
      BY <2>2, <3>1, <3>3, <3>4, <3>5 DEF BecomesReady
    <3> QED
      BY <2>2, <3>6 DEF DocumentStep
  <2> QED
    BY <1>2, <2>3, <2>4, <2>5, <2>6, <2>7, ConsumerEffects
<1> QED
  BY <1>1, <1>2

LEMMA Steps == TypeOK /\ KnowledgeInv /\ [Next]_vars => DocumentStep
<1>1. ASSUME TypeOK, UNCHANGED vars PROVE DocumentStep
  BY <1>1 DEF DocumentStep, vars, TypeOK
<1> QED
  BY <1>1, UploadSteps, RetrySteps, RelaySteps, ConsumerSteps DEF Next, KnowledgeInv, Consume

--------------------------------------------------------------------------------
(* What no step takes back.                                                  *)

Monotone ==
  /\ \A e \in Events : outbox[e] # "none" => outbox'[e] # "none"
  /\ \A c \in Contents :
       /\ status[c] # "none" => status'[c] # "none" /\ version'[c] = version[c]
       /\ status[c] = "READY" => status'[c] = "READY"
       /\ chunks[c] # "none" => chunks'[c] # "none"
       /\ c \in vectors => c \in vectors'
       /\ retries'[c] \in {retries[c], retries[c] + 1}
       /\ retries'[c] = retries[c] =>
            /\ status[c] \in {"PROCESSING", "FAILED"} => status'[c] # "PENDING"
            /\ status[c] = "FAILED" => status'[c] # "PROCESSING"

LEMMA StepsAreMonotone ==
  ASSUME TypeOK, DocumentsInv, DocumentStep
  PROVE  Monotone
<1>1. CASE UNCHANGED documents /\ \A e \in Events : outbox'[e] = "none" <=> outbox[e] = "none"
  BY <1>1 DEF Monotone, TypeOK
<1>2. ASSUME NEW c \in Contents, Inserts(c) PROVE Monotone
  BY <1>2 DEF Inserts, Saved, Monotone, TypeOK
<1>3. ASSUME NEW c \in Contents, Retries(c) PROVE Monotone
  BY <1>3 DEF Retries, Monotone, TypeOK
<1>4. ASSUME NEW c \in Contents, Processes(c) PROVE Monotone
  BY <1>4 DEF Processes, Monotone, TypeOK
<1>5. ASSUME NEW c \in Contents, Fails(c) PROVE Monotone
  BY <1>5 DEF Fails, DocumentsInv, Saved, Monotone, TypeOK
<1>6. ASSUME NEW c \in Contents, Splits(c) PROVE Monotone
  BY <1>6 DEF Splits, Monotone, TypeOK
<1>7. ASSUME NEW c \in Contents, Embeds(c) PROVE Monotone
  BY <1>7 DEF Embeds, Monotone, TypeOK
<1>8. ASSUME NEW c \in Contents, BecomesReady(c) PROVE Monotone
  BY <1>8 DEF BecomesReady, Monotone, TypeOK
<1> QED
  BY <1>1, <1>2, <1>3, <1>4, <1>5, <1>6, <1>7, <1>8 DEF DocumentStep

\* An event whose part of the work is done stays so: a retry brings another event.
LEMMA FinishedKept ==
  ASSUME TypeOK, TypeOK', EventsInv, Monotone, NEW e \in Events, outbox[e] # "none", Finished(e)
  PROVE  Finished(e)'
<1>1. e.doc \in Contents /\ e.no \in Nat /\ EmbedEvent(e) \in Events
  <2>1. e.doc \in Contents /\ e.no \in Nat
    BY KnowledgeConstants DEF Events
  <2> QED
    BY <2>1, EventFacts
<1>2. CASE e.topic = "embed"
  BY <1>1, <1>2 DEF Finished, Monotone
<1>3. CASE e.topic # "embed"
  <2>1. e.no <= retries[e.doc]
    BY DEF EventsInv
  <2>2. CASE retries'[e.doc] = retries[e.doc]
    <3>1. CASE e.no # retries[e.doc]
      BY <1>3, <2>2, <3>1 DEF Finished
    <3>2. CASE status[e.doc] \in {"READY", "FAILED"}
      <4>1. status'[e.doc] \in {"READY", "FAILED"}
        BY <1>1, <2>2, <3>2 DEF Monotone, TypeOK
      <4> QED
        BY <1>3, <4>1 DEF Finished
    <3>3. CASE status[e.doc] = "PROCESSING" /\ outbox[EmbedEvent(e)] # "none"
      <4>1. status'[e.doc] \in {"PROCESSING", "READY", "FAILED"} /\ outbox'[EmbedEvent(e)] # "none"
        BY <1>1, <2>2, <3>3 DEF Monotone, TypeOK
      <4> QED
        BY <1>3, <4>1 DEF Finished, EmbedEvent
    <3> QED
      BY <1>3, <3>1, <3>2, <3>3 DEF Finished
  <2>3. CASE retries'[e.doc] = retries[e.doc] + 1
    <3>1. e.no # retries'[e.doc]
      BY <1>1, <2>1, <2>3 DEF TypeOK
    <3> QED
      BY <1>3, <3>1 DEF Finished
  <2> QED
    BY <1>1, <2>2, <2>3 DEF Monotone
<1> QED
  BY <1>2, <1>3

\* What a handler has seen to stays true while others act, as long as they leave its
\* consumption alone.
LEMMA HandlerKept ==
  ASSUME TypeOK, TypeOK', EventsInv, Monotone, NEW v \in Consumers, HandlerInv(v),
         pc'[v] = pc[v], message'[v] = message[v],
         pc[v] \in Working => consumption'[EventOf(v)] = consumption[EventOf(v)]
  PROVE  HandlerInv(v)'
<1> SUFFICES ASSUME pc[v] \in HandlerCalls PROVE HandlerInv(v)'
  BY DEF HandlerInv
<1> DEFINE e == EventOf(v)
<1>1. /\ message[v] \in Messages /\ e \in Events /\ e.doc \in Contents /\ e.no \in Nat
      /\ outbox[e] # "none"
  BY KnowledgeConstants, MessageFacts DEF HandlerInv, EventOf, Events
<1>2. EventOf(v)' = e /\ DocumentOf(v)' = e.doc /\ e = message[v].event /\ DocumentOf(v) = e.doc
  BY DEF EventOf, DocumentOf
<1>3. pc[v] \in {"get", "save"} /\ e.no = retries'[e.doc] => status'[e.doc] # "PENDING"
  <2>1. status[e.doc] # "none" /\ e.no <= retries[e.doc]
    BY <1>1 DEF EventsInv, Saved
  <2>2. ASSUME pc[v] \in {"get", "save"}, e.no = retries'[e.doc]
        PROVE  status'[e.doc] # "PENDING"
    <3>1. retries'[e.doc] = retries[e.doc]
      BY <1>1, <2>1, <2>2 DEF Monotone, TypeOK
    <3>2. status[e.doc] # "PENDING"
      BY <1>2, <2>2, <3>1 DEF HandlerInv
    <3> QED
      BY <1>1, <2>1, <3>1, <3>2 DEF Monotone, TypeOK
  <2> QED
    BY <2>2
<1>4. pc[v] = "succeed" => Finished(EventOf(v))'
  BY <1>1, <1>2, FinishedKept DEF HandlerInv
<1>5. pc[v] = "ready" => e.doc \in vectors'
  BY <1>1, <1>2 DEF HandlerInv, Monotone
<1>6. outbox'[e] # "none"
  BY <1>1 DEF Monotone
<1>7. pc[v] \in Working => consumption'[e] = "PROCESSING"
  BY DEF HandlerInv
<1> QED
  BY <1>1, <1>2, <1>3, <1>4, <1>5, <1>6, <1>7 DEF HandlerInv, TopicOf

--------------------------------------------------------------------------------
(* The parts of the invariant that are about documents.                      *)

LEMMA VisibilityKept ==
  ASSUME TypeOK, DocumentsInv, Visibility, DocumentStep
  PROVE  Visibility'
<1>1. CASE UNCHANGED documents
  BY <1>1 DEF Visibility
<1>2. ASSUME NEW c \in Contents, Inserts(c) PROVE Visibility'
  BY <1>2 DEF Inserts, Saved, Visibility, TypeOK
<1>3. ASSUME NEW c \in Contents, Retries(c) PROVE Visibility'
  BY <1>3 DEF Retries, Visibility, TypeOK
<1>4. ASSUME NEW c \in Contents, Processes(c) PROVE Visibility'
  BY <1>4 DEF Processes, Visibility, TypeOK
<1>5. ASSUME NEW c \in Contents, Fails(c) PROVE Visibility'
  BY <1>5 DEF Fails, DocumentsInv, Visibility, TypeOK
<1>6. ASSUME NEW c \in Contents, Splits(c) PROVE Visibility'
  BY <1>6 DEF Splits, Visibility, TypeOK
<1>7. ASSUME NEW c \in Contents, Embeds(c) PROVE Visibility'
  BY <1>7 DEF Embeds, Visibility, TypeOK
<1>8. ASSUME NEW c \in Contents, BecomesReady(c) PROVE Visibility'
  <2>1. /\ \A d \in Contents : current'[d] <=> d = c
        /\ status'[c] = "READY" /\ chunks'[c] = "EMBEDDED" /\ c \in vectors'
        /\ \A d \in Contents \ {c} : status'[d] = status[d] /\ chunks'[d] = chunks[d]
        /\ vectors' = vectors
    BY <1>8 DEF BecomesReady, Show, TypeOK
  <2> QED
    BY <2>1 DEF Visibility
<1> QED
  BY <1>1, <1>2, <1>3, <1>4, <1>5, <1>6, <1>7, <1>8 DEF DocumentStep

LEMMA VersionsKept ==
  ASSUME TypeOK, VersionsHaveNoGap, DocumentStep, TypeOK'
  PROVE  VersionsHaveNoGap'
<1>1. ASSUME NEW c \in Contents, Inserts(c) PROVE VersionsHaveNoGap'
  <2>1. PICK v \in Nat :
          /\ v > 0 /\ version' = [version EXCEPT ![c] = v]
          /\ \A d \in Saved : version[d] # v
          /\ v > 1 => \E d \in Saved : version[d] = v - 1
    BY <1>1 DEF Inserts
  <2>2. Saved' = Saved \cup {c} /\ c \notin Saved
    BY <1>1 DEF Inserts, Saved, TypeOK
  <2>3. version'[c] = v /\ \A d \in Saved : version'[d] = version[d]
    BY <2>1, <2>2 DEF Saved, TypeOK
  <2> QED
    BY <2>1, <2>2, <2>3 DEF VersionsHaveNoGap
<1>2. CASE \A c \in Contents : ~Inserts(c)
  <2>1. Saved' = Saved /\ version' = version
    BY <1>2 DEF DocumentStep, Retries, Processes, Fails, Splits, Embeds, BecomesReady,
                Saved, TypeOK
  <2> QED
    BY <2>1 DEF VersionsHaveNoGap
<1> QED
  BY <1>1, <1>2

LEMMA DocumentsInvKept ==
  ASSUME TypeOK, DocumentsInv, DocumentStep
  PROVE  DocumentsInv'
<1>0. \A c \in Contents, d \in Contents, n \in 0 .. MaxRetries, m \in 0 .. MaxRetries :
        IngestEvent(c, n) \in Events /\ (IngestEvent(c, n) = IngestEvent(d, m) => c = d)
  BY EventFacts DEF IngestEvent
<1>1. CASE UNCHANGED documents /\ \A e \in Events : outbox'[e] = "none" <=> outbox[e] = "none"
  <2>1. \A c \in Contents : IngestEvent(c, retries[c]) \in Events
    BY <1>0 DEF TypeOK
  <2> QED
    BY <1>1, <2>1 DEF DocumentsInv, Saved
<1>2. ASSUME NEW c \in Contents, Inserts(c) PROVE DocumentsInv'
  <2>1. retries[c] = 0 /\ IngestEvent(c, 0) \in Events
    BY <1>0, <1>2, KnowledgeConstants DEF Inserts, DocumentsInv
  <2>2. /\ status' = [status EXCEPT ![c] = "PENDING"] /\ retries' = retries
        /\ outbox' = [outbox EXCEPT ![IngestEvent(c, 0)] = "PENDING"]
    BY <1>2 DEF Inserts
  <2> QED
    BY <2>1, <2>2 DEF DocumentsInv, Saved, TypeOK
<1>3. ASSUME NEW c \in Contents, Retries(c) PROVE DocumentsInv'
  <2>1. c \notin Splittable /\ IngestEvent(c, retries[c] + 1) \in Events
    BY <1>0, <1>3 DEF Retries, DocumentsInv
  <2>2. /\ status' = [status EXCEPT ![c] = "PENDING"]
        /\ retries' = [retries EXCEPT ![c] = retries[c] + 1]
        /\ outbox' = [outbox EXCEPT ![IngestEvent(c, retries[c] + 1)] = "PENDING"]
        /\ status[c] = "FAILED"
    BY <1>3 DEF Retries
  <2> QED
    BY <2>1, <2>2 DEF DocumentsInv, Saved, TypeOK
<1>4. ASSUME NEW c \in Contents, Processes(c) PROVE DocumentsInv'
  BY <1>4 DEF Processes, DocumentsInv, Saved, TypeOK
<1>5. ASSUME NEW c \in Contents, Fails(c) PROVE DocumentsInv'
  BY <1>5 DEF Fails, DocumentsInv, Saved, TypeOK
<1>6. ASSUME NEW c \in Contents, Splits(c) PROVE DocumentsInv'
  BY <1>6 DEF Splits, DocumentsInv, Saved, TypeOK
<1>7. ASSUME NEW c \in Contents, Embeds(c) PROVE DocumentsInv'
  BY <1>7 DEF Embeds, DocumentsInv, Saved, TypeOK
<1>8. ASSUME NEW c \in Contents, BecomesReady(c) PROVE DocumentsInv'
  BY <1>8 DEF BecomesReady, DocumentsInv, Saved, TypeOK
<1> QED
  BY <1>1, <1>2, <1>3, <1>4, <1>5, <1>6, <1>7, <1>8 DEF DocumentStep

\* A document is hidden only by the one that becomes READY.
LEMMA HiddenByTheNext ==
  ASSUME TypeOK, DocumentsInv, Visibility, DocumentStep, NEW c \in Contents,
         current[c], ~current'[c]
  PROVE  \E d \in Contents : status[d] # "READY" /\ status'[d] = "READY" /\ current'[d]
<1>1. PICK d \in Contents : Fails(d) \/ BecomesReady(d)
  BY DEF DocumentStep, Inserts, Retries, Processes, Splits, Embeds
<1>2. ~Fails(d)
  BY DEF Fails, DocumentsInv, Visibility, TypeOK
<1>3. BecomesReady(d)
  BY <1>1, <1>2
<1>4. status[d] # "READY"
  BY <1>3 DEF BecomesReady, Visibility
<1> QED
  BY <1>3, <1>4 DEF BecomesReady, Show, TypeOK

--------------------------------------------------------------------------------
(* Events, uploads and handlers.                                             *)

\* Who changes the consumption of an event.
Consumes(w) ==
  \/ /\ pc[w] = "start" /\ consumption[EventOf(w)] = "none"
     /\ consumption' = [consumption EXCEPT ![EventOf(w)] = "PROCESSING"]
  \/ /\ pc[w] = "succeed"
     /\ consumption' = [consumption EXCEPT ![EventOf(w)] = "SUCCEEDED"]

LEMMA ConsumptionSteps ==
  ASSUME [Next]_vars, consumption' # consumption
  PROVE  \E w \in Consumers : Consume(w) /\ Consumes(w)
<1>1. PICK w \in Consumers : Consume(w)
  BY DEF Next, vars, Consume, Upload, UploadDocument, FindDocumentBySourceHash,
         NextDocumentVersion, PutObject, CreateDocumentWithEvent, DocumentNotInserted,
         Recheck, DeleteObject, UploadLost, RetryFailedDocument, Relay, LeasePending,
         Publish, PublishUnrecorded, PublishFails
<1>2. StartConsumption(w) \/ MarkConsumptionSucceeded(w)
  BY <1>1 DEF Consume, Handle, FetchMessage, Restart, FindDocumentByNo,
              MarkDocumentProcessing, GetObject, MarkDocumentFailed, SaveChunksAndEmbedEvent,
              ListDocumentChunks, UpsertChunks, MarkDocumentReadyWithVectors,
              CommitMessages, IdleTimeout, CallFails, EmbeddingFails
<1>3. Consumes(w)
  BY <1>2 DEF StartConsumption, MarkConsumptionSucceeded, Consumes
<1> QED
  BY <1>1, <1>3

\* An event that does not exist is not sent.
LEMMA UnsentEvents ==
  ASSUME TypeOK, EventsInv, [Next]_vars, NEW e \in Events, outbox[e] = "none"
  PROVE  attempts'[e] = 0 /\ appended'[e] = 0
<1>1. attempts[e] = 0 /\ appended[e] = 0
  BY DEF EventsInv
<1>2. ASSUME NEW f \in Events, Relay(f) PROVE attempts'[e] = 0 /\ appended'[e] = 0
  <2>1. f # e
    BY <1>1, <1>2 DEF Relay, LeasePending, Publish, PublishUnrecorded, PublishFails
  <2> QED
    BY <1>1, <1>2, <2>1 DEF Relay, LeasePending, Publish, PublishUnrecorded, PublishFails,
                            AppendMessage, TypeOK
<1>3. CASE UNCHANGED <<attempts, appended>>
  BY <1>1, <1>3
<1>4. ASSUME NEW w \in Consumers, Consume(w) PROVE UNCHANGED <<attempts, appended>>
  BY <1>4, ConsumerEffects
<1> QED
  BY <1>2, <1>3, <1>4
  DEF Next, vars, Consume, Upload, UploadDocument, FindDocumentBySourceHash,
      NextDocumentVersion, PutObject, CreateDocumentWithEvent, DocumentNotInserted,
      Recheck, DeleteObject, UploadLost, RetryFailedDocument

LEMMA EventsInvKept ==
  ASSUME TypeOK, TypeOK', KnowledgeInv, DocumentStep, Monotone, [Next]_vars
  PROVE  EventsInv'
<1> USE DEF KnowledgeInv
<1> SUFFICES ASSUME NEW e \in Events
             PROVE  /\ outbox'[e] = "none" =>
                         attempts'[e] = 0 /\ appended'[e] = 0 /\ consumption'[e] = "none"
                    /\ outbox'[e] # "none" => e.doc \in Saved' /\ e.no <= retries'[e.doc]
                    /\ outbox'[e] # "none" /\ e.topic = "embed" =>
                         e.doc \in Splittable /\ chunks'[e.doc] # "none"
                    /\ consumption'[e] = "SUCCEEDED" => Finished(e)'
  BY DEF EventsInv
<1>0. e.doc \in Contents /\ e.no \in Nat
  BY KnowledgeConstants DEF Events
<1>1. ASSUME NEW w \in Consumers, Consumes(w)
      PROVE  /\ EventOf(w) \in Events /\ outbox[EventOf(w)] # "none"
             /\ pc[w] = "succeed" => Finished(EventOf(w))
  <2>1. pc[w] \in HandlerCalls
    BY <1>1 DEF Consumes, HandlerCalls
  <2>2. HandlerInv(w)
    BY DEF HandlersInv
  <2> QED
    BY <2>1, <2>2, MessageFacts DEF HandlerInv, EventOf
<1>2. consumption'[e] # consumption[e] =>
        /\ outbox[e] # "none"
        /\ consumption'[e] = "PROCESSING" \/ (consumption'[e] = "SUCCEEDED" /\ Finished(e))
  <2>1. SUFFICES ASSUME consumption'[e] # consumption[e]
                 PROVE  /\ outbox[e] # "none"
                        /\ \/ consumption'[e] = "PROCESSING"
                           \/ consumption'[e] = "SUCCEEDED" /\ Finished(e)
    OBVIOUS
  <2>2. PICK w \in Consumers : Consumes(w)
    BY <2>1, ConsumptionSteps
  <2>3. EventOf(w) = e
    BY <2>1, <2>2 DEF Consumes, TypeOK
  <2>4. outbox[e] # "none" /\ (pc[w] = "succeed" => Finished(e))
    BY <1>1, <2>2, <2>3
  <2> QED
    BY <2>2, <2>3, <2>4 DEF Consumes, TypeOK
<1>3. outbox'[e] = "none" =>
        attempts'[e] = 0 /\ appended'[e] = 0 /\ consumption'[e] = "none"
  BY <1>2, UnsentEvents DEF Monotone, EventsInv
<1>4. consumption'[e] = "SUCCEEDED" => Finished(e)'
  BY <1>2, FinishedKept DEF EventsInv
<1>5. outbox[e] # "none" =>
        /\ e.doc \in Saved' /\ e.no <= retries'[e.doc]
        /\ e.topic = "embed" => e.doc \in Splittable /\ chunks'[e.doc] # "none"
  <2>1. SUFFICES ASSUME outbox[e] # "none"
                 PROVE  /\ e.doc \in Saved' /\ e.no <= retries'[e.doc]
                        /\ e.topic = "embed" => e.doc \in Splittable /\ chunks'[e.doc] # "none"
    OBVIOUS
  <2>2. /\ e.doc \in Saved /\ e.no <= retries[e.doc]
        /\ e.topic = "embed" => e.doc \in Splittable /\ chunks[e.doc] # "none"
    BY <2>1 DEF EventsInv
  <2>3. retries'[e.doc] \in {retries[e.doc], retries[e.doc] + 1}
    BY <1>0 DEF Monotone
  <2> QED
    BY <1>0, <2>2, <2>3 DEF Monotone, Saved, TypeOK
<1>6. ASSUME outbox[e] = "none", outbox'[e] # "none"
      PROVE  /\ e.doc \in Saved' /\ e.no <= retries'[e.doc]
             /\ e.topic = "embed" => e.doc \in Splittable /\ chunks'[e.doc] # "none"
  <2>1. PICK c \in Contents : Inserts(c) \/ Retries(c) \/ Splits(c)
    BY <1>6 DEF DocumentStep, Processes, Fails, Embeds, BecomesReady
  <2>2. CASE Inserts(c)
    <3>1. e = IngestEvent(c, 0)
      BY <1>6, <2>2 DEF Inserts, TypeOK
    <3> QED
      BY <2>2, <3>1, KnowledgeConstants DEF Inserts, IngestEvent, Saved, TypeOK
  <2>3. CASE Retries(c)
    <3>1. e = IngestEvent(c, retries[c] + 1)
      BY <1>6, <2>3 DEF Retries, TypeOK
    <3> QED
      BY <2>3, <3>1, KnowledgeConstants DEF Retries, IngestEvent, Saved, TypeOK
  <2>4. CASE Splits(c)
    <3>1. e.topic = "embed" /\ e.doc = c /\ e.no <= retries[c]
      BY <1>6, <2>4 DEF Splits, TypeOK
    <3> QED
      BY <2>4, <3>1 DEF Splits, Saved, TypeOK
  <2> QED
    BY <2>1, <2>2, <2>3, <2>4
<1> QED
  BY <1>3, <1>4, <1>5, <1>6

\* What UploadsInv says of one request.
Drawn(n) == n > 0 /\ (n > 1 => \E c \in Saved : version[c] = n - 1)

LEMMA UploadsInvKept ==
  ASSUME TypeOK, TypeOK', UploadsInv, Monotone, [Next]_vars
  PROVE  UploadsInv'
<1> DEFINE After == {"put", "create", "recheck", "cleanup"}
<1>1. ASSUME NEW n \in Nat, Drawn(n) PROVE Drawn(n)'
  <2>1. CASE n > 1
    <3>1. PICK c \in Saved : version[c] = n - 1
      BY <1>1, <2>1 DEF Drawn
    <3>2. c \in Saved' /\ version'[c] = n - 1
      BY <3>1 DEF Saved, Monotone
    <3> QED
      BY <1>1, <3>2 DEF Drawn
  <2> QED
    BY <1>1, <2>1 DEF Drawn
<1>2. ASSUME NEW r \in Requests,
             /\ up'[r] \in UploadCalls => file'[r] \in Contents
             /\ up'[r] \in After => Drawn(drawn[r]) /\ drawn'[r] = drawn[r]
      PROVE  /\ up'[r] \in UploadCalls => file'[r] \in Contents
             /\ up'[r] \in After => Drawn(drawn[r])'
  BY <1>1, <1>2 DEF Drawn, TypeOK
<1>3. UploadsInv <=>
        \A r \in Requests : /\ up[r] \in UploadCalls => file[r] \in Contents
                            /\ up[r] \in After => Drawn(drawn[r])
  BY DEF UploadsInv, Drawn
<1>4. UploadsInv' <=>
        \A r \in Requests : /\ up'[r] \in UploadCalls => file'[r] \in Contents
                            /\ up'[r] \in After => Drawn(drawn[r])'
  BY DEF UploadsInv, Drawn
<1>5. CASE UNCHANGED uploads
  BY <1>2, <1>3, <1>4, <1>5
<1>6. ASSUME NEW q \in Requests, Upload(q) PROVE UploadsInv'
  <2>1. \A r \in Requests \ {q} : up'[r] = up[r] /\ file'[r] = file[r] /\ drawn'[r] = drawn[r]
    BY <1>6 DEF Upload, UploadDocument, FindDocumentBySourceHash, NextDocumentVersion,
                PutObject, CreateDocumentWithEvent, DocumentNotInserted, Recheck, DeleteObject,
                UploadLost, UploadGoes, UploadEnds, TypeOK
  <2>2. CASE NextDocumentVersion(q)
    <3>1. PICK v \in {0} \cup {version[c] : c \in Saved} : drawn' = [drawn EXCEPT ![q] = v + 1]
      BY <2>2 DEF NextDocumentVersion
    <3>2. v \in Nat
      BY DEF TypeOK, Saved
    <3>3. Drawn(v + 1)
      BY <3>1, <3>2 DEF Drawn
    <3>4. drawn'[q] = v + 1 /\ Drawn(v + 1)'
      BY <1>1, <3>1, <3>2, <3>3 DEF TypeOK
    <3>5. Drawn(drawn[q])' /\ file'[q] \in Contents
      BY <2>2, <3>4, <1>3 DEF Drawn, NextDocumentVersion, UploadCalls
    <3> QED
      BY <1>2, <1>3, <1>4, <2>1, <3>5
  <2>3. CASE ~NextDocumentVersion(q)
    <3>1. /\ up'[q] \in UploadCalls => file'[q] \in Contents
          /\ up'[q] \in After => up[q] \in After /\ drawn'[q] = drawn[q]
      BY <1>3, <1>6, <2>3
      DEF Upload, UploadDocument, FindDocumentBySourceHash, PutObject, CreateDocumentWithEvent,
          DocumentNotInserted, Recheck, DeleteObject, UploadLost, UploadGoes, UploadEnds,
          UploadCalls, TypeOK
    <3> QED
      BY <1>2, <1>3, <1>4, <2>1, <3>1
  <2> QED
    BY <2>2, <2>3
<1>7. UNCHANGED uploads \/ \E q \in Requests : Upload(q)
  <2>1. ASSUME NEW c \in Contents, RetryFailedDocument(c) PROVE UNCHANGED uploads
    BY <2>1 DEF RetryFailedDocument
  <2>2. ASSUME NEW e \in Events, Relay(e) PROVE UNCHANGED uploads
    BY <2>2 DEF Relay, LeasePending, Publish, PublishUnrecorded, PublishFails
  <2>3. ASSUME NEW w \in Consumers,
               FetchMessage(w) \/ Restart(w) \/ StartConsumption(w) \/ FindDocumentByNo(w)
               \/ MarkDocumentProcessing(w) \/ GetObject(w) \/ MarkDocumentFailed(w)
        PROVE  UNCHANGED uploads
    BY <2>3 DEF FetchMessage, Restart, StartConsumption, FindDocumentByNo,
                MarkDocumentProcessing, GetObject, MarkDocumentFailed
  <2>4. ASSUME NEW w \in Consumers,
               SaveChunksAndEmbedEvent(w) \/ ListDocumentChunks(w) \/ UpsertChunks(w)
               \/ MarkDocumentReadyWithVectors(w) \/ MarkConsumptionSucceeded(w)
               \/ CommitMessages(w) \/ IdleTimeout(w) \/ CallFails(w) \/ EmbeddingFails(w)
        PROVE  UNCHANGED uploads
    BY <2>4 DEF SaveChunksAndEmbedEvent, ListDocumentChunks, UpsertChunks,
                MarkDocumentReadyWithVectors, MarkConsumptionSucceeded, CommitMessages,
                IdleTimeout, CallFails, EmbeddingFails
  <2>5. CASE UNCHANGED vars
    BY <2>5 DEF vars
  <2> QED
    BY <2>1, <2>2, <2>3, <2>4, <2>5 DEF Next, Handle
<1> QED
  BY <1>5, <1>6, <1>7

\* Where a call takes its handler.
LEMMA ConsumerMoves ==
  ASSUME TypeOK, NEW w \in Consumers, Consume(w)
  PROVE  /\ \A v \in Consumers \ {w} : pc'[v] = pc[v] /\ message'[v] = message[v]
         /\ \/ pc'[w] \notin HandlerCalls
            \/ FetchMessage(w)
            \/ pc[w] \in HandlerCalls /\ message'[w] = message[w]
<1> USE DEF TypeOK, HandlerCalls
<1>1. CASE FetchMessage(w) \/ Restart(w) \/ FindDocumentByNo(w) \/ GetObject(w)
           \/ ListDocumentChunks(w) \/ UpsertChunks(w) \/ CommitMessages(w)
  BY <1>1 DEF FetchMessage, Restart, FindDocumentByNo, GetObject, ListDocumentChunks,
              UpsertChunks, CommitMessages, Stop
<1>2. CASE StartConsumption(w)
  BY <1>2 DEF StartConsumption, Goes, Stop
<1>3. CASE MarkDocumentProcessing(w) \/ MarkDocumentFailed(w) \/ SaveChunksAndEmbedEvent(w)
           \/ MarkConsumptionSucceeded(w)
  BY <1>3 DEF MarkDocumentProcessing, MarkDocumentFailed, SaveChunksAndEmbedEvent,
              MarkConsumptionSucceeded, Goes, Stop
<1>4. CASE MarkDocumentReadyWithVectors(w)
  <2>1. pc[w] = "ready" /\ (Goes(w, "succeed") \/ Stop(w))
    BY <1>4 DEF MarkDocumentReadyWithVectors
  <2> QED
    BY <2>1 DEF Goes, Stop
<1>5. CASE IdleTimeout(w) \/ CallFails(w) \/ EmbeddingFails(w)
  BY <1>5 DEF IdleTimeout, CallFails, EmbeddingFails, Stop
<1> QED
  BY <1>1, <1>2, <1>3, <1>4, <1>5 DEF Consume, Handle

LEMMA ActingHandler ==
  ASSUME TypeOK, TypeOK', KnowledgeInv, Monotone, NEW w \in Consumers, Consume(w)
  PROVE  HandlerInv(w)'
<1> USE DEF KnowledgeInv
<1> DEFINE e == message[w].event
<1>1. CASE pc'[w] \notin HandlerCalls
  BY <1>1 DEF HandlerInv
<1>2. CASE FetchMessage(w)
  <2>1. PICK f \in Events : /\ f.topic = TopicOf(w) /\ committed[f] < appended[f]
                            /\ message' = [message EXCEPT ![w] = [event |-> f, copy |-> committed[f] + 1]]
    BY <1>2 DEF FetchMessage, Waiting
  <2>2. message'[w] = [event |-> f, copy |-> committed[f] + 1] /\ pc'[w] = "start"
    BY <1>2, <2>1 DEF FetchMessage, TypeOK
  <2>3. committed[f] \in Nat /\ appended[f] \in Nat
    BY DEF TypeOK
  <2>4. outbox[f] # "none"
    BY <2>1, <2>3 DEF EventsInv
  <2>5. outbox'[f] # "none" /\ message'[w] \in Messages /\ message'[w].event = f
    BY <2>2, <2>3, <2>4 DEF Monotone, Messages
  <2> QED
    BY <2>1, <2>2, <2>5 DEF HandlerInv, EventOf, TopicOf, HandlerCalls, Working
<1>3. CASE pc[w] \in HandlerCalls /\ message'[w] = message[w] /\ pc'[w] \in HandlerCalls
  <2>1. /\ message[w] \in Messages /\ e \in Events /\ e.doc \in Contents /\ e.no \in Nat
        /\ outbox[e] # "none" /\ e.topic = TopicOf(w)
    BY <1>3, MessageFacts, KnowledgeConstants DEF HandlersInv, HandlerInv, EventOf, Events
  <2>2. /\ EventOf(w) = e /\ DocumentOf(w) = e.doc
        /\ EventOf(w)' = e /\ DocumentOf(w)' = e.doc
    BY <1>3 DEF EventOf, DocumentOf
  <2>3. outbox'[e] # "none" /\ e.doc \in Saved /\ e.no <= retries[e.doc]
    BY <2>1 DEF Monotone, EventsInv
  <2>4. /\ pc[w] \in Working => consumption[e] = "PROCESSING"
        /\ pc[w] \in {"processing", "get", "fail", "save"} => w \in IngestConsumers
        /\ pc[w] \in {"list", "embed", "ready"} => w \in EmbedConsumers
        /\ pc[w] = "fail" => e.doc \notin Splittable
        /\ pc[w] = "save" => e.doc \in Splittable
        /\ pc[w] \in {"get", "save"} /\ e.no = retries[e.doc] => status[e.doc] # "PENDING"
        /\ pc[w] = "ready" => e.doc \in vectors
        /\ pc[w] = "succeed" => Finished(EventOf(w))
    BY <1>3, <2>2 DEF HandlersInv, HandlerInv
  <2>5. SUFFICES
          /\ pc'[w] \in Working => consumption'[e] = "PROCESSING"
          /\ pc'[w] \in {"processing", "get", "fail", "save"} => w \in IngestConsumers
          /\ pc'[w] \in {"list", "embed", "ready"} => w \in EmbedConsumers
          /\ pc'[w] = "fail" => e.doc \notin Splittable
          /\ pc'[w] = "save" => e.doc \in Splittable
          /\ pc'[w] \in {"get", "save"} /\ e.no = retries'[e.doc] => status'[e.doc] # "PENDING"
          /\ pc'[w] = "ready" => e.doc \in vectors'
          /\ pc'[w] = "succeed" => Finished(EventOf(w))'
    BY <1>3, <2>1, <2>2, <2>3 DEF HandlerInv, TopicOf
  <2> USE DEF HandlerCalls, Working
  <2>6. CASE StartConsumption(w)
    <3>1. \/ pc'[w] = "find" /\ consumption'[e] = "PROCESSING"
          \/ pc'[w] = "commit"
      BY <1>3, <2>1, <2>2, <2>6 DEF StartConsumption, Goes, Stop, TypeOK
    <3> QED
      BY <3>1
  <2>7. CASE FindDocumentByNo(w)
    <3>1. UNCHANGED <<documents, outboxes, offsets>> /\ pc[w] = "find"
      BY <2>7 DEF FindDocumentByNo
    <3>2. \/ pc'[w] = "succeed" /\ status[e.doc] = "READY"
          \/ pc'[w] = "list" /\ w \in EmbedConsumers
          \/ pc'[w] = "fail" /\ w \in IngestConsumers /\ e.doc \notin Splittable
          \/ pc'[w] = "processing" /\ w \in IngestConsumers
      BY <2>2, <2>7 DEF FindDocumentByNo, TypeOK, Consumers
    <3>3. status[e.doc] = "READY" => Finished(EventOf(w))'
      BY <2>2, <3>1 DEF Finished
    <3> QED
      BY <2>4, <3>1, <3>2, <3>3
  <2>8. CASE MarkDocumentProcessing(w)
    <3>1. /\ pc'[w] = "get" /\ status'[e.doc] = "PROCESSING" /\ pc[w] = "processing"
          /\ UNCHANGED consumption
      BY <1>3, <2>1, <2>2, <2>8 DEF MarkDocumentProcessing, Goes, Stop, TypeOK
    <3> QED
      BY <2>4, <3>1
  <2>9. CASE GetObject(w)
    <3>1. /\ pc[w] = "get" /\ UNCHANGED <<documents, outboxes, offsets>>
          /\ \/ pc'[w] = "save" /\ e.doc \in Splittable
             \/ pc'[w] = "fail" /\ e.doc \notin Splittable
      BY <1>3, <2>1, <2>2, <2>9 DEF GetObject, Stop, TypeOK
    <3> QED
      BY <2>4, <3>1
  <2>10. CASE MarkDocumentFailed(w)
    <3>1. /\ pc[w] = "fail" /\ pc'[w] = "succeed" /\ status'[e.doc] = "FAILED"
          /\ UNCHANGED consumption
      BY <1>3, <2>1, <2>2, <2>10 DEF MarkDocumentFailed, Goes, Stop, TypeOK
    <3>2. e.topic = "ingest"
      BY <2>1, <2>4, <3>1 DEF TopicOf
    <3>3. Finished(EventOf(w))'
      BY <2>2, <3>1, <3>2 DEF Finished
    <3> QED
      BY <2>4, <3>1, <3>3
  <2>11. CASE SaveChunksAndEmbedEvent(w)
    <3>1. /\ pc[w] = "save" /\ pc'[w] = "succeed" /\ outbox'[EmbedEvent(e)] = "PENDING"
          /\ UNCHANGED <<status, retries, consumption>>
      BY <1>3, <2>1, <2>2, <2>11, EventFacts
      DEF SaveChunksAndEmbedEvent, ChunkEvent, Goes, Stop, TypeOK
    <3>2. e.topic = "ingest"
      BY <2>1, <2>4, <3>1 DEF TopicOf
    <3>3. e.no = retries[e.doc] => status[e.doc] \in {"PROCESSING", "READY", "FAILED"}
      BY <2>1, <2>3, <2>4, <3>1 DEF Saved, TypeOK
    <3>4. Finished(EventOf(w))'
      BY <2>2, <3>1, <3>2, <3>3 DEF Finished, EmbedEvent
    <3> QED
      BY <2>4, <3>1, <3>4
  <2>12. CASE ListDocumentChunks(w)
    <3>1. pc[w] = "list" /\ UNCHANGED <<documents, outboxes, offsets>>
      BY <2>12 DEF ListDocumentChunks
    <3>2. e.topic = "embed"
      BY <2>1, <2>4, <3>1, KnowledgeConstants DEF TopicOf
    <3>3. chunks[e.doc] # "none"
      BY <2>1, <3>2 DEF EventsInv
    <3>4. pc'[w] = "embed"
      BY <2>2, <2>12, <3>3 DEF ListDocumentChunks, TypeOK
    <3> QED
      BY <2>4, <3>1, <3>4
  <2>13. CASE UpsertChunks(w)
    <3>1. /\ pc[w] = "embed" /\ pc'[w] = "ready" /\ e.doc \in vectors' /\ UNCHANGED consumption
      BY <2>2, <2>13 DEF UpsertChunks, TypeOK
    <3> QED
      BY <2>4, <3>1
  <2>14. CASE MarkDocumentReadyWithVectors(w)
    <3>1. pc[w] = "ready" /\ UNCHANGED consumption /\ (Goes(w, "succeed") \/ Stop(w))
      BY <2>14 DEF MarkDocumentReadyWithVectors
    <3>2. pc'[w] = "succeed"
      BY <1>3, <3>1 DEF Goes, Stop, TypeOK
    <3>3. chunks[e.doc] # "EMBEDDED"
      BY <2>2, <2>14, <3>2 DEF MarkDocumentReadyWithVectors, Stop, TypeOK
    <3>4. status' = [status EXCEPT ![e.doc] = "READY"]
      BY <2>2, <2>14, <3>3 DEF MarkDocumentReadyWithVectors
    <3>5. status'[e.doc] = "READY"
      BY <2>1, <3>4 DEF TypeOK
    <3>6. Finished(EventOf(w))'
      BY <2>2, <3>5 DEF Finished
    <3> QED
      BY <2>4, <3>1, <3>2, <3>6
  <2>15. CASE MarkConsumptionSucceeded(w)
    <3>1. pc'[w] = "commit"
      BY <1>3, <2>15 DEF MarkConsumptionSucceeded, Goes, Stop, TypeOK
    <3> QED
      BY <3>1
  <2>16. CASE CommitMessages(w) \/ Restart(w) \/ IdleTimeout(w) \/ CallFails(w) \/ EmbeddingFails(w)
    BY <1>3, <2>16 DEF CommitMessages, Restart, IdleTimeout, CallFails, EmbeddingFails, Stop, TypeOK
  <2>17. CASE FetchMessage(w)
    BY <1>2, <2>17, <1>3 DEF FetchMessage
  <2> QED
    BY <2>6, <2>7, <2>8, <2>9, <2>10, <2>11, <2>12, <2>13, <2>14, <2>15, <2>16, <2>17
    DEF Consume, Handle
<1> QED
  BY <1>1, <1>2, <1>3, ConsumerMoves

\* An event that one handler starts or ends is in no other handler's work.
LEMMA ConsumptionKept ==
  ASSUME TypeOK, KnowledgeInv, [Next]_vars, NEW v \in Consumers, pc[v] \in Working,
         pc'[v] = pc[v], message'[v] = message[v]
  PROVE  consumption'[EventOf(v)] = consumption[EventOf(v)]
<1>1. CASE consumption' = consumption
  BY <1>1
<1>2. CASE consumption' # consumption
  <2>1. PICK w \in Consumers : Consume(w) /\ Consumes(w)
    BY <1>2, ConsumptionSteps
  <2>2. HandlerInv(v) /\ HandlerInv(w)
    BY DEF KnowledgeInv, HandlersInv
  <2>3. EventOf(v) # EventOf(w)
    <3>1. CASE pc[w] = "start"
      BY <2>1, <2>2, <3>1 DEF Consumes, HandlerInv, Working, HandlerCalls
    <3>2. CASE pc[w] = "succeed"
      <4>1. v # w
        <5>1. SUFFICES ASSUME v = w PROVE FALSE
          OBVIOUS
        <5>2. MarkConsumptionSucceeded(w) \/ CallFails(w)
          BY <2>1, <3>2 DEF Consume, Handle, FetchMessage, Restart, StartConsumption,
             FindDocumentByNo, MarkDocumentProcessing, GetObject, MarkDocumentFailed,
             SaveChunksAndEmbedEvent, ListDocumentChunks, UpsertChunks,
             MarkDocumentReadyWithVectors, CommitMessages, IdleTimeout, EmbeddingFails
        <5>3. pc'[w] \in {"commit", "stopped"}
          BY <5>2 DEF MarkConsumptionSucceeded, CallFails, Goes, Stop, TypeOK
        <5> QED
          BY <3>2, <5>1, <5>3
      <4> QED
        BY <3>2, <4>1 DEF KnowledgeInv, OneHandler, EventOf, Working, HandlerCalls
    <3> QED
      BY <2>1, <3>1, <3>2 DEF Consumes
  <2>4. EventOf(v) \in Events
    BY <2>2, MessageFacts DEF HandlerInv, EventOf, Working
  <2> QED
    BY <2>1, <2>3, <2>4 DEF Consumes, TypeOK
<1> QED
  BY <1>1, <1>2

LEMMA HandlersInvKept ==
  ASSUME TypeOK, TypeOK', KnowledgeInv, Monotone, [Next]_vars
  PROVE  HandlersInv'
<1> SUFFICES ASSUME NEW v \in Consumers PROVE HandlerInv(v)'
  BY DEF HandlersInv
<1>1. CASE pc'[v] = pc[v] /\ message'[v] = message[v]
  BY <1>1, HandlerKept, ConsumptionKept DEF KnowledgeInv, HandlersInv
<1>2. CASE Consume(v)
  BY <1>2, ActingHandler
<1>3. ASSUME NEW w \in Consumers, Consume(w), v # w PROVE HandlerInv(v)'
  BY <1>1, <1>3, ConsumerMoves
<1>4. UNCHANGED consumers \/ \E w \in Consumers : Consume(w)
  BY DEF Next, vars, Consume, Upload, UploadDocument, FindDocumentBySourceHash,
         NextDocumentVersion, PutObject, CreateDocumentWithEvent, DocumentNotInserted,
         Recheck, DeleteObject, UploadLost, RetryFailedDocument, Relay, LeasePending,
         Publish, PublishUnrecorded, PublishFails
<1> QED
  BY <1>1, <1>2, <1>3, <1>4

LEMMA OneHandlerKept ==
  ASSUME TypeOK, KnowledgeInv, [Next]_vars
  PROVE  OneHandler'
<1>1. CASE UNCHANGED consumers
  BY <1>1 DEF KnowledgeInv, OneHandler
<1>2. ASSUME NEW w \in Consumers, Consume(w) PROVE OneHandler'
  <2>1. \A v \in Consumers \ {w} : pc'[v] = pc[v] /\ message'[v] = message[v]
    BY <1>2, ConsumerMoves
  <2>2. CASE pc'[w] \notin Working
    BY <2>1, <2>2 DEF KnowledgeInv, OneHandler
  <2>3. CASE pc'[w] \in Working
    <3>1. pc[w] \in HandlerCalls /\ message'[w] = message[w]
      BY <1>2, <2>3, ConsumerMoves DEF Working, FetchMessage, TypeOK, HandlerCalls
    <3>2. CASE pc[w] \in Working
      BY <2>1, <3>1, <3>2 DEF KnowledgeInv, OneHandler
    <3>3. CASE pc[w] = "start"
      <4>1. consumption[EventOf(w)] = "none"
        BY <1>2, <2>3, <3>3
        DEF Consume, Handle, FetchMessage, Restart, StartConsumption, FindDocumentByNo,
            MarkDocumentProcessing, GetObject, MarkDocumentFailed, SaveChunksAndEmbedEvent,
            ListDocumentChunks, UpsertChunks, MarkDocumentReadyWithVectors,
            MarkConsumptionSucceeded, CommitMessages, IdleTimeout, CallFails, EmbeddingFails,
            Goes, Stop, TypeOK, Working, HandlerCalls
      <4>2. \A v \in Consumers : pc[v] \in Working => message[v].event # message[w].event
        BY <4>1 DEF KnowledgeInv, HandlersInv, HandlerInv, EventOf, Working
      <4> QED
        BY <2>1, <3>1, <4>2 DEF KnowledgeInv, OneHandler
    <3>4. CASE pc[w] = "commit"
      <4>1. pc'[w] \in {"idle", "stopped"}
        BY <1>2, <3>4
        DEF Consume, Handle, FetchMessage, Restart, StartConsumption, FindDocumentByNo,
            MarkDocumentProcessing, GetObject, MarkDocumentFailed, SaveChunksAndEmbedEvent,
            ListDocumentChunks, UpsertChunks, MarkDocumentReadyWithVectors,
            MarkConsumptionSucceeded, CommitMessages, IdleTimeout, CallFails, EmbeddingFails,
            Stop, TypeOK
      <4> QED
        BY <2>3, <4>1 DEF Working, HandlerCalls
    <3> QED
      BY <3>1, <3>2, <3>3, <3>4 DEF Working
  <2> QED
    BY <2>2, <2>3
<1>3. UNCHANGED consumers \/ \E w \in Consumers : Consume(w)
  BY DEF Next, vars, Consume, Upload, UploadDocument, FindDocumentBySourceHash,
         NextDocumentVersion, PutObject, CreateDocumentWithEvent, DocumentNotInserted,
         Recheck, DeleteObject, UploadLost, RetryFailedDocument, Relay, LeasePending,
         Publish, PublishUnrecorded, PublishFails
<1> QED
  BY <1>1, <1>2, <1>3

--------------------------------------------------------------------------------
(* The theorems.                                                             *)

LEMMA Initially == Init => TypeOK /\ KnowledgeInv
<1> SUFFICES ASSUME Init PROVE TypeOK /\ KnowledgeInv
  OBVIOUS
<1>1. TypeOK
  BY KnowledgeConstants DEF Init, TypeOK
<1>2. Saved = {}
  BY DEF Init, Saved
<1>3. Visibility /\ VersionsHaveNoGap /\ DocumentsInv
  BY <1>2 DEF Init, Visibility, VersionsHaveNoGap, DocumentsInv
<1>4. EventsInv
  BY DEF Init, EventsInv
<1>5. OneHandler /\ HandlersInv /\ UploadsInv
  BY DEF Init, OneHandler, HandlersInv, HandlerInv, UploadsInv, HandlerCalls, UploadCalls, Working
<1> QED
  BY <1>1, <1>3, <1>4, <1>5 DEF KnowledgeInv

LEMMA InvariantStep == TypeOK /\ KnowledgeInv /\ [Next]_vars => TypeOK' /\ KnowledgeInv'
<1> SUFFICES ASSUME TypeOK, KnowledgeInv, [Next]_vars PROVE TypeOK' /\ KnowledgeInv'
  OBVIOUS
<1>1. TypeOK'
  BY Typing DEF KnowledgeInv
<1>2. DocumentStep
  BY Steps
<1>3. Monotone
  BY <1>2, StepsAreMonotone DEF KnowledgeInv
<1>4. Visibility' /\ VersionsHaveNoGap' /\ DocumentsInv'
  BY <1>1, <1>2, VisibilityKept, VersionsKept, DocumentsInvKept DEF KnowledgeInv
<1>5. EventsInv' /\ UploadsInv'
  BY <1>1, <1>2, <1>3, EventsInvKept, UploadsInvKept DEF KnowledgeInv
<1>6. HandlersInv' /\ OneHandler'
  BY <1>1, <1>3, HandlersInvKept, OneHandlerKept
<1> QED
  BY <1>1, <1>4, <1>5, <1>6 DEF KnowledgeInv

\* The inductive invariant: what the consumers, the uploads and the outbox rows know of
\* each other at every call of UploadDocument, HandleDocumentIngest and HandleChunkEmbed.
THEOREM KnowledgeInvariant == Spec => [](TypeOK /\ KnowledgeInv)
<1> QED
  BY Initially, InvariantStep, PTL DEF Spec

\* Rows, objects, events and the calls of requests and handlers keep their types, for
\* any number of them.
THEOREM KnowledgeTypes == Spec => []TypeOK
<1> QED
  BY KnowledgeInvariant, PTL

\* What retrieval can show is complete and there is at most one current document,
\* whatever is redelivered, retried or lost between the two consumers.
THEOREM CurrentIsComplete == Spec => []Visibility
<1>1. KnowledgeInv => Visibility
  BY DEF KnowledgeInv
<1> QED
  BY <1>1, KnowledgeInvariant, PTL

\* StartConsumption lets one handler work on an event, with any number of consumers and
\* of copies of the event.
THEOREM HandlersExclude == Spec => []OneHandler
<1>1. KnowledgeInv => OneHandler
  BY DEF KnowledgeInv
<1> QED
  BY <1>1, KnowledgeInvariant, PTL

\* Concurrent uploads number the documents 1, 2, 3 and so on, although
\* NextDocumentVersion is read outside the inserting transaction.
THEOREM VersionsAreDense == Spec => []VersionsHaveNoGap
<1>1. KnowledgeInv => VersionsHaveNoGap
  BY DEF KnowledgeInv
<1> QED
  BY <1>1, KnowledgeInvariant, PTL

\* A document that is neither READY nor FAILED has an event that is not handled to the
\* end, after any crash of the worker and of the consumers.
THEOREM WorkIsRemembered == Spec => []NothingForgotten
<1>1. TypeOK /\ KnowledgeInv => NothingForgotten
  <2> SUFFICES ASSUME TypeOK, KnowledgeInv, NEW c \in Contents,
                      status[c] \in {"PENDING", "PROCESSING"}
               PROVE  \E e \in Events : e.doc = c /\ outbox[e] # "none" /\ consumption[e] # "SUCCEEDED"
    BY DEF NothingForgotten
  <2> DEFINE i == IngestEvent(c, retries[c])
  <2>1. /\ i \in Events /\ EmbedEvent(i) \in Events
        /\ i.doc = c /\ i.topic = "ingest" /\ i.no = retries[c]
        /\ EmbedEvent(i).doc = c /\ EmbedEvent(i).topic = "embed"
    BY EventFacts DEF TypeOK, IngestEvent, EmbedEvent
  <2>2. outbox[i] # "none"
    BY DEF KnowledgeInv, DocumentsInv, Saved
  <2>3. CASE consumption[i] # "SUCCEEDED"
    BY <2>1, <2>2, <2>3
  <2>4. CASE consumption[i] = "SUCCEEDED"
    <3>1. Finished(i)
      BY <2>1, <2>4 DEF KnowledgeInv, EventsInv
    <3>2. outbox[EmbedEvent(i)] # "none"
      BY <2>1, <3>1 DEF Finished
    <3>3. ~Finished(EmbedEvent(i))
      BY <2>1 DEF Finished
    <3> QED
      BY <2>1, <3>2, <3>3 DEF KnowledgeInv, EventsInv
  <2> QED
    BY <2>3, <2>4
<1> QED
  BY <1>1, KnowledgeInvariant, PTL

\* READY is final, whatever late event or retry finds the document.
THEOREM ReadyStays == Spec => ReadyIsFinal
<1>1. TypeOK /\ KnowledgeInv /\ [Next]_vars
        => [\A c \in Contents : status[c] = "READY" => status'[c] = "READY"]_vars
  BY Steps, StepsAreMonotone DEF KnowledgeInv, Monotone
<1> QED
  BY <1>1, KnowledgeInvariant, PTL DEF Spec, ReadyIsFinal

\* A document is hidden only by the step that makes another one READY and shows it.
THEOREM ShownStays == Spec => ShownUntilReplaced
<1>1. TypeOK /\ KnowledgeInv /\ [Next]_vars
        => [\A c \in Contents : current[c] /\ ~current'[c] =>
              \E d \in Contents : status[d] # "READY" /\ status'[d] = "READY" /\ current'[d]]_vars
  BY Steps, HiddenByTheNext DEF KnowledgeInv
<1> QED
  BY <1>1, KnowledgeInvariant, PTL DEF Spec, ShownUntilReplaced

--------------------------------------------------------------------------------
(* Objects: the request that deletes one has lost its version to another.    *)

LEMMA FaultsStay == TypeOK /\ [Next]_vars /\ faults' = 0 => faults = 0
<1>1. TypeOK /\ Fault => faults' # 0
  BY DEF TypeOK, Fault
<1>2. ASSUME NEW w \in Consumers, Consume(w) PROVE UNCHANGED faults \/ Fault
  <2>1. CASE MarkDocumentReadyWithVectors(w)
    <3>1. Goes(w, "succeed") \/ UNCHANGED faults
      BY <2>1 DEF MarkDocumentReadyWithVectors
    <3> QED
      BY <3>1 DEF Goes
  <2>2. CASE ~MarkDocumentReadyWithVectors(w)
    BY <1>2, <2>2 DEF Consume, Handle, FetchMessage, Restart, StartConsumption,
       FindDocumentByNo, MarkDocumentProcessing, GetObject, MarkDocumentFailed,
       SaveChunksAndEmbedEvent, ListDocumentChunks, UpsertChunks, MarkConsumptionSucceeded,
       CommitMessages, IdleTimeout, CallFails, EmbeddingFails, Goes
  <2> QED
    BY <2>1, <2>2
<1>3. [Next]_vars => UNCHANGED faults \/ Fault
  BY <1>2 DEF Next, vars, Consume, Upload, UploadDocument, FindDocumentBySourceHash,
     NextDocumentVersion, PutObject, CreateDocumentWithEvent, DocumentNotInserted, Recheck,
     DeleteObject, UploadLost, RetryFailedDocument, Relay, LeasePending, Publish,
     PublishUnrecorded, PublishFails
<1> QED
  BY <1>1, <1>3

\* A version once lost stays lost, as long as the request keeps its key.
LEMMA LostStays ==
  ASSUME Monotone, NEW r \in Requests, VersionLost(r), file'[r] = file[r], drawn'[r] = drawn[r]
  PROVE  VersionLost(r)'
<1>1. PICK c \in Saved : c # file[r] /\ version[c] = drawn[r]
  BY DEF VersionLost
<1>2. c \in Saved' /\ version'[c] = version[c]
  BY DEF Monotone, Saved
<1> QED
  BY <1>1, <1>2 DEF VersionLost

\* Whoever acts, a request that does not keeps what it has.
LEMMA OthersObjects ==
  ASSUME Monotone, NEW r \in Requests,
         up'[r] = up[r], file'[r] = file[r], drawn'[r] = drawn[r],
         up[r] = "create" => Key(r) \in objects' \/ VersionLost(r),
         up[r] = "recheck" => file[r] \in Saved \/ VersionLost(r),
         up[r] = "cleanup" => VersionLost(r)
  PROVE  /\ up'[r] = "create" => Key(r)' \in objects' \/ VersionLost(r)'
         /\ up'[r] = "recheck" => file'[r] \in Saved' \/ VersionLost(r)'
         /\ up'[r] = "cleanup" => VersionLost(r)'
<1>1. Key(r)' = Key(r)
  BY DEF Key
<1>2. file[r] \in Saved => file'[r] \in Saved'
  BY DEF Saved, Monotone
<1> QED
  BY <1>1, <1>2, LostStays

\* Only CreateDocumentWithEvent makes a document or gives it a version.
LEMMA OnlyUploadsInsert ==
  ASSUME TypeOK, KnowledgeInv, [Next]_vars, \A r \in Requests : ~CreateDocumentWithEvent(r)
  PROVE  Saved' = Saved /\ version' = version
<1>1. ASSUME NEW c \in Contents, Inserts(c) PROVE FALSE
  <2>1. status[c] = "none" /\ status'[c] = "PENDING"
    BY <1>1 DEF Inserts, Saved, TypeOK
  <2>2. ASSUME NEW d \in Contents, RetryFailedDocument(d) PROVE FALSE
    BY <2>1, <2>2 DEF RetryFailedDocument, MayRetry, TypeOK
  <2>3. ASSUME NEW w \in Consumers, Consume(w) PROVE FALSE
    BY <2>1, <2>3, ConsumerEffects DEF TypeOK
  <2>4. ~UNCHANGED status
    BY <2>1
  <2> QED
    BY <2>2, <2>3, <2>4
    DEF Next, vars, Consume, Upload, UploadDocument, FindDocumentBySourceHash,
        NextDocumentVersion, PutObject, DocumentNotInserted, Recheck, DeleteObject, UploadLost,
        Relay, LeasePending, Publish, PublishUnrecorded, PublishFails
<1>2. DocumentStep
  BY Steps
<1>3. CASE UNCHANGED documents
  BY <1>3 DEF Saved
<1>4. ASSUME NEW c \in Contents, Retries(c) \/ Processes(c) \/ Fails(c) \/ Splits(c)
                                 \/ Embeds(c) \/ BecomesReady(c)
      PROVE  Saved' = Saved /\ version' = version
  BY <1>4 DEF Retries, Processes, Fails, Splits, Embeds, BecomesReady, Saved, TypeOK
<1> QED
  BY <1>1, <1>2, <1>3, <1>4 DEF DocumentStep

LEMMA UploadsAndObjects ==
  ASSUME [Next]_vars
  PROVE  UNCHANGED <<uploads, objects>> \/ \E q \in Requests : Upload(q)
<1>1. ASSUME NEW w \in Consumers, Consume(w) PROVE UNCHANGED <<uploads, objects>>
  <2>1. CASE MarkDocumentReadyWithVectors(w)
    BY <2>1 DEF MarkDocumentReadyWithVectors
  <2>2. CASE ~MarkDocumentReadyWithVectors(w)
    BY <1>1, <2>2 DEF Consume, Handle, FetchMessage, Restart, StartConsumption,
       FindDocumentByNo, MarkDocumentProcessing, GetObject, MarkDocumentFailed,
       SaveChunksAndEmbedEvent, ListDocumentChunks, UpsertChunks, MarkConsumptionSucceeded,
       CommitMessages, IdleTimeout, CallFails, EmbeddingFails
  <2> QED
    BY <2>1, <2>2
<1> QED
  BY <1>1 DEF Next, vars, Consume, RetryFailedDocument, Relay, LeasePending, Publish,
              PublishUnrecorded, PublishFails

\* What a request that acts, in a step without a fault, has to show for itself.
LEMMA ActingObjects ==
  ASSUME TypeOK, KnowledgeInv, NEW q \in Requests, Upload(q), ~Fault,
         up[q] = "create" => Key(q) \in objects \/ VersionLost(q),
         up[q] = "recheck" => file[q] \in Saved \/ VersionLost(q)
  PROVE  /\ \A r \in Requests \ {q} :
              up'[r] = up[r] /\ file'[r] = file[r] /\ drawn'[r] = drawn[r]
         /\ up'[q] \in {"create", "recheck", "cleanup"} =>
              /\ file'[q] = file[q] /\ drawn'[q] = drawn[q]
              /\ up'[q] = "create" => Key(q) \in objects'
              /\ up'[q] = "recheck" => file[q] \in Saved \/ VersionLost(q)
              /\ up'[q] = "cleanup" => VersionLost(q)
<1> USE DEF TypeOK, UploadGoes, UploadEnds
<1>1. CASE PutObject(q)
  BY <1>1 DEF PutObject
<1>2. CASE DocumentNotInserted(q)
  <2>1. up' = [up EXCEPT ![q] = "recheck"] /\ ~MayInsert(q) /\ UNCHANGED <<file, drawn, objects>>
    BY <1>2 DEF DocumentNotInserted
  <2>2. file[q] \in Saved \/ VersionLost(q)
    BY <2>1 DEF MayInsert, VersionLost
  <2> QED
    BY <2>1, <2>2
<1>3. CASE Recheck(q)
  BY <1>3 DEF Recheck
<1>4. CASE ~(PutObject(q) \/ DocumentNotInserted(q) \/ Recheck(q))
  <2>1. UploadEnds(q) \/ UploadGoes(q, "version")
        \/ (up' = [up EXCEPT ![q] = "find"] /\ UNCHANGED drawn
            /\ \E c \in Contents : file' = [file EXCEPT ![q] = c])
        \/ (up' = [up EXCEPT ![q] = "put"] /\ UNCHANGED file
            /\ \E n \in Nat : drawn' = [drawn EXCEPT ![q] = n])
    BY <1>4 DEF Upload, UploadDocument, FindDocumentBySourceHash, NextDocumentVersion,
                CreateDocumentWithEvent, DeleteObject, UploadLost, Saved
  <2> QED
    BY <2>1
<1> QED
  BY <1>1, <1>2, <1>3, <1>4

LEMMA ObjectsStep ==
  TypeOK /\ KnowledgeInv /\ ObjectsInv /\ [Next]_vars => ObjectsInv'
<1> SUFFICES ASSUME TypeOK, KnowledgeInv, ObjectsInv, [Next]_vars, faults' = 0
             PROVE  /\ \A c \in Saved' : <<c, version'[c]>> \in objects'
                    /\ \A r \in Requests :
                         /\ up'[r] = "create" => Key(r)' \in objects' \/ VersionLost(r)'
                         /\ up'[r] = "recheck" => file'[r] \in Saved' \/ VersionLost(r)'
                         /\ up'[r] = "cleanup" => VersionLost(r)'
  BY DEF ObjectsInv
<1>1. faults = 0 /\ ~Fault
  BY FaultsStay DEF TypeOK, Fault
<1>2. Monotone
  BY Steps, StepsAreMonotone DEF KnowledgeInv
<1>3. /\ \A c \in Saved : <<c, version[c]>> \in objects
      /\ \A r \in Requests : /\ up[r] = "create" => Key(r) \in objects \/ VersionLost(r)
                             /\ up[r] = "recheck" => file[r] \in Saved \/ VersionLost(r)
                             /\ up[r] = "cleanup" => VersionLost(r)
  BY <1>1 DEF ObjectsInv
<1>4. CASE UNCHANGED <<uploads, objects>>
  <2>1. \A r \in Requests : ~CreateDocumentWithEvent(r)
    BY <1>1, <1>4 DEF CreateDocumentWithEvent, UploadEnds, TypeOK
  <2> QED
    BY <1>2, <1>3, <1>4, <2>1, OnlyUploadsInsert, OthersObjects
<1>5. ASSUME NEW q \in Requests, Upload(q)
      PROVE  /\ \A c \in Saved' : <<c, version'[c]>> \in objects'
             /\ \A r \in Requests \ {q} : up[r] = "create" => Key(r) \in objects' \/ VersionLost(r)
  <2>1. CASE CreateDocumentWithEvent(q)
    <3>1. /\ MayInsert(q) /\ UNCHANGED objects
          /\ status' = [status EXCEPT ![file[q]] = "PENDING"]
          /\ version' = [version EXCEPT ![file[q]] = drawn[q]]
      BY <2>1 DEF CreateDocumentWithEvent
    <3>2. Key(q) \in objects
      BY <1>3, <2>1, <3>1 DEF CreateDocumentWithEvent, MayInsert, VersionLost
    <3>3. file[q] \in Contents
      BY <2>1 DEF CreateDocumentWithEvent, KnowledgeInv, UploadsInv, UploadCalls
    <3> QED
      BY <1>3, <3>1, <3>2, <3>3 DEF Saved, Key, TypeOK
  <2>2. CASE DeleteObject(q)
    <3>1. PICK d \in Saved : d # file[q] /\ version[d] = drawn[q]
      BY <1>3, <2>2 DEF DeleteObject, VersionLost
    <3>2. \A c \in Saved : <<c, version[c]>> # Key(q)
      BY <3>1 DEF KnowledgeInv, VersionsHaveNoGap, Key
    <3>3. \A r \in Requests : Key(r) = Key(q) => VersionLost(r)
      BY <3>1 DEF Key, VersionLost
    <3>4. objects' = objects \ {Key(q)} /\ Saved' = Saved /\ version' = version
      BY <2>2 DEF DeleteObject, Saved
    <3> QED
      BY <1>3, <3>2, <3>3, <3>4
  <2>3. CASE ~CreateDocumentWithEvent(q) /\ ~DeleteObject(q)
    <3>1. Saved' = Saved /\ version' = version /\ objects \subseteq objects'
      BY <1>5, <2>3 DEF Upload, UploadDocument, FindDocumentBySourceHash, NextDocumentVersion,
         PutObject, DocumentNotInserted, Recheck, UploadLost, Saved
    <3> QED
      BY <1>3, <3>1
  <2> QED
    BY <2>1, <2>2, <2>3
<1>6. ASSUME NEW q \in Requests, Upload(q), NEW r \in Requests
      PROVE  /\ up'[r] = "create" => Key(r)' \in objects' \/ VersionLost(r)'
             /\ up'[r] = "recheck" => file'[r] \in Saved' \/ VersionLost(r)'
             /\ up'[r] = "cleanup" => VersionLost(r)'
  <2>1. /\ \A o \in Requests \ {q} :
              up'[o] = up[o] /\ file'[o] = file[o] /\ drawn'[o] = drawn[o]
        /\ up'[q] \in {"create", "recheck", "cleanup"} =>
              /\ file'[q] = file[q] /\ drawn'[q] = drawn[q]
              /\ up'[q] = "create" => Key(q) \in objects'
              /\ up'[q] = "recheck" => file[q] \in Saved \/ VersionLost(q)
              /\ up'[q] = "cleanup" => VersionLost(q)
    BY <1>1, <1>3, <1>6, ActingObjects
  <2>2. CASE r # q
    BY <1>2, <1>3, <1>5, <1>6, <2>1, <2>2, OthersObjects
  <2>3. CASE r = q /\ up'[q] \in {"create", "recheck", "cleanup"}
    <3>1. Key(q)' = Key(q) /\ (file[q] \in Saved => file'[q] \in Saved')
      BY <1>2, <2>1, <2>3 DEF Key, Saved, Monotone
    <3> QED
      BY <1>2, <2>1, <2>3, <3>1, LostStays
  <2> QED
    BY <2>2, <2>3
<1> QED
  BY <1>4, <1>5, <1>6, UploadsAndObjects

\* As long as no call fails, the object of a document is in MinIO: of two uploads that
\* share a key, the one that loses does not remove what the other stored.
THEOREM ObjectsStay == Spec => []ObjectsKept
<1>1. Init => ObjectsInv
  BY DEF Init, ObjectsInv, Saved
<1>2. ObjectsInv => ObjectsKept
  BY DEF ObjectsInv, ObjectsKept
<1> QED
  BY <1>1, <1>2, ObjectsStep, KnowledgeInvariant, PTL DEF Spec

--------------------------------------------------------------------------------
(* Refinement                                                                *)

\* What the step of one document is to those who search.
LEMMA DocumentRefines ==
  ASSUME TypeOK, DocumentsInv, Visibility, NEW c \in Contents,
         Inserts(c) \/ Retries(c) \/ Processes(c) \/ Fails(c)
         \/ Splits(c) \/ Embeds(c) \/ BecomesReady(c)
  PROVE  [Store!Next]_(Store!vars)
<1> DEFINE ready == {d \in Contents : status[d] = "READY"}
           shown == {d \in Contents : current[d]}
<1>1. CASE Inserts(c) \/ Retries(c) \/ Processes(c) \/ Fails(c) \/ Splits(c)
  <2>1. ready' = ready
    BY <1>1 DEF Inserts, Saved, Retries, Processes, Fails, Splits, DocumentsInv, TypeOK
  <2>2. shown' = shown
    BY <1>1 DEF Inserts, Retries, Processes, Fails, Splits, DocumentsInv, Visibility, TypeOK
  <2>3. vectors' = vectors
    BY <1>1 DEF Inserts, Retries, Processes, Fails, Splits
  <2> QED  BY <2>1, <2>2, <2>3 DEF Store!vars
<1>2. CASE Embeds(c)
  <2>1. ready' = ready /\ shown' = shown
    BY <1>2 DEF Embeds
  <2>2. CASE vectors' = vectors
    BY <2>1, <2>2 DEF Store!vars
  <2>3. CASE vectors' # vectors
    <3>1. c \notin vectors /\ vectors' = vectors \cup {c}
      BY <1>2, <2>3 DEF Embeds, TypeOK
    <3> QED  BY <2>1, <3>1 DEF Store!Next, Store!Embed
  <2> QED  BY <2>2, <2>3
<1>3. CASE BecomesReady(c)
  <2>1. c \in vectors \ ready /\ vectors' = vectors
    BY <1>3 DEF BecomesReady, Visibility
  <2>2. ready' = ready \cup {c}
    BY <1>3 DEF BecomesReady, TypeOK
  <2>3. shown' = {d \in shown : [e \in Contents |-> "one"][d] # [e \in Contents |-> "one"][c]} \cup {c}
    BY <1>3 DEF BecomesReady, Show
  <2> QED  BY <2>1, <2>2, <2>3 DEF Store!Next, Store!Publish
<1> QED  BY <1>1, <1>2, <1>3

\* Uploads, events, two consumers and whatever goes wrong between them: what searches see
\* of it is the abstract KnowledgeStore, step by step.
THEOREM PipelineImplementsStore == Spec => ImplementsKnowledgeStore
<1>1. Init => Store!Init
  BY DEF Init, Store!Init
<1>2. TypeOK /\ KnowledgeInv /\ [Next]_vars => [Store!Next]_(Store!vars)
  <2> SUFFICES ASSUME TypeOK, KnowledgeInv, [Next]_vars
               PROVE  [Store!Next]_(Store!vars)
    OBVIOUS
  <2>1. CASE UNCHANGED documents
    BY <2>1 DEF Store!vars
  <2> QED  BY <2>1, Steps, DocumentRefines DEF DocumentStep, KnowledgeInv
<1> QED
  BY <1>1, <1>2, KnowledgeInvariant, PTL DEF Spec, ImplementsKnowledgeStore, Store!Spec

--------------------------------------------------------------------------------
(* What pieces of a text hold.                                               *)

\* The bytes lo + 1 .. hi, each of them once and in order.
Covers(v, lo, hi) == v \in Seq(Nat) /\ Bytes(v) = lo + 1 .. hi /\ Rising(v)

LEMMA BytesAre ==
  ASSUME NEW v \in Seq(Nat)
  PROVE  \A b : b \in Bytes(v) <=> b # NewLine /\ \E k \in 1 .. Len(v) : v[k] = b
<1>1. DOMAIN v = 1 .. Len(v)
  OBVIOUS
<1> QED  BY <1>1 DEF Bytes

LEMMA CoversNothing ==
  ASSUME NEW m \in Nat, NEW v \in Seq(Nat), \A k \in 1 .. Len(v) : v[k] = NewLine
  PROVE  Covers(v, m, m)
<1>1. Bytes(v) = {}
  BY BytesAre
<1>2. m + 1 .. m = {}
  OBVIOUS
<1>3. DOMAIN v = 1 .. Len(v)
  OBVIOUS
<1> QED  BY <1>1, <1>2, <1>3 DEF Covers, Rising

LEMMA NoneCovers ==
  ASSUME NEW m \in Nat
  PROVE  Covers(<<>>, m, m)
<1>1. <<>> \in Seq(Nat) /\ \A k \in 1 .. Len(<<>>) : <<>>[k] = NewLine
  OBVIOUS
<1> QED  BY <1>1, CoversNothing

LEMMA NothingCovers ==
  ASSUME NEW lo \in Nat, NEW hi \in Nat, lo <= hi, NEW v, Covers(v, lo, hi),
         \A k \in 1 .. Len(v) : v[k] = NewLine
  PROVE  lo = hi
<1>1. Bytes(v) = {}
  BY BytesAre DEF Covers
<1>2. lo = hi \/ hi \in lo + 1 .. hi
  OBVIOUS
<1> QED  BY <1>1, <1>2 DEF Covers

\* What two values hold when they are joined.
LEMMA JoinHolds ==
  ASSUME NEW v \in Seq(Nat), NEW w \in Seq(Nat)
  PROVE  /\ \A b : b \in Bytes(v \o w) <=> b \in Bytes(v) \/ b \in Bytes(w)
         /\ Rising(v \o w) <=>
              Rising(v) /\ Rising(w) /\ \A a \in Bytes(v), b \in Bytes(w) : a < b
<1> DEFINE x == v \o w
<1>2. x \in Seq(Nat) /\ Len(x) = Len(v) + Len(w) /\ Len(v) \in Nat /\ Len(w) \in Nat
  OBVIOUS
<1>3. /\ \A k \in 1 .. Len(v) : x[k] = v[k]
      /\ \A k \in 1 .. Len(w) : x[Len(v) + k] = w[k]
  OBVIOUS
<1>4. /\ DOMAIN x = 1 .. Len(v) + Len(w)
      /\ DOMAIN v = 1 .. Len(v) /\ DOMAIN w = 1 .. Len(w)
  BY <1>2
<1> HIDE DEF x
<1>5. \A k \in DOMAIN x :
        \/ k \in DOMAIN v /\ x[k] = v[k]
        \/ k - Len(v) \in DOMAIN w /\ x[k] = w[k - Len(v)] /\ k \notin DOMAIN v
  <2>1. ASSUME NEW k \in DOMAIN x, k \notin DOMAIN v
        PROVE  k - Len(v) \in DOMAIN w /\ x[k] = w[k - Len(v)]
    <3>1. k - Len(v) \in 1 .. Len(w) /\ Len(v) + (k - Len(v)) = k
      BY <1>2, <1>4, <2>1
    <3> QED  BY <1>3, <1>4, <3>1
  <2>2. \A k \in DOMAIN v : x[k] = v[k]
    BY <1>3, <1>4
  <2> QED  BY <2>1, <2>2
<1>6. /\ \A k \in DOMAIN v : k \in DOMAIN x /\ x[k] = v[k]
      /\ \A k \in DOMAIN w : Len(v) + k \in DOMAIN x /\ x[Len(v) + k] = w[k]
  <2>1. ASSUME NEW k \in DOMAIN w PROVE Len(v) + k \in DOMAIN x
    BY <1>2, <1>4
  <2>2. ASSUME NEW k \in DOMAIN v PROVE k \in DOMAIN x
    BY <1>2, <1>4
  <2> QED  BY <1>3, <1>4, <2>1, <2>2
<1>7. \A b : b \in Bytes(x) <=> b \in Bytes(v) \/ b \in Bytes(w)
  BY <1>5, <1>6 DEF Bytes
<1>8. ASSUME Rising(x)
      PROVE  Rising(v) /\ Rising(w) /\ \A a \in Bytes(v), b \in Bytes(w) : a < b
  <2>1. Rising(v)
    BY <1>6, <1>8 DEF Rising
  <2>2. Rising(w)
    <3> SUFFICES ASSUME NEW k \in DOMAIN w, NEW m \in DOMAIN w, k < m,
                        w[k] # NewLine, w[m] # NewLine
                 PROVE  w[k] < w[m]
      BY DEF Rising
    <3>1. Len(v) + k < Len(v) + m
      BY <1>2, <1>4
    <3> QED  BY <1>6, <1>8, <3>1 DEF Rising
  <2>3. ASSUME NEW k \in DOMAIN v, NEW m \in DOMAIN w, v[k] # NewLine, w[m] # NewLine
        PROVE  v[k] < w[m]
    <3>1. k < Len(v) + m
      BY <1>2, <1>4
    <3> QED  BY <1>6, <1>8, <2>3, <3>1 DEF Rising
  <2> QED  BY <2>1, <2>2, <2>3 DEF Bytes
<1>9. ASSUME Rising(v), Rising(w), \A a \in Bytes(v), b \in Bytes(w) : a < b
      PROVE  Rising(x)
  <2> SUFFICES ASSUME NEW k \in DOMAIN x, NEW n \in DOMAIN x, k < n,
                      x[k] # NewLine, x[n] # NewLine
               PROVE  x[k] < x[n]
    BY DEF Rising
  <2>1. CASE n \in DOMAIN v
    <3>1. k \in DOMAIN v
      BY <1>2, <1>4, <2>1
    <3> QED  BY <1>6, <1>9, <2>1, <3>1 DEF Rising
  <2>2. CASE k \in DOMAIN v /\ n \notin DOMAIN v
    <3>1. x[k] \in Bytes(v)
      BY <1>6, <2>2 DEF Bytes
    <3>2. x[n] \in Bytes(w)
      BY <1>5, <2>2 DEF Bytes
    <3> QED  BY <1>9, <3>1, <3>2
  <2>3. CASE k \notin DOMAIN v /\ n \notin DOMAIN v
    <3>1. k - Len(v) < n - Len(v)
      BY <1>2, <1>4
    <3> QED  BY <1>5, <1>9, <2>3, <3>1 DEF Rising
  <2> QED  BY <2>1, <2>2, <2>3
<1> QED  BY <1>7, <1>8, <1>9 DEF x

LEMMA CoversJoin ==
  ASSUME NEW lo \in Nat, NEW m \in Nat, NEW hi \in Nat, lo <= m, m <= hi,
         NEW v, NEW w, Covers(v, lo, m), Covers(w, m, hi)
  PROVE  Covers(v \o w, lo, hi)
<1>1. v \in Seq(Nat) /\ w \in Seq(Nat) /\ v \o w \in Seq(Nat)
  BY DEF Covers
<1>2. /\ \A b : b \in Bytes(v) <=> b \in lo + 1 .. m
      /\ \A b : b \in Bytes(w) <=> b \in m + 1 .. hi
  BY DEF Covers
<1>3. \A b : b \in lo + 1 .. hi <=> b \in lo + 1 .. m \/ b \in m + 1 .. hi
  OBVIOUS
<1>4. \A a \in Bytes(v), b \in Bytes(w) : a < b
  BY <1>2
<1>5. Rising(v) /\ Rising(w)
  BY DEF Covers
<1>6. Rising(v \o w)
  BY <1>1, <1>4, <1>5, JoinHolds
<1>7. \A b : b \in Bytes(v \o w) <=> b \in lo + 1 .. hi
  BY <1>1, <1>2, <1>3, JoinHolds
<1> QED  BY <1>1, <1>6, <1>7 DEF Covers

LEMMA PartOf ==
  ASSUME NEW v \in Seq(Nat), NEW k \in 1 .. Len(v) + 1, NEW n \in 0 .. Len(v)
  PROVE  LET w == SubSeq(v, k, n) IN
         /\ w \in Seq(Nat)
         /\ Len(w) = IF k <= n THEN n - k + 1 ELSE 0
         /\ \A i \in 1 .. Len(w) : w[i] = v[k + i - 1]
         /\ \A b : b \in Bytes(w) <=> b # NewLine /\ \E i \in k .. n : v[i] = b
         /\ Rising(v) => Rising(w)
<1> DEFINE w == SubSeq(v, k, n)
<1>1. w \in Seq(Nat) /\ Len(w) = IF k <= n THEN n - k + 1 ELSE 0
  OBVIOUS
<1>2. \A i \in 1 .. Len(w) : w[i] = v[k + i - 1] /\ k + i - 1 \in k .. n
  <2> SUFFICES ASSUME NEW i \in 1 .. Len(w)
               PROVE  w[i] = v[k + i - 1] /\ k + i - 1 \in k .. n
    OBVIOUS
  <2>1. k <= n /\ i \in 1 .. n - k + 1
    BY <1>1
  <2>2. SubSeq(v, k, n) = [j \in 1 .. n - k + 1 |-> v[k + j - 1]]
    BY <2>1
  <2> QED  BY <2>1, <2>2
<1> HIDE DEF w
<1>3. \A i \in k .. n : i - k + 1 \in 1 .. Len(w) /\ w[i - k + 1] = v[i]
  <2> SUFFICES ASSUME NEW i \in k .. n
               PROVE  i - k + 1 \in 1 .. Len(w) /\ w[i - k + 1] = v[i]
    OBVIOUS
  <2>1. i - k + 1 \in 1 .. Len(w) /\ k + (i - k + 1) - 1 = i
    BY <1>1
  <2> QED  BY <1>2, <2>1
<1>4. \A b : b \in Bytes(w) <=> b # NewLine /\ \E i \in k .. n : v[i] = b
  <2>1. ASSUME NEW b, b \in Bytes(w) PROVE b # NewLine /\ \E i \in k .. n : v[i] = b
    <3>1. PICK i \in 1 .. Len(w) : w[i] = b /\ b # NewLine
      BY <1>1, <2>1, BytesAre
    <3> QED  BY <1>2, <3>1
  <2>2. ASSUME NEW b, b # NewLine, NEW i \in k .. n, v[i] = b PROVE b \in Bytes(w)
    BY <1>1, <1>3, <2>2, BytesAre
  <2> QED  BY <2>1, <2>2
<1>5. Rising(v) => Rising(w)
  <2>0. DOMAIN v = 1 .. Len(v) /\ DOMAIN w = 1 .. Len(w)
    BY <1>1
  <2> SUFFICES ASSUME Rising(v), NEW i \in 1 .. Len(w), NEW j \in 1 .. Len(w), i < j,
                      w[i] # NewLine, w[j] # NewLine
               PROVE  w[i] < w[j]
    BY <2>0 DEF Rising
  <2>1. /\ k + i - 1 \in 1 .. Len(v) /\ k + j - 1 \in 1 .. Len(v) /\ k + i - 1 < k + j - 1
        /\ w[i] = v[k + i - 1] /\ w[j] = v[k + j - 1]
    <3>1. /\ k + i - 1 \in k .. n /\ w[i] = v[k + i - 1]
          /\ k + j - 1 \in k .. n /\ w[j] = v[k + j - 1]
      BY <1>2
    <3>2. k + i - 1 < k + j - 1
      BY <1>1
    <3>3. \A m \in k .. n : m \in 1 .. Len(v)
      OBVIOUS
    <3> QED  BY <3>1, <3>2, <3>3
  <2> QED  BY <2>0, <2>1 DEF Rising
<1> QED  BY <1>1, <1>2, <1>4, <1>5 DEF w

\* A set of numbers up to hi is empty or has a greatest one.
LEMMA GreatestOf ==
  ASSUME NEW hi \in Nat, NEW D \in SUBSET (0 .. hi), D # {}
  PROVE  \E n \in D : \A m \in D : m <= n
<1> DEFINE E == {hi - d : d \in D}
<1>1. E \in SUBSET Nat /\ E # {}
  <2>1. \A d \in D : hi - d \in Nat
    OBVIOUS
  <2> QED  BY <2>1
<1>2. PICK e \in E : \A f \in E : e <= f
  <2> HIDE DEF E
  <2> QED  BY <1>1, LeastOf
<1>3. PICK n \in D : e = hi - n
  OBVIOUS
<1>4. ASSUME NEW m \in D PROVE m <= n
  <2>1. hi - n <= hi - m
    BY <1>2, <1>3
  <2> QED  BY <2>1
<1> QED  BY <1>4

\* The bytes of a value come before those of the one behind it.
LEMMA CoversSplit ==
  ASSUME NEW lo \in Nat, NEW hi \in Nat, lo <= hi, NEW p \in Seq(Nat), NEW q \in Seq(Nat),
         Covers(p \o q, lo, hi)
  PROVE  \E m \in lo .. hi : Covers(p, lo, m) /\ Covers(q, m, hi)
<1>2. Bytes(p \o q) = lo + 1 .. hi /\ Rising(p \o q)
  BY DEF Covers
<1>4. Bytes(p) \cup Bytes(q) = lo + 1 .. hi
  BY <1>2, JoinHolds
<1>5. Rising(p) /\ Rising(q) /\ \A a \in Bytes(p), b \in Bytes(q) : a < b
  BY <1>2, JoinHolds
<1>6. PICK m \in lo .. hi : Bytes(p) = lo + 1 .. m
  <2>1. CASE Bytes(p) = {}
    BY <2>1
  <2>2. CASE Bytes(p) # {}
    <3>1. Bytes(p) \in SUBSET (0 .. hi)
      BY <1>4
    <3>2. PICK m \in Bytes(p) : \A b \in Bytes(p) : b <= m
      BY <2>2, <3>1, GreatestOf
    <3>3. m \in lo .. hi
      BY <1>4, <3>2
    <3>4. Bytes(p) = lo + 1 .. m
      <4>1. ASSUME NEW b \in lo + 1 .. m PROVE b \in Bytes(p)
        <5>1. b \in lo + 1 .. hi
          BY <3>3
        <5>2. b \notin Bytes(q)
          BY <1>5, <3>2, <3>3
        <5> QED  BY <1>4, <5>1, <5>2
      <4>2. ASSUME NEW b \in Bytes(p) PROVE b \in lo + 1 .. m
        <5>1. b \in lo + 1 .. hi /\ b <= m
          BY <1>4, <3>2
        <5> QED  BY <3>3, <5>1
      <4> QED  BY <4>1, <4>2
    <3> QED  BY <3>3, <3>4
  <2> QED  BY <2>1, <2>2
<1>7. Bytes(q) = m + 1 .. hi
  <2>1. ASSUME NEW b \in Bytes(q) PROVE b \in m + 1 .. hi
    <3>1. b \in lo + 1 .. hi
      BY <1>4
    <3>2. \A a \in lo + 1 .. m : a < b
      BY <1>5, <1>6
    <3>3. b \notin lo + 1 .. m
      BY <3>1, <3>2
    <3> QED  BY <3>1, <3>3
  <2>2. ASSUME NEW b \in m + 1 .. hi PROVE b \in Bytes(q)
    <3>1. b \in lo + 1 .. hi /\ b \notin lo + 1 .. m
      BY <2>2
    <3> QED  BY <1>4, <1>6, <3>1
  <2> QED  BY <2>1, <2>2
<1> QED  BY <1>5, <1>6, <1>7 DEF Covers

LEMMA CoversCut ==
  ASSUME NEW lo \in Nat, NEW hi \in Nat, lo <= hi, NEW v, Covers(v, lo, hi),
         NEW k \in 0 .. Len(v)
  PROVE  \E m \in lo .. hi : /\ Covers(SubSeq(v, 1, k), lo, m)
                             /\ Covers(SubSeq(v, k + 1, Len(v)), m, hi)
<1> DEFINE p == SubSeq(v, 1, k)
           q == SubSeq(v, k + 1, Len(v))
<1>1. /\ v \in Seq(Nat) /\ 1 \in 1 .. Len(v) + 1 /\ k \in 1 - 1 .. Len(v)
      /\ Len(v) \in k .. Len(v)
  BY DEF Covers
<1>2. p \o q = v
  BY <1>1, ConcatAdjacentSubSeq, SubSeqFull
<1>3. p \in Seq(Nat) /\ q \in Seq(Nat)
  BY <1>1
<1> HIDE DEF p, q
<1>4. \E m \in lo .. hi : Covers(p, lo, m) /\ Covers(q, m, hi)
  BY <1>2, <1>3, CoversSplit
<1> QED  BY <1>4 DEF p, q

LEMMA TrimKeeps ==
  ASSUME NEW v \in Seq(Nat)
  PROVE  /\ TrimSpace(v) \in Seq(Nat)
         /\ Len(TrimSpace(v)) <= Len(v)
         /\ Bytes(TrimSpace(v)) = Bytes(v)
         /\ Rising(v) => Rising(TrimSpace(v))
<1> DEFINE kept == {i \in 1 .. Len(v) : v[i] # NewLine}
           first == CHOOSE i \in kept : \A j \in kept : i <= j
           last == CHOOSE i \in kept : \A j \in kept : i >= j
<1>0. TrimSpace(v) = IF kept = {} THEN <<>> ELSE SubSeq(v, first, last)
  BY DEF TrimSpace
<1>1. Len(v) \in Nat
  OBVIOUS
<1>2. \A b : b \in Bytes(v) <=> b # NewLine /\ \E i \in kept : v[i] = b
  BY BytesAre
<1>3. CASE kept = {}
  <2>1. <<>> \in Seq(Nat) /\ Len(<<>>) = 0 /\ DOMAIN <<>> = {}
    OBVIOUS
  <2>2. Bytes(<<>>) = {} /\ Rising(<<>>)
    BY <2>1 DEF Bytes, Rising
  <2>3. Bytes(v) = {}
    BY <1>2, <1>3
  <2> QED  BY <1>0, <1>1, <1>3, <2>1, <2>2, <2>3
<1>4. CASE kept # {}
  <2>1. first \in kept /\ \A j \in kept : first <= j
    <3>1. kept \in SUBSET Nat
      OBVIOUS
    <3>2. \E i \in kept : \A j \in kept : i <= j
      <4> HIDE DEF kept
      <4> QED  BY <1>4, <3>1, LeastOf
    <3> HIDE DEF kept
    <3> QED  BY <3>2
  <2>2. last \in kept /\ \A j \in kept : last >= j
    <3>1. kept \in SUBSET (0 .. Len(v))
      OBVIOUS
    <3>2. \E i \in kept : \A j \in kept : j <= i
      <4> HIDE DEF kept
      <4> QED  BY <1>1, <1>4, <3>1, GreatestOf
    <3>3. \E i \in kept : \A j \in kept : i >= j
      BY <3>2
    <3> HIDE DEF kept
    <3> QED  BY <3>3
  <2> HIDE DEF first, last
  <2>3. first \in 1 .. Len(v) /\ last \in 1 .. Len(v)
    BY <2>1, <2>2
  <2>4. first \in 1 .. Len(v) + 1 /\ last \in 0 .. Len(v)
    BY <1>1, <2>3
  <2> DEFINE w == SubSeq(v, first, last)
  <2>5. /\ w \in Seq(Nat)
        /\ Len(w) = IF first <= last THEN last - first + 1 ELSE 0
        /\ \A b : b \in Bytes(w) <=> b # NewLine /\ \E i \in first .. last : v[i] = b
        /\ Rising(v) => Rising(w)
    BY <2>4, PartOf
  <2>6. \A i \in kept : i \in first .. last
    BY <2>1, <2>2, <2>3
  <2>7. \A i \in first .. last : i \in 1 .. Len(v)
    BY <2>3
  <2>8. \A b : b \in Bytes(w) <=> b \in Bytes(v)
    <3> HIDE DEF w
    <3> QED  BY <1>2, <2>5, <2>6, <2>7
  <2>9. TrimSpace(v) = w
    BY <1>0, <1>4
  <2>10. Len(w) <= Len(v)
    <3> HIDE DEF w
    <3> QED  BY <1>1, <2>3, <2>5
  <2> HIDE DEF w
  <2> QED  BY <2>5, <2>8, <2>9, <2>10
<1> QED  BY <1>3, <1>4

LEMMA CoversTrim ==
  ASSUME NEW lo, NEW hi, NEW v, Covers(v, lo, hi)
  PROVE  /\ Covers(TrimSpace(v), lo, hi)
         /\ Len(TrimSpace(v)) <= Len(v)
BY TrimKeeps DEF Covers

--------------------------------------------------------------------------------
(* Pieces in a row.                                                          *)

Cuts(ps, cut, lo, hi) ==
  /\ cut \in [0 .. Len(ps) -> Nat]
  /\ cut[0] = lo /\ cut[Len(ps)] = hi
  /\ \A i \in 1 .. Len(ps) : cut[i - 1] <= cut[i] /\ Covers(ps[i], cut[i - 1], cut[i])

\* Together they hold the bytes lo + 1 .. hi, each of them some, one after the other.
Chain(ps, lo, hi) ==
  /\ ps \in Seq(Seq(Nat))
  /\ lo \in Nat /\ hi \in Nat /\ lo <= hi
  /\ \E cut : Cuts(ps, cut, lo, hi)

LEMMA ChainOfNone ==
  ASSUME NEW m \in Nat
  PROVE  Chain(<<>>, m, m)
<1>1. Cuts(<<>>, [i \in 0 .. 0 |-> m], m, m)
  BY DEF Cuts
<1> QED  BY <1>1 DEF Chain

LEMMA ChainAppend ==
  ASSUME NEW lo, NEW m, NEW hi \in Nat, m <= hi, NEW ps, NEW p,
         Chain(ps, lo, m), Covers(p, m, hi)
  PROVE  Chain(Append(ps, p), lo, hi)
<1>1. PICK cut : Cuts(ps, cut, lo, m)
  BY DEF Chain
<1> DEFINE n == Len(ps)
           qs == Append(ps, p)
           new == [i \in 0 .. n + 1 |-> IF i = n + 1 THEN hi ELSE cut[i]]
<1>2. ps \in Seq(Seq(Nat)) /\ p \in Seq(Nat) /\ n \in Nat /\ lo \in Nat /\ m \in Nat /\ lo <= m
  BY DEF Chain, Covers
<1>3. qs \in Seq(Seq(Nat)) /\ Len(qs) = n + 1 /\ qs[n + 1] = p
  BY <1>2
<1>4. \A i \in 1 .. n : qs[i] = ps[i]
  BY <1>2
<1>5. new[n + 1] = hi /\ new \in [0 .. n + 1 -> Nat]
  BY <1>1 DEF Cuts
<1>6. \A i \in 0 .. n : new[i] = cut[i]
  BY <1>2
<1> HIDE DEF new, qs
<1>7. Cuts(qs, new, lo, hi)
  <2>1. ASSUME NEW i \in 1 .. n + 1
        PROVE  new[i - 1] <= new[i] /\ Covers(qs[i], new[i - 1], new[i])
    <3>1. CASE i = n + 1
      <4>1. new[n] = m /\ i - 1 = n
        BY <1>1, <1>2, <1>6, <3>1 DEF Cuts
      <4> QED  BY <1>3, <1>5, <3>1, <4>1
    <3>2. CASE i \in 1 .. n
      <4>1. new[i - 1] = cut[i - 1] /\ new[i] = cut[i] /\ qs[i] = ps[i]
        <5>1. i - 1 \in 0 .. n /\ i \in 0 .. n
          BY <1>2, <3>2
        <5> QED  BY <1>4, <1>6, <3>2, <5>1
      <4> QED  BY <1>1, <3>2, <4>1 DEF Cuts
    <3> QED  BY <1>2, <3>1, <3>2
  <2>2. new[0] = lo
    BY <1>1, <1>2, <1>6 DEF Cuts
  <2> QED  BY <1>3, <1>5, <2>1, <2>2 DEF Cuts
<1> QED  BY <1>2, <1>3, <1>7 DEF Chain, qs

LEMMA ChainConcat ==
  ASSUME NEW lo, NEW m, NEW hi, NEW ps, NEW qs, Chain(ps, lo, m), Chain(qs, m, hi)
  PROVE  Chain(ps \o qs, lo, hi)
<1>1. PICK f : Cuts(ps, f, lo, m)
  BY DEF Chain
<1>2. PICK g : Cuts(qs, g, m, hi)
  BY DEF Chain
<1> DEFINE n == Len(ps)
           k == Len(qs)
           rs == ps \o qs
           new == [i \in 0 .. n + k |-> IF i <= n THEN f[i] ELSE g[i - n]]
<1>3. /\ ps \in Seq(Seq(Nat)) /\ qs \in Seq(Seq(Nat)) /\ n \in Nat /\ k \in Nat
      /\ lo \in Nat /\ m \in Nat /\ hi \in Nat /\ lo <= m /\ m <= hi
  BY DEF Chain
<1>4. rs \in Seq(Seq(Nat)) /\ Len(rs) = n + k
  BY <1>3
<1>5. /\ \A i \in 1 .. n : rs[i] = ps[i]
      /\ \A i \in 1 .. k : rs[n + i] = qs[i]
  BY <1>3
<1>6. \A i \in 0 .. n : new[i] = f[i]
  BY <1>3
<1>7. \A i \in 0 .. k : new[n + i] = g[i]
  <2> SUFFICES ASSUME NEW i \in 0 .. k PROVE new[n + i] = g[i]
    OBVIOUS
  <2>1. CASE i = 0
    BY <1>1, <1>2, <1>3, <2>1 DEF Cuts
  <2>2. CASE i # 0
    <3>1. n + i \in 0 .. n + k /\ ~(n + i <= n) /\ (n + i) - n = i
      BY <1>3, <2>2
    <3> QED  BY <3>1
  <2> QED  BY <2>1, <2>2
<1>8. new \in [0 .. n + k -> Nat]
  <2> SUFFICES ASSUME NEW i \in 0 .. n + k
               PROVE  (IF i <= n THEN f[i] ELSE g[i - n]) \in Nat
    OBVIOUS
  <2>1. CASE i <= n
    <3>1. i \in 0 .. n
      BY <1>3, <2>1
    <3> QED  BY <1>1, <2>1, <3>1 DEF Cuts
  <2>2. CASE ~(i <= n)
    <3>1. i - n \in 0 .. k
      BY <1>3, <2>2
    <3> QED  BY <1>2, <2>2, <3>1 DEF Cuts
  <2> QED  BY <2>1, <2>2
<1> HIDE DEF new, rs
<1>9. Cuts(rs, new, lo, hi)
  <2>1. ASSUME NEW i \in 1 .. n + k
        PROVE  new[i - 1] <= new[i] /\ Covers(rs[i], new[i - 1], new[i])
    <3>1. CASE i \in 1 .. n
      <4>1. new[i - 1] = f[i - 1] /\ new[i] = f[i] /\ rs[i] = ps[i]
        <5>1. i - 1 \in 0 .. n /\ i \in 0 .. n
          BY <1>3, <3>1
        <5> QED  BY <1>5, <1>6, <3>1, <5>1
      <4> QED  BY <1>1, <3>1, <4>1 DEF Cuts
    <3>2. CASE i \notin 1 .. n
      <4> DEFINE j == i - n
      <4>1. j \in 1 .. k /\ n + j = i /\ j - 1 \in 0 .. k /\ j \in 0 .. k /\ n + (j - 1) = i - 1
        BY <1>3, <3>2
      <4> HIDE DEF j
      <4>2. new[i - 1] = g[j - 1] /\ new[i] = g[j] /\ rs[i] = qs[j]
        BY <1>5, <1>7, <4>1
      <4> QED  BY <1>2, <4>1, <4>2 DEF Cuts
    <3> QED  BY <3>1, <3>2
  <2>2. new[0] = lo /\ new[n + k] = hi
    BY <1>1, <1>2, <1>3, <1>6, <1>7 DEF Cuts
  <2> QED  BY <1>4, <1>8, <2>1, <2>2 DEF Cuts
<1> QED  BY <1>3, <1>4, <1>9 DEF Chain, rs

LEMMA CutsRise ==
  ASSUME NEW n \in Nat, NEW cut \in [0 .. n -> Nat], \A i \in 1 .. n : cut[i - 1] <= cut[i]
  PROVE  \A j \in 0 .. n : \A i \in 0 .. j : cut[i] <= cut[j]
<1> DEFINE I == {j \in 0 .. n : \A i \in 0 .. j : cut[i] <= cut[j]}
<1>1. 0 \in I
  OBVIOUS
<1>2. ASSUME NEW j \in 0 .. n - 1, j \in I PROVE j + 1 \in I
  <2>1. j + 1 \in 1 .. n /\ (j + 1) - 1 = j /\ j + 1 \in 0 .. n /\ j \in 0 .. n
    OBVIOUS
  <2>2. cut[j] <= cut[j + 1] /\ cut[j] \in Nat /\ cut[j + 1] \in Nat
    BY <2>1
  <2>3. ASSUME NEW i \in 0 .. j + 1 PROVE cut[i] <= cut[j + 1]
    <3>1. CASE i = j + 1
      BY <2>2, <3>1
    <3>2. CASE i \in 0 .. j
      <4>1. cut[i] <= cut[j] /\ cut[i] \in Nat
        BY <1>2, <3>2
      <4> QED  BY <2>2, <4>1
    <3> QED  BY <3>1, <3>2
  <2> QED  BY <2>1, <2>3
<1>3. \A j \in 0 .. n - 1 : j \in I => j + 1 \in I
  BY <1>2
<1>4. \A j \in 0 .. n : j \in I
  <2> HIDE DEF I
  <2> QED  BY <1>1, <1>3, HoldsUpTo
<1> QED  BY <1>4

\* What the pieces of a chain hold, told without its cuts.
LEMMA ChainHolds ==
  ASSUME NEW ps, NEW lo, NEW hi, Chain(ps, lo, hi)
  PROVE  /\ \A b : b \in lo + 1 .. hi <=> \E i \in 1 .. Len(ps) : b \in Bytes(ps[i])
         /\ \A i \in 1 .. Len(ps) : Rising(ps[i])
         /\ \A i, j \in 1 .. Len(ps) :
              i < j => \A a \in Bytes(ps[i]), b \in Bytes(ps[j]) : a < b
<1>1. PICK cut : Cuts(ps, cut, lo, hi)
  BY DEF Chain
<1> DEFINE n == Len(ps)
<1>2. n \in Nat /\ lo \in Nat /\ hi \in Nat /\ lo <= hi
  BY DEF Chain
<1>3. /\ cut \in [0 .. n -> Nat] /\ cut[0] = lo /\ cut[n] = hi
      /\ \A i \in 1 .. n : /\ cut[i - 1] <= cut[i] /\ Rising(ps[i])
                           /\ Bytes(ps[i]) = cut[i - 1] + 1 .. cut[i]
  BY <1>1 DEF Cuts, Covers
<1> HIDE DEF n
<1>4. \A j \in 0 .. n : \A i \in 0 .. j : cut[i] <= cut[j]
  BY <1>2, <1>3, CutsRise
<1>5. ASSUME NEW i \in 1 .. n, NEW b \in Bytes(ps[i])
      PROVE  b \in lo + 1 .. hi /\ cut[i - 1] < b /\ b <= cut[i]
  <2>1. i \in 0 .. n /\ i - 1 \in 0 .. n /\ 0 \in 0 .. i - 1 /\ n \in 0 .. n /\ i \in 0 .. n
    BY <1>2
  <2>2. lo <= cut[i - 1] /\ cut[i] <= hi /\ cut[i - 1] \in Nat /\ cut[i] \in Nat
    BY <1>3, <1>4, <2>1
  <2>3. b \in cut[i - 1] + 1 .. cut[i]
    BY <1>3
  <2> QED  BY <1>2, <2>2, <2>3
<1>6. ASSUME NEW b \in lo + 1 .. hi
      PROVE  \E i \in 1 .. n : b \in Bytes(ps[i])
  <2> DEFINE D == {i \in 0 .. n : b <= cut[i]}
  <2>1. n \in D /\ D \in SUBSET Nat
    BY <1>2, <1>3
  <2>2. PICK i \in D : \A j \in D : i <= j
    <3> HIDE DEF D
    <3> QED  BY <2>1, LeastOf
  <2>3. i # 0
    BY <1>2, <1>3
  <2>4. i \in 1 .. n /\ i - 1 \in 0 .. n /\ i - 1 \notin D
    BY <1>2, <2>2, <2>3
  <2>5. cut[i - 1] \in Nat /\ cut[i] \in Nat
    BY <1>3, <2>4
  <2>6. b \in cut[i - 1] + 1 .. cut[i]
    BY <1>2, <2>4, <2>5
  <2> QED  BY <1>3, <2>4, <2>6
<1>7. ASSUME NEW i \in 1 .. n, NEW j \in 1 .. n, i < j, NEW a \in Bytes(ps[i]), NEW b \in Bytes(ps[j])
      PROVE  a < b
  <2>1. a <= cut[i] /\ cut[j - 1] < b /\ a \in Int /\ b \in Int
    BY <1>2, <1>5
  <2>2. j - 1 \in 0 .. n /\ i \in 0 .. j - 1
    BY <1>2, <1>7
  <2>3. cut[i] <= cut[j - 1] /\ cut[i] \in Nat /\ cut[j - 1] \in Nat
    BY <1>3, <1>4, <2>2
  <2> QED  BY <2>1, <2>3
<1> QED  BY <1>3, <1>5, <1>6, <1>7 DEF n

--------------------------------------------------------------------------------
(* The loop of hardSplit.                                                    *)

LEMMA Limits ==
  MaxLimit \in Nat /\ MaxLimit > 0 /\ TargetLimit \in Int /\ TargetLimit <= MaxLimit
BY ChunkerConstants DEF MaxLimit, TargetLimit

\* What may be a chunk.
Piece == {p \in Seq(Nat) : Len(p) <= MaxLimit}

CutState == [parts : Seq(Seq(Nat)), rest : Seq(Nat)]

LEMMA CutType ==
  ASSUME NEW done \in CutState
  PROVE  CutStep(done) \in CutState
<1>1. CASE Len(done.rest) <= MaxLimit
  BY <1>1 DEF CutStep
<1>2. CASE ~(Len(done.rest) <= MaxLimit)
  <2>1. done.rest \in Seq(Nat) /\ done.parts \in Seq(Seq(Nat)) /\ Len(done.rest) \in Nat
    BY DEF CutState
  <2> DEFINE k == MaxLimit + 1
  <2>2. /\ k \in 1 .. Len(done.rest) + 1 /\ Len(done.rest) \in 0 .. Len(done.rest)
        /\ 1 \in 1 .. Len(done.rest) + 1 /\ MaxLimit \in 0 .. Len(done.rest)
    BY <1>2, <2>1, Limits
  <2> HIDE DEF k
  <2>3. SubSeq(done.rest, 1, MaxLimit) \in Seq(Nat) /\ SubSeq(done.rest, k, Len(done.rest)) \in Seq(Nat)
    BY <2>1, <2>2, PartOf
  <2>4. TrimSpace(SubSeq(done.rest, k, Len(done.rest))) \in Seq(Nat)
    BY <2>3, TrimKeeps
  <2>5. Append(done.parts, SubSeq(done.rest, 1, MaxLimit)) \in Seq(Seq(Nat))
    BY <2>1, <2>3
  <2> QED  BY <1>2, <2>4, <2>5 DEF CutStep, CutState, k
<1> QED  BY <1>1, <1>2

LEMMA CutLoop ==
  ASSUME NEW value \in Seq(Nat)
  PROVE  \E done :
           /\ done[0] = [parts |-> <<>>, rest |-> value]
           /\ \A i \in 1 .. Len(value) : done[i] = CutStep(done[i - 1])
           /\ HardSplit(value) =
                IF done[Len(value)].rest = <<>> THEN done[Len(value)].parts
                ELSE Append(done[Len(value)].parts, done[Len(value)].rest)
<1> DEFINE n == Len(value)
           base == [parts |-> <<>>, rest |-> value]
           step == [p \in CutState \X (1 .. n) |-> CutStep(p[1])]
           Runs(f) ==
             f = [i \in 0 .. n |-> IF i = 0 THEN base ELSE CutStep(f[i - 1])]
           g == CHOOSE f : Runs(f)
<1>1. n \in Nat /\ base \in CutState
  BY DEF CutState
<1>2. step \in [CutState \X (1 .. n) -> CutState]
  BY CutType
<1>3. PICK f \in [0 .. n -> CutState] : IsRun(f, n, base, step)
  <2> HIDE DEF n, base, step, Runs, g
  <2> QED  BY <1>1, <1>2, LoopDefined
<1>4. Runs(f)
  <2>1. ASSUME NEW i \in 0 .. n
        PROVE  f[i] = IF i = 0 THEN base ELSE CutStep(f[i - 1])
    <3>1. CASE i # 0
      <4>1. i \in 1 .. n /\ i - 1 \in 0 .. n
        BY <1>1, <3>1
      <4>2. <<f[i - 1], i>> \in CutState \X (1 .. n)
        BY <4>1
      <4>3. step[<<f[i - 1], i>>] = CutStep(f[i - 1])
        BY <4>2
      <4> HIDE DEF step
      <4> QED  BY <1>3, <3>1, <4>1, <4>3 DEF IsRun
    <3> QED  BY <1>3, <3>1 DEF IsRun
  <2> HIDE DEF base
  <2> QED  BY <2>1
<1>5. Runs(g)
  <2> HIDE DEF Runs
  <2> QED  BY <1>4
<1>6. HardSplit(value) = IF g[n].rest = <<>> THEN g[n].parts ELSE Append(g[n].parts, g[n].rest)
  BY DEF HardSplit
<1>7. /\ g[0] = base
      /\ \A i \in 1 .. n : g[i] = CutStep(g[i - 1])
  <2> HIDE DEF g, base
  <2>1. \A i \in 0 .. n : g[i] = IF i = 0 THEN base ELSE CutStep(g[i - 1])
    BY <1>5
  <2> QED  BY <1>1, <2>1
<1> HIDE DEF g
<1> QED  BY <1>6, <1>7

\* The parts of a value, none longer than MaxLimit.
LEMMA PartsHold ==
  ASSUME NEW lo \in Nat, NEW hi \in Nat, lo <= hi, NEW value, Covers(value, lo, hi)
  PROVE  /\ Chain(HardSplit(value), lo, hi)
         /\ HardSplit(value) \in Seq(Piece)
<1> DEFINE n == Len(value)
           Holds(d, i) ==
             /\ d \in CutState
             /\ d.parts \in Seq(Piece)
             /\ Len(d.rest) <= MaxLimit \/ Len(d.rest) + i <= n
             /\ \E m \in lo .. hi : Chain(d.parts, lo, m) /\ Covers(d.rest, m, hi)
<1>0. value \in Seq(Nat) /\ n \in Nat
  BY DEF Covers
<1>1. PICK done :
        /\ done[0] = [parts |-> <<>>, rest |-> value]
        /\ \A i \in 1 .. n : done[i] = CutStep(done[i - 1])
        /\ HardSplit(value) = IF done[n].rest = <<>> THEN done[n].parts
                              ELSE Append(done[n].parts, done[n].rest)
  BY <1>0, CutLoop
<1> HIDE DEF n
<1>2. Holds(done[0], 0)
  <2>1. Chain(<<>>, lo, lo)
    BY ChainOfNone
  <2> QED  BY <1>0, <1>1, <2>1 DEF CutState, n
<1>4. ASSUME NEW i \in 0 .. n - 1, NEW d, Holds(d, i)
      PROVE  Holds(CutStep(d), i + 1)
  <2>0. /\ d.rest \in Seq(Nat) /\ d.parts \in Seq(Seq(Nat)) /\ Len(d.rest) \in Nat
        /\ CutStep(d) \in CutState
    BY <1>4, CutType DEF CutState
  <2>1. CASE Len(d.rest) <= MaxLimit
    BY <1>4, <2>0, <2>1 DEF CutStep
  <2>2. CASE ~(Len(d.rest) <= MaxLimit)
    <3> DEFINE p == SubSeq(d.rest, 1, MaxLimit)
               q == SubSeq(d.rest, MaxLimit + 1, Len(d.rest))
               r == TrimSpace(q)
    <3>1. CutStep(d) = [parts |-> Append(d.parts, p), rest |-> r]
      BY <2>2 DEF CutStep
    <3>2. PICK m \in lo .. hi : Chain(d.parts, lo, m) /\ Covers(d.rest, m, hi)
      BY <1>4
    <3>3. MaxLimit \in 0 .. Len(d.rest) /\ m \in Nat /\ m <= hi /\ MaxLimit \in Nat /\ MaxLimit > 0
      BY <2>0, <2>2, Limits
    <3>4. PICK k \in m .. hi : Covers(p, m, k) /\ Covers(q, k, hi)
      BY <3>2, <3>3, CoversCut
    <3>5. Len(p) = MaxLimit /\ Len(q) = Len(d.rest) - MaxLimit
      BY <2>0, <2>2, <3>3
    <3> HIDE DEF p, q
    <3>6. Covers(r, k, hi) /\ Len(r) <= Len(q)
      BY <3>4, CoversTrim
    <3> HIDE DEF r
    <3>7. k \in Nat /\ m <= k /\ k \in lo .. hi
      BY <3>3
    <3>8. Chain(Append(d.parts, p), lo, k)
      BY <3>2, <3>4, <3>7, ChainAppend
    <3>9. Append(d.parts, p) \in Seq(Piece)
      <4>1. p \in Seq(Nat) /\ Len(p) <= MaxLimit
        BY <3>3, <3>4, <3>5 DEF Covers
      <4> QED  BY <1>4, <4>1 DEF Piece
    <3>10. Len(r) + (i + 1) <= n
      <4>1. Len(r) \in Nat /\ Len(d.rest) + i <= n
        BY <1>4, <2>2, <3>6 DEF Covers
      <4> QED  BY <1>0, <2>0, <3>3, <3>5, <3>6, <4>1
    <3> QED  BY <2>0, <3>1, <3>6, <3>7, <3>8, <3>9, <3>10
  <2> QED  BY <2>1, <2>2
<1>5. Holds(done[n], n)
  <2> HIDE DEF Holds
  <2> DEFINE I == {i \in 0 .. n : Holds(done[i], i)}
  <2>1. 0 \in I
    BY <1>0, <1>2
  <2>2. ASSUME NEW i \in 0 .. n - 1, i \in I PROVE i + 1 \in I
    <3>1. i + 1 \in 1 .. n /\ (i + 1) - 1 = i
      BY <1>0
    <3>2. done[i + 1] = CutStep(done[i])
      BY <1>1, <3>1
    <3> QED  BY <1>4, <2>2, <3>1, <3>2
  <2>3. \A i \in 0 .. n - 1 : i \in I => i + 1 \in I
    BY <2>2
  <2>4. \A i \in 0 .. n : i \in I
    <3> HIDE DEF I
    <3> QED  BY <1>0, <2>1, <2>3, HoldsUpTo
  <2> QED  BY <1>0, <2>4
<1> DEFINE end == done[n]
<1> HIDE DEF end
<1>6. PICK m \in lo .. hi : Chain(end.parts, lo, m) /\ Covers(end.rest, m, hi)
  BY <1>5 DEF end
<1>7. /\ end.rest \in Seq(Nat) /\ end.parts \in Seq(Seq(Nat)) /\ end.parts \in Seq(Piece)
      /\ Len(end.rest) <= MaxLimit
  BY <1>0, <1>5, Limits DEF CutState, end
<1>8. m \in Nat /\ m <= hi
  OBVIOUS
<1>9. CASE end.rest = <<>>
  <2>1. m = hi
    BY <1>6, <1>8, <1>9, NothingCovers
  <2>2. HardSplit(value) = end.parts
    BY <1>1, <1>9 DEF end
  <2> QED  BY <1>6, <1>7, <2>1, <2>2
<1>10. CASE end.rest # <<>>
  <2>1. HardSplit(value) = Append(end.parts, end.rest)
    BY <1>1, <1>10 DEF end
  <2>2. Chain(Append(end.parts, end.rest), lo, hi)
    BY <1>6, <1>8, ChainAppend
  <2>3. Append(end.parts, end.rest) \in Seq(Piece)
    BY <1>7 DEF Piece
  <2> QED  BY <2>1, <2>2, <2>3
<1> QED  BY <1>9, <1>10
--------------------------------------------------------------------------------
(* The loop of strings.Split.                                                *)

ParagraphState == [paragraphs : Seq(Seq(Nat)), current : Seq(Nat)]

LEMMA ParagraphType ==
  ASSUME NEW done \in ParagraphState, NEW b \in Nat
  PROVE  ParagraphStep(done, b) \in ParagraphState
<1>1. /\ done.current \in Seq(Nat) /\ done.paragraphs \in Seq(Seq(Nat))
      /\ TrimSpace(done.current) \in Seq(Nat)
  BY TrimKeeps DEF ParagraphState
<1>2. /\ Append(done.paragraphs, TrimSpace(done.current)) \in Seq(Seq(Nat))
      /\ Append(done.current, b) \in Seq(Nat) /\ <<>> \in Seq(Nat)
  BY <1>1
<1> QED  BY <1>2 DEF ParagraphStep, ParagraphState

LEMMA ParagraphLoop ==
  ASSUME NEW body \in Seq(Nat)
  PROVE  \E done :
           /\ done[0] = [paragraphs |-> <<>>, current |-> <<>>]
           /\ \A i \in 1 .. Len(body) : done[i] = ParagraphStep(done[i - 1], body[i])
           /\ Paragraphs(body) =
                Append(done[Len(body)].paragraphs, TrimSpace(done[Len(body)].current))
<1> DEFINE n == Len(body)
           base == [paragraphs |-> <<>>, current |-> <<>>]
           step == [p \in ParagraphState \X (1 .. n) |-> ParagraphStep(p[1], body[p[2]])]
           Runs(f) ==
             f = [i \in 0 .. n |-> IF i = 0 THEN base ELSE ParagraphStep(f[i - 1], body[i])]
           g == CHOOSE f : Runs(f)
<1>1. n \in Nat /\ base \in ParagraphState
  BY DEF ParagraphState
<1>2. step \in [ParagraphState \X (1 .. n) -> ParagraphState]
  <2>1. ASSUME NEW p \in ParagraphState \X (1 .. n)
        PROVE  ParagraphStep(p[1], body[p[2]]) \in ParagraphState
    <3>1. p[1] \in ParagraphState /\ body[p[2]] \in Nat
      OBVIOUS
    <3> QED  BY <3>1, ParagraphType
  <2> QED  BY <2>1
<1>3. PICK f \in [0 .. n -> ParagraphState] : IsRun(f, n, base, step)
  <2> HIDE DEF n, base, step, Runs, g
  <2> QED  BY <1>1, <1>2, LoopDefined
<1>4. Runs(f)
  <2>1. ASSUME NEW i \in 0 .. n
        PROVE  f[i] = IF i = 0 THEN base ELSE ParagraphStep(f[i - 1], body[i])
    <3>1. CASE i # 0
      <4>1. i \in 1 .. n /\ i - 1 \in 0 .. n
        BY <1>1, <3>1
      <4>2. <<f[i - 1], i>> \in ParagraphState \X (1 .. n)
        BY <4>1
      <4>3. step[<<f[i - 1], i>>] = ParagraphStep(f[i - 1], body[i])
        BY <4>2
      <4> HIDE DEF step
      <4> QED  BY <1>3, <3>1, <4>1, <4>3 DEF IsRun
    <3> QED  BY <1>3, <3>1 DEF IsRun
  <2> HIDE DEF base
  <2> QED  BY <2>1
<1>5. Runs(g)
  <2> HIDE DEF Runs
  <2> QED  BY <1>4
<1>6. Paragraphs(body) = Append(g[n].paragraphs, TrimSpace(g[n].current))
  BY DEF Paragraphs
<1>7. /\ g[0] = base
      /\ \A i \in 1 .. n : g[i] = ParagraphStep(g[i - 1], body[i])
  <2> HIDE DEF g, base
  <2>1. \A i \in 0 .. n : g[i] = IF i = 0 THEN base ELSE ParagraphStep(g[i - 1], body[i])
    BY <1>5
  <2> QED  BY <1>1, <2>1
<1> HIDE DEF g
<1> QED  BY <1>6, <1>7

\* The next byte and the rest.
LEMMA CoversNext ==
  ASSUME NEW lo \in Nat, NEW hi \in Nat, lo <= hi, NEW v \in Seq(Nat), NEW j \in 1 .. Len(v),
         Covers(SubSeq(v, j, Len(v)), lo, hi)
  PROVE  \E m \in lo .. hi : /\ Covers(<<v[j]>>, lo, m)
                             /\ Covers(SubSeq(v, j + 1, Len(v)), m, hi)
<1> DEFINE rest == SubSeq(v, j + 1, Len(v))
<1>1. Len(v) \in j .. Len(v) /\ rest \in Seq(Nat) /\ <<v[j]>> \in Seq(Nat)
  OBVIOUS
<1>2. SubSeq(v, j, Len(v)) = <<v[j]>> \o rest
  BY <1>1, SubSeqRecursiveFirst
<1> HIDE DEF rest
<1>3. \E m \in lo .. hi : Covers(<<v[j]>>, lo, m) /\ Covers(rest, m, hi)
  BY <1>1, <1>2, CoversSplit
<1> QED  BY <1>3 DEF rest

\* The paragraphs of a section hold what it does.
LEMMA ParagraphsHold ==
  ASSUME NEW lo \in Nat, NEW hi \in Nat, lo <= hi, NEW body, Covers(body, lo, hi)
  PROVE  Chain(Paragraphs(body), lo, hi)
<1> DEFINE n == Len(body)
           Rest(i) == SubSeq(body, i + 1, n)
           Holds(d, i) ==
             /\ d \in ParagraphState
             /\ \E m \in lo .. hi, k \in lo .. hi :
                  m <= k /\ Chain(d.paragraphs, lo, m) /\ Covers(d.current, m, k) /\ Covers(Rest(i), k, hi)
<1>0. body \in Seq(Nat) /\ n \in Nat
  BY DEF Covers
<1>1. PICK done :
        /\ done[0] = [paragraphs |-> <<>>, current |-> <<>>]
        /\ \A i \in 1 .. n : done[i] = ParagraphStep(done[i - 1], body[i])
        /\ Paragraphs(body) = Append(done[n].paragraphs, TrimSpace(done[n].current))
  BY <1>0, ParagraphLoop
<1> HIDE DEF n
<1>2. Holds(done[0], 0)
  <2>1. Chain(<<>>, lo, lo)
    BY ChainOfNone
  <2>2. Covers(<<>>, lo, lo)
    <3>1. lo \in Nat
      OBVIOUS
    <3> QED  BY <3>1, NoneCovers
  <2>3. Rest(0) = body
    BY <1>0, SubSeqFull DEF n
  <2>4. done[0] \in ParagraphState /\ lo \in lo .. hi /\ lo <= lo
    BY <1>1 DEF ParagraphState
  <2> HIDE DEF Rest
  <2> QED  BY <1>1, <2>1, <2>2, <2>3, <2>4
<1>3. ASSUME NEW i \in 0 .. n - 1, NEW d, Holds(d, i)
      PROVE  Holds(ParagraphStep(d, body[i + 1]), i + 1)
  <2>0. i + 1 \in 1 .. Len(body) /\ body[i + 1] \in Nat
    BY <1>0 DEF n
  <2> DEFINE b == body[i + 1]
             new == ParagraphStep(d, b)
             j == i + 1
  <2>1. PICK m \in lo .. hi, k \in lo .. hi :
          m <= k /\ Chain(d.paragraphs, lo, m) /\ Covers(d.current, m, k) /\ Covers(Rest(i), k, hi)
    BY <1>3
  <2>2. m \in Nat /\ k \in Nat /\ m <= k /\ k <= hi /\ lo <= m /\ k \in lo .. hi
    BY <2>1
  <2>3. PICK x \in k .. hi : Covers(<<b>>, k, x) /\ Covers(Rest(j), x, hi)
    BY <1>0, <2>0, <2>1, <2>2, CoversNext DEF n
  <2>4. x \in Nat /\ x \in lo .. hi /\ x \in m .. hi /\ m <= x /\ k <= x
    BY <2>2
  <2>5. new \in ParagraphState
    BY <1>3, <2>0, ParagraphType
  <2> SUFFICES Holds(new, j)
    OBVIOUS
  <2> HIDE DEF Rest, b, j
  <2>6. CASE b = NewLine /\ d.current # <<>> /\ d.current[Len(d.current)] = NewLine
    <3>1. new = [paragraphs |-> Append(d.paragraphs, TrimSpace(d.current)), current |-> <<>>]
      BY <2>6 DEF ParagraphStep
    <3>2. k = x
      <4>1. \A h \in 1 .. Len(<<b>>) : <<b>>[h] = NewLine
        BY <2>6
      <4> QED  BY <2>2, <2>3, <2>4, <4>1, NothingCovers
    <3>3. Chain(Append(d.paragraphs, TrimSpace(d.current)), lo, k)
      <4>1. Covers(TrimSpace(d.current), m, k)
        BY <2>1, CoversTrim
      <4> QED  BY <2>1, <2>2, <4>1, ChainAppend
    <3>4. Covers(<<>>, k, k) /\ k \in k .. hi
      BY <2>2, NoneCovers
    <3> HIDE DEF new
    <3> QED  BY <2>2, <2>3, <2>5, <3>1, <3>2, <3>3, <3>4
  <2>7. CASE ~(b = NewLine /\ d.current # <<>> /\ d.current[Len(d.current)] = NewLine)
    <3>1. new = [d EXCEPT !.current = Append(@, b)]
      BY <2>7 DEF ParagraphStep
    <3>2. new.paragraphs = d.paragraphs /\ new.current = Append(d.current, b)
      BY <1>3, <3>1 DEF ParagraphState
    <3>3. Append(d.current, b) = d.current \o <<b>>
      BY <1>3 DEF ParagraphState
    <3>4. Covers(d.current \o <<b>>, m, x)
      BY <2>1, <2>2, <2>3, <2>4, CoversJoin
    <3> HIDE DEF new
    <3> QED  BY <2>1, <2>3, <2>4, <2>5, <3>2, <3>3, <3>4
  <2> QED  BY <2>6, <2>7
<1>4. Holds(done[n], n)
  <2> HIDE DEF Holds
  <2> DEFINE I == {i \in 0 .. n : Holds(done[i], i)}
  <2>1. 0 \in I
    BY <1>0, <1>2
  <2>2. ASSUME NEW i \in 0 .. n - 1, i \in I PROVE i + 1 \in I
    <3>1. i + 1 \in 1 .. n /\ (i + 1) - 1 = i
      BY <1>0
    <3>2. done[i + 1] = ParagraphStep(done[i], body[i + 1])
      BY <1>1, <3>1
    <3> QED  BY <1>3, <2>2, <3>1, <3>2
  <2>3. \A i \in 0 .. n - 1 : i \in I => i + 1 \in I
    BY <2>2
  <2>4. \A i \in 0 .. n : i \in I
    <3> HIDE DEF I
    <3> QED  BY <1>0, <2>1, <2>3, HoldsUpTo
  <2> QED  BY <1>0, <2>4
<1>5. PICK m \in lo .. hi, k \in lo .. hi :
        /\ m <= k /\ Chain(done[n].paragraphs, lo, m) /\ Covers(done[n].current, m, k)
        /\ Covers(Rest(n), k, hi)
  BY <1>4
<1>6. m \in Nat /\ k \in Nat /\ m <= k /\ k <= hi
  BY <1>5
<1>7. k = hi
  <2>1. Rest(n) = <<>>
    BY <1>0
  <2>2. \A h \in 1 .. Len(<<>>) : <<>>[h] = NewLine
    OBVIOUS
  <2> HIDE DEF Rest
  <2> QED  BY <1>5, <1>6, <2>1, <2>2, NothingCovers
<1>8. Covers(TrimSpace(done[n].current), m, hi)
  BY <1>5, <1>7, CoversTrim
<1> QED  BY <1>1, <1>5, <1>6, <1>7, <1>8, ChainAppend

--------------------------------------------------------------------------------
(* The loop of chunkSection.                                                 *)

ChunkState == [chunks : Seq(Piece), current : Piece]

LEMMA ChunkType ==
  ASSUME NEW done \in ChunkState, NEW paragraph \in Seq(Nat),
         HardSplit(paragraph) \in Seq(Piece)
  PROVE  ChunkStep(done, paragraph) \in ChunkState
<1>1. done.chunks \in Seq(Piece) /\ done.current \in Piece /\ done.current \in Seq(Nat)
  BY DEF ChunkState, Piece
<1>2. <<>> \in Piece
  BY Limits DEF Piece
<1>3. Append(done.chunks, done.current) \in Seq(Piece)
  BY <1>1
<1>4. /\ BeforeLong(done).chunks \in Seq(Piece)
      /\ BeforeLong(done) = [chunks |-> BeforeLong(done).chunks, current |-> <<>>]
  BY <1>1, <1>3 DEF BeforeLong
<1>5. CASE paragraph = <<>>
  BY <1>5 DEF ChunkStep
<1>6. CASE paragraph # <<>> /\ Len(paragraph) > MaxLimit
  <2> DEFINE before == BeforeLong(done).chunks
  <2>2. ChunkStep(done, paragraph) = [chunks |-> before \o HardSplit(paragraph), current |-> <<>>]
    <3> DEFINE joined == before \o HardSplit(paragraph)
    <3>1. ChunkStep(done, paragraph) = [BeforeLong(done) EXCEPT !.chunks = joined]
      BY <1>6 DEF ChunkStep
    <3>2. BeforeLong(done) = [chunks |-> before, current |-> <<>>]
      BY <1>4
    <3>3. [BeforeLong(done) EXCEPT !.chunks = joined] = [chunks |-> joined, current |-> <<>>]
      <4> HIDE DEF before, joined
      <4> QED  BY <3>2
    <3> QED  BY <3>1, <3>3
  <2>3. before \o HardSplit(paragraph) \in Seq(Piece)
    BY <1>4
  <2> HIDE DEF before
  <2> QED  BY <1>2, <2>2, <2>3 DEF ChunkState
<1>7. CASE paragraph # <<>> /\ ~(Len(paragraph) > MaxLimit)
  <2>1. paragraph \in Piece
    BY <1>7, Limits DEF Piece
  <2> DEFINE candidate == done.current \o <<NewLine, NewLine>> \o paragraph
  <2>2. candidate \in Seq(Nat)
    BY <1>1 DEF NewLine
  <2>3. Len(candidate) <= TargetLimit => candidate \in Piece
    <3>1. Len(candidate) \in Nat
      BY <2>2
    <3> HIDE DEF candidate
    <3> QED  BY <2>2, <3>1, Limits DEF Piece
  <2>4. ChunkStep(done, paragraph) =
          IF done.current = <<>> THEN [done EXCEPT !.current = paragraph]
          ELSE IF Len(candidate) <= TargetLimit THEN [done EXCEPT !.current = candidate]
          ELSE [chunks |-> Append(done.chunks, done.current), current |-> paragraph]
    BY <1>7 DEF ChunkStep
  <2> HIDE DEF candidate
  <2>5. CASE done.current = <<>>
    BY <2>1, <2>4, <2>5 DEF ChunkState
  <2>6. CASE done.current # <<>> /\ Len(candidate) <= TargetLimit
    BY <2>3, <2>4, <2>6 DEF ChunkState
  <2>7. CASE done.current # <<>> /\ ~(Len(candidate) <= TargetLimit)
    BY <1>3, <2>1, <2>4, <2>7 DEF ChunkState
  <2> QED  BY <2>5, <2>6, <2>7
<1> QED  BY <1>5, <1>6, <1>7

LEMMA ChunkLoop ==
  ASSUME NEW paragraphs \in Seq(Seq(Nat)), NEW body, paragraphs = Paragraphs(body),
         \A i \in 1 .. Len(paragraphs) : HardSplit(paragraphs[i]) \in Seq(Piece)
  PROVE  \E done :
           /\ done[0] = [chunks |-> <<>>, current |-> <<>>]
           /\ \A i \in 1 .. Len(paragraphs) : done[i] = ChunkStep(done[i - 1], paragraphs[i])
           /\ ChunkSection(body) =
                IF done[Len(paragraphs)].current = <<>> THEN done[Len(paragraphs)].chunks
                ELSE Append(done[Len(paragraphs)].chunks, done[Len(paragraphs)].current)
<1> DEFINE n == Len(paragraphs)
           base == [chunks |-> <<>>, current |-> <<>>]
           step == [p \in ChunkState \X (1 .. n) |-> ChunkStep(p[1], paragraphs[p[2]])]
           Runs(f) ==
             f = [i \in 0 .. n |-> IF i = 0 THEN base ELSE ChunkStep(f[i - 1], paragraphs[i])]
           g == CHOOSE f : Runs(f)
<1>1. n \in Nat /\ base \in ChunkState
  BY Limits DEF ChunkState, Piece
<1>2. step \in [ChunkState \X (1 .. n) -> ChunkState]
  <2>1. ASSUME NEW p \in ChunkState \X (1 .. n)
        PROVE  ChunkStep(p[1], paragraphs[p[2]]) \in ChunkState
    <3>1. p[1] \in ChunkState /\ paragraphs[p[2]] \in Seq(Nat)
          /\ HardSplit(paragraphs[p[2]]) \in Seq(Piece)
      OBVIOUS
    <3> QED  BY <3>1, ChunkType
  <2> QED  BY <2>1
<1>3. PICK f \in [0 .. n -> ChunkState] : IsRun(f, n, base, step)
  <2> HIDE DEF n, base, step, Runs, g
  <2> QED  BY <1>1, <1>2, LoopDefined
<1>4. Runs(f)
  <2>1. ASSUME NEW i \in 0 .. n
        PROVE  f[i] = IF i = 0 THEN base ELSE ChunkStep(f[i - 1], paragraphs[i])
    <3>1. CASE i # 0
      <4>1. i \in 1 .. n /\ i - 1 \in 0 .. n
        BY <1>1, <3>1
      <4>2. <<f[i - 1], i>> \in ChunkState \X (1 .. n)
        BY <4>1
      <4>3. step[<<f[i - 1], i>>] = ChunkStep(f[i - 1], paragraphs[i])
        BY <4>2
      <4> HIDE DEF step
      <4> QED  BY <1>3, <3>1, <4>1, <4>3 DEF IsRun
    <3> QED  BY <1>3, <3>1 DEF IsRun
  <2> HIDE DEF base
  <2> QED  BY <2>1
<1>5. Runs(g)
  <2> HIDE DEF Runs
  <2> QED  BY <1>4
<1>6. ChunkSection(body) = IF g[n].current = <<>> THEN g[n].chunks ELSE Append(g[n].chunks, g[n].current)
  BY DEF ChunkSection
<1>7. /\ g[0] = base
      /\ \A i \in 1 .. n : g[i] = ChunkStep(g[i - 1], paragraphs[i])
  <2> HIDE DEF g, base
  <2>1. \A i \in 0 .. n : g[i] = IF i = 0 THEN base ELSE ChunkStep(g[i - 1], paragraphs[i])
    BY <1>5
  <2> QED  BY <1>1, <2>1
<1> HIDE DEF g
<1> QED  BY <1>6, <1>7

\* The chunks of a section hold what it does.
LEMMA ChunksHold ==
  ASSUME NEW lo \in Nat, NEW hi \in Nat, lo <= hi, NEW body, Covers(body, lo, hi)
  PROVE  /\ Chain(ChunkSection(body), lo, hi)
         /\ ChunkSection(body) \in Seq(Piece)
<1> DEFINE paragraphs == Paragraphs(body)
           n == Len(paragraphs)
<1>0. /\ Chain(paragraphs, lo, hi)
      /\ paragraphs \in Seq(Seq(Nat)) /\ n \in Nat
  BY ParagraphsHold DEF Chain
<1>1. PICK cut : Cuts(paragraphs, cut, lo, hi)
  BY <1>0 DEF Chain
<1>12. \A i \in 1 .. n : HardSplit(paragraphs[i]) \in Seq(Piece)
  <2> HIDE DEF paragraphs
  <2> SUFFICES ASSUME NEW i \in 1 .. n PROVE HardSplit(paragraphs[i]) \in Seq(Piece)
    OBVIOUS
  <2>1. i \in 0 .. n /\ i - 1 \in 0 .. n
    BY <1>0
  <2>2. /\ cut[i - 1] \in Nat /\ cut[i] \in Nat /\ cut[i - 1] <= cut[i]
        /\ Covers(paragraphs[i], cut[i - 1], cut[i])
    BY <1>1, <2>1 DEF Cuts
  <2> QED  BY <2>2, PartsHold
<1>2. PICK done :
        /\ done[0] = [chunks |-> <<>>, current |-> <<>>]
        /\ \A i \in 1 .. n : done[i] = ChunkStep(done[i - 1], paragraphs[i])
        /\ ChunkSection(body) = IF done[n].current = <<>> THEN done[n].chunks
                                ELSE Append(done[n].chunks, done[n].current)
  BY <1>0, <1>12, ChunkLoop
<1> HIDE DEF paragraphs, n
<1>3. /\ cut \in [0 .. n -> Nat] /\ cut[0] = lo /\ cut[n] = hi
      /\ \A i \in 1 .. n : cut[i - 1] <= cut[i] /\ Covers(paragraphs[i], cut[i - 1], cut[i])
  BY <1>1 DEF Cuts, n
<1>4. \A i \in 0 .. n : lo <= cut[i]
  <2>1. \A j \in 0 .. n : \A i \in 0 .. j : cut[i] <= cut[j]
    BY <1>0, <1>3, CutsRise
  <2>2. \A j \in 0 .. n : 0 \in 0 .. j
    OBVIOUS
  <2> QED  BY <1>3, <2>1, <2>2
<1> DEFINE Holds(d, i) ==
             /\ d \in ChunkState
             /\ \E m \in Nat : m <= cut[i] /\ Chain(d.chunks, lo, m) /\ Covers(d.current, m, cut[i])
<1>5. Holds(done[0], 0)
  <2>1. Chain(<<>>, lo, lo) /\ Covers(<<>>, lo, lo) /\ lo <= lo
    BY ChainOfNone, NoneCovers
  <2>2. done[0] \in ChunkState
    BY <1>2, Limits DEF ChunkState, Piece
  <2> QED  BY <1>2, <1>3, <2>1, <2>2
<1>6. ASSUME NEW i \in 0 .. n - 1, NEW d, Holds(d, i)
      PROVE  Holds(ChunkStep(d, paragraphs[i + 1]), i + 1)
  <2> DEFINE p == paragraphs[i + 1]
             new == ChunkStep(d, p)
             x == cut[i]
             y == cut[i + 1]
  <2>1. i + 1 \in 1 .. n /\ (i + 1) - 1 = i /\ i \in 0 .. n /\ i + 1 \in 0 .. n
    BY <1>0
  <2>2. x \in Nat /\ y \in Nat /\ x <= y /\ Covers(p, x, y) /\ lo <= x /\ lo <= y
    <3>1. lo <= cut[i] /\ lo <= cut[i + 1]
      BY <1>4, <2>1
    <3> QED  BY <1>3, <2>1, <3>1
  <2>3. p \in Seq(Nat) /\ d \in ChunkState /\ new \in ChunkState
    BY <1>6, <2>1, <2>2, <1>12, ChunkType DEF Covers
  <2>4. PICK m \in Nat : m <= x /\ Chain(d.chunks, lo, m) /\ Covers(d.current, m, x)
    BY <1>6
  <2>5. lo <= m
    BY <2>4 DEF Chain
  <2>6. d.current = <<>> => m = x
    <3> SUFFICES ASSUME d.current = <<>> PROVE m = x
      OBVIOUS
    <3>1. Covers(<<>>, m, x) /\ \A h \in 1 .. Len(<<>>) : <<>>[h] = NewLine
      BY <2>4
    <3> QED  BY <2>2, <2>4, <3>1, NothingCovers
  <2>7. Chain(Append(d.chunks, d.current), lo, x)
    BY <2>2, <2>4, ChainAppend
  <2> SUFFICES \E z \in Nat : z <= y /\ Chain(new.chunks, lo, z) /\ Covers(new.current, z, y)
    BY <2>3
  <2> HIDE DEF p, x, y
  <2>8. CASE p = <<>>
    <3>1. new = d
      BY <2>8 DEF ChunkStep
    <3>2. x = y
      <4>1. Covers(<<>>, x, y) /\ \A h \in 1 .. Len(<<>>) : <<>>[h] = NewLine
        BY <2>2, <2>8
      <4> QED  BY <2>2, <4>1, NothingCovers
    <3> HIDE DEF new
    <3> QED  BY <2>4, <3>1, <3>2
  <2>9. CASE p # <<>> /\ Len(p) > MaxLimit
    <3> DEFINE before == BeforeLong(d).chunks
    <3>1. new.chunks = before \o HardSplit(p) /\ new.current = <<>>
      BY <2>9 DEF ChunkStep, BeforeLong
    <3>2. Chain(before, lo, x)
      BY <2>4, <2>6, <2>7 DEF BeforeLong
    <3>3. Chain(HardSplit(p), x, y)
      BY <2>2, PartsHold
    <3> HIDE DEF before
    <3>4. Chain(before \o HardSplit(p), lo, y)
      BY <3>2, <3>3, ChainConcat
    <3>5. Covers(<<>>, y, y) /\ y <= y
      BY <2>2, NoneCovers
    <3> HIDE DEF new
    <3> QED  BY <2>2, <3>1, <3>4, <3>5
  <2>10. CASE p # <<>> /\ ~(Len(p) > MaxLimit) /\ d.current = <<>>
    <3>1. new = [d EXCEPT !.current = p]
      BY <2>10 DEF ChunkStep
    <3>2. new.chunks = d.chunks /\ new.current = p
      BY <2>3, <3>1 DEF ChunkState
    <3> HIDE DEF new
    <3> QED  BY <2>2, <2>4, <2>6, <2>10, <3>2
  <2>11. CASE p # <<>> /\ ~(Len(p) > MaxLimit) /\ d.current # <<>>
    <3> DEFINE candidate == d.current \o <<NewLine, NewLine>> \o p
    <3>1. new = IF Len(candidate) <= TargetLimit THEN [d EXCEPT !.current = candidate]
                ELSE [chunks |-> Append(d.chunks, d.current), current |-> p]
      BY <2>11 DEF ChunkStep
    <3>2. Covers(candidate, m, y)
      <4>1. Covers(<<NewLine, NewLine>>, x, x)
        <5>1. /\ <<NewLine, NewLine>> \in Seq(Nat)
              /\ \A h \in 1 .. Len(<<NewLine, NewLine>>) : <<NewLine, NewLine>>[h] = NewLine
          BY DEF NewLine
        <5> QED  BY <2>2, <5>1, CoversNothing
      <4>2. Covers(d.current \o <<NewLine, NewLine>>, m, x)
        BY <2>2, <2>4, <4>1, CoversJoin
      <4> QED  BY <2>2, <2>4, <4>2, CoversJoin
    <3> HIDE DEF candidate
    <3>3. CASE Len(candidate) <= TargetLimit
      <4>1. new.chunks = d.chunks /\ new.current = candidate
        BY <2>3, <3>1, <3>3 DEF ChunkState
      <4>2. m <= y
        BY <2>2, <2>4
      <4> HIDE DEF new
      <4> QED  BY <2>4, <3>2, <4>1, <4>2
    <3>4. CASE ~(Len(candidate) <= TargetLimit)
      <4>1. new.chunks = Append(d.chunks, d.current) /\ new.current = p
        BY <3>1, <3>4
      <4> HIDE DEF new
      <4> QED  BY <2>2, <2>7, <4>1
    <3> QED  BY <3>3, <3>4
  <2> HIDE DEF new
  <2> QED  BY <2>8, <2>9, <2>10, <2>11
<1>7. Holds(done[n], n)
  <2> HIDE DEF Holds
  <2> DEFINE I == {i \in 0 .. n : Holds(done[i], i)}
  <2>1. 0 \in I
    BY <1>0, <1>5 DEF n
  <2>2. ASSUME NEW i \in 0 .. n - 1, i \in I PROVE i + 1 \in I
    <3>1. i + 1 \in 1 .. n /\ (i + 1) - 1 = i
      BY <1>0 DEF n
    <3>2. done[i + 1] = ChunkStep(done[i], paragraphs[i + 1])
      BY <1>2, <3>1
    <3> QED  BY <1>6, <2>2, <3>1, <3>2
  <2>3. \A i \in 0 .. n - 1 : i \in I => i + 1 \in I
    BY <2>2
  <2>4. \A i \in 0 .. n : i \in I
    <3> HIDE DEF I
    <3> QED  BY <1>0, <2>1, <2>3, HoldsUpTo
  <2> QED  BY <1>0, <2>4
<1> DEFINE end == done[n]
<1>8. PICK m \in Nat : m <= hi /\ Chain(end.chunks, lo, m) /\ Covers(end.current, m, hi)
  BY <1>3, <1>7
<1>9. end.chunks \in Seq(Piece) /\ end.current \in Piece /\ end \in ChunkState
  BY <1>7 DEF ChunkState
<1> HIDE DEF end
<1>10. CASE end.current = <<>>
  <2>1. m = hi
    <3>1. Covers(<<>>, m, hi) /\ \A h \in 1 .. Len(<<>>) : <<>>[h] = NewLine
      BY <1>8, <1>10
    <3> QED  BY <1>8, <3>1, NothingCovers
  <2>2. ChunkSection(body) = end.chunks
    BY <1>2, <1>10 DEF end
  <2> QED  BY <1>8, <1>9, <2>1, <2>2
<1>11. CASE end.current # <<>>
  <2>1. ChunkSection(body) = Append(end.chunks, end.current)
    BY <1>2, <1>11 DEF end
  <2>2. Chain(Append(end.chunks, end.current), lo, hi)
    BY <1>8, ChainAppend
  <2> QED  BY <1>9, <2>1, <2>2
<1> QED  BY <1>10, <1>11

--------------------------------------------------------------------------------
(* The lines of a text and their titles.                                     *)

Line == [kind : {"text", "blank", "heading"}, title : Nat, bytes : Seq(Nat)]

\* Line i holds the bytes from cut[i - 1] + 1 to cut[i].
IsNumbered(lines, cut) ==
  /\ lines \in Seq(Line)
  /\ cut \in [0 .. Len(lines) -> Nat] /\ cut[0] = 0
  /\ \A i \in 1 .. Len(lines) :
       /\ cut[i - 1] <= cut[i] /\ Covers(lines[i].bytes, cut[i - 1], cut[i])
       /\ lines[i].title = i
       /\ lines[i].kind = "heading" => cut[i] = cut[i - 1]

LEMMA LineTyped ==
  ASSUME NEW line \in TextLine
  PROVE  /\ line.size \in Nat /\ line.kind \in {"text", "blank", "heading"}
         /\ line.kind = "heading" => line.size = 0
<1>1. CASE line \in [kind : {"text"}, size : LineSizes]
  <2>1. line.kind = "text" /\ line.size \in LineSizes
    BY <1>1
  <2> QED  BY <2>1, ChunkerConstants
<1>2. CASE line = Blank \/ line = Heading
  <2>1. line.size = 0 /\ line.kind \in {"blank", "heading"}
    BY <1>2 DEF Blank, Heading
  <2> QED  BY <2>1
<1> QED  BY <1>1, <1>2 DEF TextLine

LEMMA NumberLoop ==
  ASSUME NEW lines \in Seq(TextLine)
  PROVE  \E before :
           /\ before[0] = 0
           /\ \A i \in 1 .. Len(lines) : before[i] = before[i - 1] + lines[i].size
           /\ Numbered(lines) =
                [i \in 1 .. Len(lines) |->
                   [kind |-> lines[i].kind, title |-> i,
                    bytes |-> [b \in 1 .. lines[i].size |-> before[i - 1] + b]]]
<1> DEFINE n == Len(lines)
           base == 0
           step == [p \in Nat \X (1 .. n) |-> p[1] + lines[p[2]].size]
           Runs(f) ==
             f = [i \in 0 .. n |-> IF i = 0 THEN base ELSE f[i - 1] + lines[i].size]
           g == CHOOSE f : Runs(f)
<1>1. n \in Nat /\ base \in Nat
  OBVIOUS
<1>2. step \in [Nat \X (1 .. n) -> Nat]
  <2>1. ASSUME NEW p \in Nat \X (1 .. n)
        PROVE  p[1] + lines[p[2]].size \in Nat
    <3>1. p[1] \in Nat /\ lines[p[2]] \in TextLine
      OBVIOUS
    <3> QED  BY <3>1, LineTyped
  <2> QED  BY <2>1
<1>3. PICK f \in [0 .. n -> Nat] : IsRun(f, n, base, step)
  <2> HIDE DEF n, base, step, Runs, g
  <2> QED  BY <1>1, <1>2, LoopDefined
<1>4. Runs(f)
  <2>1. ASSUME NEW i \in 0 .. n
        PROVE  f[i] = IF i = 0 THEN base ELSE f[i - 1] + lines[i].size
    <3>1. CASE i # 0
      <4>1. i \in 1 .. n /\ i - 1 \in 0 .. n
        BY <1>1, <3>1
      <4>2. <<f[i - 1], i>> \in Nat \X (1 .. n)
        BY <4>1
      <4>3. step[<<f[i - 1], i>>] = f[i - 1] + lines[i].size
        BY <4>2
      <4> HIDE DEF step
      <4> QED  BY <1>3, <3>1, <4>1, <4>3 DEF IsRun
    <3> QED  BY <1>3, <3>1 DEF IsRun
  <2> HIDE DEF base
  <2> QED  BY <2>1
<1>5. Runs(g)
  <2> HIDE DEF Runs
  <2> QED  BY <1>4
<1>6. Numbered(lines) = [i \in 1 .. Len(lines) |->
                   [kind |-> lines[i].kind, title |-> i,
                    bytes |-> [b \in 1 .. lines[i].size |-> g[i - 1] + b]]]
  BY DEF Numbered
<1>7. /\ g[0] = base
      /\ \A i \in 1 .. n : g[i] = g[i - 1] + lines[i].size
  <2> HIDE DEF g, base
  <2>1. \A i \in 0 .. n : g[i] = IF i = 0 THEN base ELSE g[i - 1] + lines[i].size
    BY <1>5
  <2>2. 0 \in 0 .. n /\ \A i \in 1 .. n : i \in 0 .. n /\ i # 0
    BY <1>1
  <2> QED  BY <2>1, <2>2, Zenon
<1> HIDE DEF g
<1> QED  BY <1>6, <1>7

LEMMA NumberedHolds ==
  ASSUME NEW lines \in Seq(TextLine)
  PROVE  \E cut : IsNumbered(Numbered(lines), cut)
<1> DEFINE n == Len(lines)
           numbered == Numbered(lines)
<1>1. PICK before :
        /\ before[0] = 0
        /\ \A i \in 1 .. n : before[i] = before[i - 1] + lines[i].size
        /\ numbered = [i \in 1 .. n |->
                         [kind |-> lines[i].kind, title |-> i,
                          bytes |-> [b \in 1 .. lines[i].size |-> before[i - 1] + b]]]
  BY NumberLoop
<1> DEFINE cut == [i \in 0 .. n |-> before[i]]
           I == {i \in 0 .. n : before[i] \in Nat}
<1>2. n \in Nat /\ \A i \in 1 .. n : lines[i] \in TextLine
  OBVIOUS
<1> HIDE DEF numbered, n
<1>3. \A i \in 0 .. n : i \in I
  <2>1. 0 \in I
    BY <1>1, <1>2
  <2>2. ASSUME NEW i \in 0 .. n - 1, i \in I PROVE i + 1 \in I
    <3>1. i + 1 \in 1 .. n /\ (i + 1) - 1 = i /\ i + 1 \in 0 .. n
      BY <1>2
    <3>2. before[i + 1] = before[i] + lines[i + 1].size /\ lines[i + 1].size \in Nat
      BY <1>1, <1>2, <3>1, LineTyped
    <3> QED  BY <2>2, <3>1, <3>2
  <2>3. \A i \in 0 .. n - 1 : i \in I => i + 1 \in I
    BY <2>2
  <2> HIDE DEF I
  <2> QED  BY <1>2, <2>1, <2>3, HoldsUpTo
<1>4. cut \in [0 .. n -> Nat] /\ \A i \in 0 .. n : cut[i] = before[i]
  BY <1>3
<1> HIDE DEF cut, I
<1>5. ASSUME NEW i \in 1 .. n
      PROVE  /\ numbered[i] \in Line
             /\ cut[i - 1] <= cut[i] /\ Covers(numbered[i].bytes, cut[i - 1], cut[i])
             /\ numbered[i].title = i
             /\ numbered[i].kind = "heading" => cut[i] = cut[i - 1]
  <2> DEFINE size == lines[i].size
             lo == cut[i - 1]
             hi == cut[i]
             bytes == [b \in 1 .. size |-> lo + b]
  <2>1. i \in 0 .. n /\ i - 1 \in 0 .. n
    BY <1>2
  <2>2. /\ size \in Nat /\ lines[i].kind \in {"text", "blank", "heading"}
        /\ lines[i].kind = "heading" => size = 0
    BY <1>2, LineTyped
  <2>3. lo \in Nat /\ hi \in Nat /\ hi = lo + size
    BY <1>1, <1>4, <2>1
  <2>4. numbered[i] = [kind |-> lines[i].kind, title |-> i, bytes |-> bytes]
    <3>1. before[i - 1] = lo
      BY <1>4, <2>1
    <3> QED  BY <1>1, <3>1
  <2> HIDE DEF size, lo, hi
  <2>5. bytes \in Seq(Nat) /\ Len(bytes) = size /\ \A k \in 1 .. size : bytes[k] = lo + k
    BY <2>2, <2>3
  <2>6. DOMAIN bytes = 1 .. size
    OBVIOUS
  <2> HIDE DEF bytes
  <2>7. \A b : b \in Bytes(bytes) <=> b \in lo + 1 .. hi
    <3>1. ASSUME NEW b, b \in Bytes(bytes) PROVE b \in lo + 1 .. hi
      <4>1. PICK k \in 1 .. size : bytes[k] = b
        BY <2>5, <3>1, BytesAre
      <4> QED  BY <2>2, <2>3, <2>5, <4>1
    <3>2. ASSUME NEW b \in lo + 1 .. hi PROVE b \in Bytes(bytes)
      <4>1. b - lo \in 1 .. size /\ lo + (b - lo) = b /\ b # NewLine
        BY <2>2, <2>3 DEF NewLine
      <4> QED  BY <2>5, <4>1, BytesAre
    <3> QED  BY <3>1, <3>2
  <2>8. Rising(bytes)
    <3> SUFFICES ASSUME NEW k \in 1 .. size, NEW m \in 1 .. size, k < m
                 PROVE  bytes[k] < bytes[m]
      BY <2>6 DEF Rising
    <3> QED  BY <2>2, <2>3, <2>5
  <2>9. Covers(bytes, lo, hi)
    BY <2>5, <2>7, <2>8 DEF Covers
  <2>10. lo <= hi /\ (size = 0 => hi = lo) /\ i \in Nat
    BY <2>2, <2>3
  <2> QED  BY <2>2, <2>4, <2>5, <2>9, <2>10 DEF Line, lo, hi, size
<1>6. numbered \in Seq(Line) /\ Len(numbered) = n
  <2>1. numbered \in [1 .. n -> Line]
    BY <1>1, <1>5
  <2> QED  BY <1>2, <2>1
<1>7. cut[0] = 0
  BY <1>1, <1>2, <1>4
<1>8. IsNumbered(numbered, cut)
  BY <1>4, <1>5, <1>6, <1>7 DEF IsNumbered
<1> QED  BY <1>8 DEF numbered

\* The byte of a line is under that line's title.
LEMMA TitleOfLine ==
  ASSUME NEW lines, NEW cut, IsNumbered(lines, cut), NEW i \in 1 .. Len(lines),
         NEW b \in cut[i - 1] + 1 .. cut[i]
  PROVE  TitleOf(lines, b) = TitleAt(lines, i)
<1> DEFINE n == Len(lines)
<1>1. /\ n \in Nat /\ DOMAIN lines = 1 .. n /\ cut \in [0 .. n -> Nat]
      /\ \A j \in 1 .. n : cut[j - 1] <= cut[j] /\ Bytes(lines[j].bytes) = cut[j - 1] + 1 .. cut[j]
  <2>1. lines \in Seq(Line) /\ cut \in [0 .. n -> Nat]
    BY DEF IsNumbered
  <2>2. \A j \in 1 .. n : cut[j - 1] <= cut[j] /\ Covers(lines[j].bytes, cut[j - 1], cut[j])
    BY DEF IsNumbered
  <2>3. n \in Nat /\ DOMAIN lines = 1 .. n
    BY <2>1
  <2> HIDE DEF n
  <2> QED  BY <2>1, <2>2, <2>3 DEF Covers
<1> HIDE DEF n
<1>2. \A j \in 0 .. n : \A k \in 0 .. j : cut[k] <= cut[j]
  BY <1>1, CutsRise
<1>3. i \in 1 .. n /\ b \in Bytes(lines[i].bytes)
  BY <1>1 DEF n
<1>4. ASSUME NEW j \in 1 .. n, b \in Bytes(lines[j].bytes) PROVE j = i
  <2>1. /\ j \in 0 .. n /\ i \in 0 .. n /\ j - 1 \in 0 .. n /\ i - 1 \in 0 .. n
    BY <1>1, <1>3
  <2>2. /\ cut[j - 1] \in Nat /\ cut[j] \in Nat /\ cut[i - 1] \in Nat /\ cut[i] \in Nat
        /\ b \in cut[j - 1] + 1 .. cut[j] /\ b \in cut[i - 1] + 1 .. cut[i]
    BY <1>1, <1>3, <1>4, <2>1
  <2>3. j < i => cut[j] <= cut[i - 1]
    BY <1>2, <1>3, <2>1
  <2>4. i < j => cut[i] <= cut[j - 1]
    BY <1>2, <1>3, <2>1
  <2>5. ~(j < i) /\ ~(i < j)
    BY <2>2, <2>3, <2>4
  <2> QED  BY <1>3, <2>5
<1>5. LineOf(lines, b) = i
  BY <1>1, <1>3, <1>4 DEF LineOf
<1> QED  BY <1>5 DEF TitleOf

\* A heading is the title of what follows, any other line keeps the one before.
LEMMA TitleFollows ==
  ASSUME NEW lines, NEW i \in Nat \ {0}
  PROVE  /\ lines[i].kind = "heading" => TitleAt(lines, i) = i
         /\ lines[i].kind # "heading" => TitleAt(lines, i) = TitleAt(lines, i - 1)
<1> DEFINE Above(j) == {h \in 1 .. j : lines[h].kind = "heading"}
<1>1. CASE lines[i].kind = "heading"
  <2>1. i \in Above(i) /\ \A h \in Above(i) : h \in Int /\ h <= i
    BY <1>1
  <2>2. TitleAt(lines, i) = CHOOSE h \in Above(i) : \A g \in Above(i) : h >= g
    BY <2>1 DEF TitleAt
  <2> HIDE DEF Above
  <2>3. \A h \in Above(i) : (\A g \in Above(i) : h >= g) <=> h = i
    BY <2>1
  <2>4. (CHOOSE h \in Above(i) : \A g \in Above(i) : h >= g) = i
    BY <2>1, <2>3
  <2> QED  BY <1>1, <2>2, <2>4
<1>2. CASE lines[i].kind # "heading"
  <2>1. Above(i) = Above(i - 1)
    <3>1. \A h : h \in 1 .. i <=> h \in 1 .. i - 1 \/ h = i
      OBVIOUS
    <3> QED  BY <1>2, <3>1
  <2>2. /\ TitleAt(lines, i) = IF Above(i) = {} THEN FileTitle
                               ELSE CHOOSE h \in Above(i) : \A g \in Above(i) : h >= g
        /\ TitleAt(lines, i - 1) = IF Above(i - 1) = {} THEN FileTitle
                                   ELSE CHOOSE h \in Above(i - 1) : \A g \in Above(i - 1) : h >= g
    BY DEF TitleAt
  <2> HIDE DEF Above
  <2> QED  BY <1>2, <2>1, <2>2
<1> QED  BY <1>1, <1>2

LEMMA NoTitle ==
  ASSUME NEW lines
  PROVE  TitleAt(lines, 0) = FileTitle
BY DEF TitleAt

--------------------------------------------------------------------------------
(* The loop of splitSections.                                                *)

Section == [title : Nat, body : Seq(Nat)]
SectionState == [sections : Seq(Section), title : Nat, current : Seq(Nat)]

Bodies(sections) == [i \in 1 .. Len(sections) |-> sections[i].body]

\* A section whose bytes are all under its title.
Titled(lines) == {s \in Section : \A b \in Bytes(s.body) : TitleOf(lines, b) = s.title}

LEMMA BodiesAppend ==
  ASSUME NEW sections \in Seq(Section), NEW s \in Section
  PROVE  Bodies(Append(sections, s)) = Append(Bodies(sections), s.body)
<1> DEFINE n == Len(sections)
           new == Append(sections, s)
           a == Bodies(new)
           c == Append(Bodies(sections), s.body)
<1>1. n \in Nat /\ new \in Seq(Section) /\ Len(new) = n + 1 /\ new[n + 1] = s
  OBVIOUS
<1>2. \A i \in 1 .. n : new[i] = sections[i]
  OBVIOUS
<1>3. /\ \A i \in 1 .. n : sections[i].body \in Seq(Nat)
      /\ s.body \in Seq(Nat)
  <2>1. \A i \in 1 .. n : sections[i] \in Section
    OBVIOUS
  <2>2. \A t \in Section : t.body \in Seq(Nat)
    BY DEF Section
  <2> QED  BY <2>1, <2>2
<1>4. Bodies(sections) \in Seq(Seq(Nat)) /\ Len(Bodies(sections)) = n
  BY <1>1, <1>3 DEF Bodies
<1>5. c \in Seq(Seq(Nat)) /\ Len(c) = n + 1 /\ c[n + 1] = s.body
  BY <1>3, <1>4
<1>6. \A i \in 1 .. n : c[i] = sections[i].body
  <2>1. \A i \in 1 .. n : c[i] = Bodies(sections)[i]
    BY <1>3, <1>4
  <2> QED  BY <2>1 DEF Bodies
<1> HIDE DEF new, c, n
<1>7. \A i \in 1 .. n + 1 : i \in 1 .. n \/ i = n + 1
  BY <1>1
<1>8. a = [i \in 1 .. n + 1 |-> new[i].body]
  BY <1>1 DEF Bodies
<1> HIDE DEF a
<1>9. \A i \in 1 .. n + 1 : a[i] = c[i]
  <2> SUFFICES ASSUME NEW i \in 1 .. n + 1 PROVE a[i] = c[i]
    OBVIOUS
  <2>1. a[i] = new[i].body
    BY <1>8
  <2>2. CASE i = n + 1
    BY <1>1, <1>5, <2>1, <2>2
  <2>3. CASE i \in 1 .. n
    BY <1>2, <1>6, <2>1, <2>3
  <2> QED  BY <1>7, <2>2, <2>3
<1>10. a \in Seq(Seq(Nat)) /\ Len(a) = n + 1
  <2>1. \A i \in 1 .. n + 1 : new[i].body \in Seq(Nat)
    BY <1>1, <1>2, <1>3, <1>7
  <2> QED  BY <1>1, <1>8, <2>1
<1>11. a = c
  BY <1>5, <1>9, <1>10, SeqEqual
<1> QED  BY <1>11 DEF a, c, new

LEMMA JoinedTyped ==
  ASSUME NEW body \in Seq(Nat), NEW line \in Line
  PROVE  Joined(body, line) \in Seq(Nat)
BY DEF Joined, Line, NewLine

LEMMA FlushTyped ==
  ASSUME NEW done \in SectionState
  PROVE  Flush(done) \in Seq(Section)
<1> DEFINE body == TrimSpace(done.current)
<1>1. /\ done.sections \in Seq(Section) /\ done.title \in Nat
      /\ body \in Seq(Nat)
  BY TrimKeeps DEF SectionState
<1>2. Flush(done) = IF body = <<>> THEN done.sections
                    ELSE Append(done.sections, [title |-> done.title, body |-> body])
  BY DEF Flush
<1> HIDE DEF body
<1>3. [title |-> done.title, body |-> body] \in Section
  BY <1>1 DEF Section
<1> QED  BY <1>1, <1>2, <1>3

LEMMA SectionTyped ==
  ASSUME NEW done \in SectionState, NEW line \in Line
  PROVE  SectionStep(done, line) \in SectionState
<1>1. CASE line.kind = "heading"
  <2>1. SectionStep(done, line) = [sections |-> Flush(done), title |-> line.title, current |-> <<>>]
    BY <1>1 DEF SectionStep
  <2>2. Flush(done) \in Seq(Section) /\ line.title \in Nat
    BY FlushTyped DEF Line
  <2> QED  BY <2>1, <2>2 DEF SectionState
<1>2. CASE line.kind # "heading"
  <2>1. SectionStep(done, line) = [done EXCEPT !.current = Joined(@, line)]
    BY <1>2 DEF SectionStep
  <2>2. Joined(done.current, line) \in Seq(Nat)
    BY JoinedTyped DEF SectionState
  <2> QED  BY <2>1, <2>2 DEF SectionState
<1> QED  BY <1>1, <1>2

LEMMA SectionLoop ==
  ASSUME NEW lines \in Seq(Line)
  PROVE  \E done :
           /\ done[0] = [sections |-> <<>>, title |-> FileTitle, current |-> <<>>]
           /\ \A i \in 1 .. Len(lines) : done[i] = SectionStep(done[i - 1], lines[i])
           /\ SplitSections(lines) = Flush(done[Len(lines)])
<1> DEFINE n == Len(lines)
           base == [sections |-> <<>>, title |-> FileTitle, current |-> <<>>]
           step == [p \in SectionState \X (1 .. n) |-> SectionStep(p[1], lines[p[2]])]
           Runs(f) ==
             f = [i \in 0 .. n |-> IF i = 0 THEN base ELSE SectionStep(f[i - 1], lines[i])]
           g == CHOOSE f : Runs(f)
<1>1. n \in Nat /\ base \in SectionState
  BY DEF SectionState, FileTitle
<1>2. step \in [SectionState \X (1 .. n) -> SectionState]
  <2>1. ASSUME NEW p \in SectionState \X (1 .. n)
        PROVE  SectionStep(p[1], lines[p[2]]) \in SectionState
    <3>1. p[1] \in SectionState /\ lines[p[2]] \in Line
      OBVIOUS
    <3> QED  BY <3>1, SectionTyped
  <2> QED  BY <2>1
<1>3. PICK f \in [0 .. n -> SectionState] : IsRun(f, n, base, step)
  <2> HIDE DEF n, base, step, Runs, g
  <2> QED  BY <1>1, <1>2, LoopDefined
<1>4. Runs(f)
  <2>1. ASSUME NEW i \in 0 .. n
        PROVE  f[i] = IF i = 0 THEN base ELSE SectionStep(f[i - 1], lines[i])
    <3>1. CASE i # 0
      <4>1. i \in 1 .. n /\ i - 1 \in 0 .. n
        BY <1>1, <3>1
      <4>2. <<f[i - 1], i>> \in SectionState \X (1 .. n)
        BY <4>1
      <4>3. step[<<f[i - 1], i>>] = SectionStep(f[i - 1], lines[i])
        BY <4>2
      <4> HIDE DEF step
      <4> QED  BY <1>3, <3>1, <4>1, <4>3 DEF IsRun
    <3> QED  BY <1>3, <3>1 DEF IsRun
  <2> HIDE DEF base
  <2> QED  BY <2>1
<1>5. Runs(g)
  <2> HIDE DEF Runs
  <2> QED  BY <1>4
<1>6. SplitSections(lines) = Flush(g[n])
  BY DEF SplitSections
<1>7. /\ g[0] = base
      /\ \A i \in 1 .. n : g[i] = SectionStep(g[i - 1], lines[i])
  <2> HIDE DEF g, base
  <2>1. \A i \in 0 .. n : g[i] = IF i = 0 THEN base ELSE SectionStep(g[i - 1], lines[i])
    BY <1>5
  <2> QED  BY <1>1, <2>1
<1> HIDE DEF g
<1> QED  BY <1>6, <1>7

LEMMA CoversJoined ==
  ASSUME NEW lo \in Nat, NEW m \in Nat, NEW hi \in Nat, lo <= m, m <= hi,
         NEW body, NEW line, Covers(body, lo, m), Covers(line.bytes, m, hi)
  PROVE  Covers(Joined(body, line), lo, hi)
<1>1. CASE line.bytes = <<>> /\ EndsParagraph(body)
  <2>1. Covers(<<>>, m, hi) /\ \A h \in 1 .. Len(<<>>) : <<>>[h] = NewLine
    BY <1>1
  <2>2. m = hi
    BY <2>1, NothingCovers
  <2> QED  BY <1>1, <2>2 DEF Joined
<1>2. CASE ~(line.bytes = <<>> /\ EndsParagraph(body))
  <2>1. Covers(body \o line.bytes, lo, hi)
    BY CoversJoin
  <2>2. Covers(<<NewLine>>, hi, hi)
    <3>1. <<NewLine>> \in Seq(Nat) /\ \A h \in 1 .. Len(<<NewLine>>) : <<NewLine>>[h] = NewLine
      BY DEF NewLine
    <3> QED  BY <3>1, CoversNothing
  <2>3. lo <= hi /\ hi <= hi
    OBVIOUS
  <2>4. Covers((body \o line.bytes) \o <<NewLine>>, lo, hi)
    BY <2>1, <2>2, <2>3, CoversJoin
  <2> QED  BY <1>2, <2>4 DEF Joined
<1> QED  BY <1>1, <1>2

LEMMA FlushHolds ==
  ASSUME NEW lines, NEW done \in SectionState, done.sections \in Seq(Titled(lines)),
         NEW m \in Nat, NEW x \in Nat, m <= x,
         Chain(Bodies(done.sections), 0, m), Covers(done.current, m, x),
         \A b \in m + 1 .. x : TitleOf(lines, b) = done.title
  PROVE  Flush(done) \in Seq(Titled(lines)) /\ Chain(Bodies(Flush(done)), 0, x)
<1> DEFINE body == TrimSpace(done.current)
           new == [title |-> done.title, body |-> body]
<1>1. Covers(body, m, x)
  BY CoversTrim
<1>2. Flush(done) = IF body = <<>> THEN done.sections ELSE Append(done.sections, new)
  BY DEF Flush
<1> HIDE DEF body
<1>3. new \in Section /\ new.body = body /\ new.title = done.title
  BY <1>1 DEF Covers, Section, SectionState
<1>4. \A b \in Bytes(body) : b \in m + 1 .. x
  BY <1>1 DEF Covers
<1> HIDE DEF new
<1>5. new \in Titled(lines)
  BY <1>3, <1>4 DEF Titled
<1>6. CASE body = <<>>
  <2>1. Covers(<<>>, m, x) /\ \A h \in 1 .. Len(<<>>) : <<>>[h] = NewLine
    BY <1>1, <1>6
  <2>2. m = x
    BY <2>1, NothingCovers
  <2> QED  BY <1>2, <1>6, <2>2
<1>7. CASE body # <<>>
  <2>1. Flush(done) = Append(done.sections, new)
    BY <1>2, <1>7
  <2>2. Bodies(Append(done.sections, new)) = Append(Bodies(done.sections), body)
    BY <1>3, BodiesAppend DEF SectionState
  <2>3. Chain(Append(Bodies(done.sections), body), 0, x)
    BY <1>1, ChainAppend
  <2>4. Append(done.sections, new) \in Seq(Titled(lines))
    BY <1>5
  <2> QED  BY <2>1, <2>2, <2>3, <2>4
<1> QED  BY <1>6, <1>7

\* The sections hold the whole text, each what is under its title.
LEMMA SectionsHold ==
  ASSUME NEW lines, NEW cut, IsNumbered(lines, cut)
  PROVE  /\ SplitSections(lines) \in Seq(Titled(lines))
         /\ Chain(Bodies(SplitSections(lines)), 0, cut[Len(lines)])
<1> DEFINE n == Len(lines)
           Holds(d, i) ==
             /\ d \in SectionState
             /\ d.sections \in Seq(Titled(lines))
             /\ d.title = TitleAt(lines, i)
             /\ \E m \in Nat :
                  /\ m <= cut[i]
                  /\ Chain(Bodies(d.sections), 0, m) /\ Covers(d.current, m, cut[i])
                  /\ \A b \in m + 1 .. cut[i] : TitleOf(lines, b) = d.title
<1>0. lines \in Seq(Line) /\ n \in Nat
  BY DEF IsNumbered
<1>1. PICK done :
        /\ done[0] = [sections |-> <<>>, title |-> FileTitle, current |-> <<>>]
        /\ \A i \in 1 .. n : done[i] = SectionStep(done[i - 1], lines[i])
        /\ SplitSections(lines) = Flush(done[n])
  BY <1>0, SectionLoop
<1>2. /\ cut \in [0 .. n -> Nat] /\ cut[0] = 0
      /\ \A i \in 1 .. n :
           /\ lines[i] \in Line
           /\ cut[i - 1] <= cut[i] /\ Covers(lines[i].bytes, cut[i - 1], cut[i])
           /\ lines[i].title = i
           /\ lines[i].kind = "heading" => cut[i] = cut[i - 1]
  BY <1>0 DEF IsNumbered
<1>3. \A i \in 1 .. n : \A b \in cut[i - 1] + 1 .. cut[i] : TitleOf(lines, b) = TitleAt(lines, i)
  BY TitleOfLine
<1> HIDE DEF n
<1>4. Holds(done[0], 0)
  <2>1. Bodies(<<>>) = <<>>
    BY DEF Bodies
  <2>2. Chain(<<>>, 0, 0) /\ Covers(<<>>, 0, 0)
    BY ChainOfNone, NoneCovers
  <2>3. done[0] \in SectionState /\ <<>> \in Seq(Titled(lines))
    BY <1>1 DEF SectionState, FileTitle
  <2>4. TitleAt(lines, 0) = FileTitle
    BY NoTitle
  <2>5. \A b \in 0 + 1 .. 0 : TitleOf(lines, b) = FileTitle
    OBVIOUS
  <2> QED  BY <1>1, <1>2, <2>1, <2>2, <2>3, <2>4, <2>5
<1>5. ASSUME NEW i \in 0 .. n - 1, NEW d, Holds(d, i)
      PROVE  Holds(SectionStep(d, lines[i + 1]), i + 1)
  <2> DEFINE j == i + 1
             line == lines[j]
             new == SectionStep(d, line)
             x == cut[i]
             y == cut[j]
  <2>1. j \in 1 .. n /\ j - 1 = i /\ i \in 0 .. n /\ j \in 0 .. n /\ j \in Nat \ {0}
    BY <1>0
  <2>2. /\ x \in Nat /\ y \in Nat /\ x <= y /\ Covers(line.bytes, x, y) /\ line \in Line
        /\ line.title = j /\ (line.kind = "heading" => y = x)
        /\ \A b \in x + 1 .. y : TitleOf(lines, b) = TitleAt(lines, j)
    <3> HIDE DEF j
    <3> QED  BY <1>2, <1>3, <2>1
  <2>3. d \in SectionState /\ new \in SectionState
    BY <1>5, <2>2, SectionTyped
  <2>4. d.title = TitleAt(lines, i) /\ d.sections \in Seq(Titled(lines))
    BY <1>5
  <2>5. PICK m \in Nat :
          /\ m <= x /\ Chain(Bodies(d.sections), 0, m) /\ Covers(d.current, m, x)
          /\ \A b \in m + 1 .. x : TitleOf(lines, b) = d.title
    BY <1>5
  <2> SUFFICES /\ new.sections \in Seq(Titled(lines)) /\ new.title = TitleAt(lines, j)
               /\ \E z \in Nat :
                    /\ z <= y
                    /\ Chain(Bodies(new.sections), 0, z) /\ Covers(new.current, z, y)
                    /\ \A b \in z + 1 .. y : TitleOf(lines, b) = new.title
    BY <2>3
  <2>6. /\ line.kind = "heading" => TitleAt(lines, j) = j
        /\ line.kind # "heading" => TitleAt(lines, j) = TitleAt(lines, i)
    <3> HIDE DEF j
    <3> QED  BY <2>1, TitleFollows
  <2> HIDE DEF j, line, x, y
  <2>7. CASE line.kind = "heading"
    <3>1. new.sections = Flush(d) /\ new.title = j /\ new.current = <<>>
      BY <2>2, <2>7 DEF SectionStep
    <3>2. Flush(d) \in Seq(Titled(lines)) /\ Chain(Bodies(Flush(d)), 0, x)
      BY <2>2, <2>3, <2>4, <2>5, FlushHolds
    <3>3. x = y /\ Covers(<<>>, y, y) /\ y <= y
      BY <2>2, <2>7, NoneCovers
    <3>4. \A b \in y + 1 .. y : TitleOf(lines, b) = j
      BY <2>2
    <3> HIDE DEF new
    <3> QED  BY <2>2, <2>6, <2>7, <3>1, <3>2, <3>3, <3>4
  <2>8. CASE line.kind # "heading"
    <3>1. new = [d EXCEPT !.current = Joined(@, line)]
      BY <2>8 DEF SectionStep
    <3>2. /\ new.sections = d.sections /\ new.title = d.title
          /\ new.current = Joined(d.current, line)
      BY <2>3, <3>1 DEF SectionState
    <3>3. Covers(Joined(d.current, line), m, y)
      BY <2>2, <2>5, CoversJoined
    <3>4. ASSUME NEW b \in m + 1 .. y PROVE TitleOf(lines, b) = d.title
      <4>1. b \in m + 1 .. x \/ b \in x + 1 .. y
        BY <2>2
      <4> QED  BY <2>2, <2>4, <2>5, <2>6, <2>8, <4>1
    <3>5. m <= y
      BY <2>2, <2>5
    <3> HIDE DEF new
    <3> QED  BY <2>4, <2>5, <2>6, <2>8, <3>2, <3>3, <3>4, <3>5
  <2> QED  BY <2>7, <2>8
<1>6. Holds(done[n], n)
  <2> HIDE DEF Holds
  <2> DEFINE I == {i \in 0 .. n : Holds(done[i], i)}
  <2>1. 0 \in I
    BY <1>0, <1>4 DEF n
  <2>2. ASSUME NEW i \in 0 .. n - 1, i \in I PROVE i + 1 \in I
    <3>1. i + 1 \in 1 .. n /\ (i + 1) - 1 = i
      BY <1>0 DEF n
    <3>2. done[i + 1] = SectionStep(done[i], lines[i + 1])
      BY <1>1, <3>1
    <3> QED  BY <1>5, <2>2, <3>1, <3>2
  <2>3. \A i \in 0 .. n - 1 : i \in I => i + 1 \in I
    BY <2>2
  <2>4. \A i \in 0 .. n : i \in I
    <3> HIDE DEF I
    <3> QED  BY <1>0, <2>1, <2>3, HoldsUpTo
  <2> QED  BY <1>0, <2>4
<1> DEFINE end == done[n]
           total == cut[n]
<1>7. end \in SectionState /\ end.sections \in Seq(Titled(lines))
  BY <1>6
<1>8. PICK m \in Nat :
        /\ m <= total /\ Chain(Bodies(end.sections), 0, m) /\ Covers(end.current, m, total)
        /\ \A b \in m + 1 .. total : TitleOf(lines, b) = end.title
  BY <1>6
<1>9. total \in Nat /\ SplitSections(lines) = Flush(end)
  BY <1>0, <1>1, <1>2
<1> HIDE DEF end, total
<1>10. Flush(end) \in Seq(Titled(lines)) /\ Chain(Bodies(Flush(end)), 0, total)
  BY <1>7, <1>8, <1>9, FlushHolds
<1> QED  BY <1>9, <1>10 DEF total, n

--------------------------------------------------------------------------------
(* The loops of Split.                                                       *)

Draft == [title : Nat, content : Seq(Nat)]
DraftList == Seq(Draft)

ContentsOf(drafts) == [i \in 1 .. Len(drafts) |-> drafts[i].content]

\* A draft whose bytes are all under its title, no longer than it may be.
Faithful(lines) ==
  {d \in Draft : Len(d.content) <= MaxLimit /\ \A b \in Bytes(d.content) : TitleOf(lines, b) = d.title}

LEMMA ContentsOfAppended ==
  ASSUME NEW drafts \in Seq(Draft), NEW d \in Draft
  PROVE  ContentsOf(Append(drafts, d)) = Append(ContentsOf(drafts), d.content)
<1> DEFINE n == Len(drafts)
           new == Append(drafts, d)
           a == ContentsOf(new)
           c == Append(ContentsOf(drafts), d.content)
<1>1. n \in Nat /\ new \in Seq(Draft) /\ Len(new) = n + 1 /\ new[n + 1] = d
  OBVIOUS
<1>2. \A i \in 1 .. n : new[i] = drafts[i]
  OBVIOUS
<1>3. /\ \A i \in 1 .. n : drafts[i].content \in Seq(Nat)
      /\ d.content \in Seq(Nat)
  <2>1. \A i \in 1 .. n : drafts[i] \in Draft
    OBVIOUS
  <2>2. \A t \in Draft : t.content \in Seq(Nat)
    BY DEF Draft
  <2> QED  BY <2>1, <2>2
<1>4. ContentsOf(drafts) \in Seq(Seq(Nat)) /\ Len(ContentsOf(drafts)) = n
  BY <1>1, <1>3 DEF ContentsOf
<1>5. c \in Seq(Seq(Nat)) /\ Len(c) = n + 1 /\ c[n + 1] = d.content
  BY <1>3, <1>4
<1>6. \A i \in 1 .. n : c[i] = drafts[i].content
  <2>1. \A i \in 1 .. n : c[i] = ContentsOf(drafts)[i]
    BY <1>3, <1>4
  <2> QED  BY <2>1 DEF ContentsOf
<1> HIDE DEF new, c, n
<1>7. \A i \in 1 .. n + 1 : i \in 1 .. n \/ i = n + 1
  BY <1>1
<1>8. a = [i \in 1 .. n + 1 |-> new[i].content]
  BY <1>1 DEF ContentsOf
<1> HIDE DEF a
<1>9. \A i \in 1 .. n + 1 : a[i] = c[i]
  <2> SUFFICES ASSUME NEW i \in 1 .. n + 1 PROVE a[i] = c[i]
    OBVIOUS
  <2>1. a[i] = new[i].content
    BY <1>8
  <2>2. CASE i = n + 1
    BY <1>1, <1>5, <2>1, <2>2
  <2>3. CASE i \in 1 .. n
    BY <1>2, <1>6, <2>1, <2>3
  <2> QED  BY <1>7, <2>2, <2>3
<1>10. a \in Seq(Seq(Nat)) /\ Len(a) = n + 1
  <2>1. \A i \in 1 .. n + 1 : new[i].content \in Seq(Nat)
    BY <1>1, <1>2, <1>3, <1>7
  <2> QED  BY <1>1, <1>8, <2>1
<1>11. a = c
  BY <1>5, <1>9, <1>10, SeqEqual
<1> QED  BY <1>11 DEF a, c, new

LEMMA ContentsOfJoined ==
  ASSUME NEW ds \in Seq(Draft), NEW es \in Seq(Draft)
  PROVE  ContentsOf(ds \o es) = ContentsOf(ds) \o ContentsOf(es)
<1> DEFINE n == Len(ds)
           k == Len(es)
           new == ds \o es
           a == ContentsOf(new)
           c == ContentsOf(ds) \o ContentsOf(es)
<1>1. n \in Nat /\ k \in Nat /\ new \in Seq(Draft) /\ Len(new) = n + k
  OBVIOUS
<1>2. /\ \A i \in 1 .. n : new[i] = ds[i]
      /\ \A i \in 1 .. k : new[n + i] = es[i]
  OBVIOUS
<1>3. \A fs \in Seq(Draft) : ContentsOf(fs) \in Seq(Seq(Nat)) /\ Len(ContentsOf(fs)) = Len(fs)
  <2> SUFFICES ASSUME NEW fs \in Seq(Draft)
               PROVE  ContentsOf(fs) \in Seq(Seq(Nat)) /\ Len(ContentsOf(fs)) = Len(fs)
    OBVIOUS
  <2>1. Len(fs) \in Nat /\ \A i \in 1 .. Len(fs) : fs[i] \in Draft
    OBVIOUS
  <2>2. \A d \in Draft : d.content \in Seq(Nat)
    BY DEF Draft
  <2>3. ContentsOf(fs) \in [1 .. Len(fs) -> Seq(Nat)]
    BY <2>1, <2>2 DEF ContentsOf
  <2> QED  BY <2>1, <2>3
<1>4. c \in Seq(Seq(Nat)) /\ Len(c) = n + k
  <2> DEFINE v == ContentsOf(ds)
             w == ContentsOf(es)
  <2>1. v \in Seq(Seq(Nat)) /\ w \in Seq(Seq(Nat)) /\ Len(v) = n /\ Len(w) = k
    BY <1>3
  <2> HIDE DEF v, w, n, k
  <2>2. v \o w \in Seq(Seq(Nat)) /\ Len(v \o w) = n + k
    BY <2>1, ConcatProperties
  <2> QED  BY <2>2 DEF v, w
<1>5. /\ \A i \in 1 .. n : c[i] = ds[i].content
      /\ \A i \in 1 .. k : c[n + i] = es[i].content
  <2>1. /\ \A i \in 1 .. n : c[i] = ContentsOf(ds)[i]
        /\ \A i \in 1 .. k : c[n + i] = ContentsOf(es)[i]
    BY <1>3
  <2> QED  BY <2>1 DEF ContentsOf
<1>6. a \in Seq(Seq(Nat)) /\ Len(a) = n + k
  BY <1>1, <1>3
<1>7. \A i \in 1 .. n + k : a[i] = new[i].content
  BY <1>1 DEF ContentsOf
<1> HIDE DEF new, c, a, n, k
<1>8. \A i \in 1 .. n + k : a[i] = c[i]
  <2> SUFFICES ASSUME NEW i \in 1 .. n + k PROVE a[i] = c[i]
    OBVIOUS
  <2>1. CASE i \in 1 .. n
    BY <1>2, <1>5, <1>7, <2>1
  <2>2. CASE i \notin 1 .. n
    <3>1. i - n \in 1 .. k /\ n + (i - n) = i
      BY <1>1, <2>2
    <3> QED  BY <1>2, <1>5, <1>7, <3>1
  <2> QED  BY <2>1, <2>2
<1>9. a = c
  BY <1>4, <1>6, <1>8, SeqEqual
<1> QED  BY <1>9 DEF a, c, new

LEMMA DraftTyped ==
  ASSUME NEW drafts \in DraftList, NEW title \in Nat, NEW body \in Seq(Nat)
  PROVE  Drafted(drafts, title, body) \in DraftList
<1> DEFINE content == TrimSpace(body)
<1>1. content \in Seq(Nat)
  BY TrimKeeps
<1>2. Drafted(drafts, title, body) =
        IF content = <<>> THEN drafts ELSE Append(drafts, [title |-> title, content |-> content])
  BY DEF Drafted
<1> HIDE DEF content
<1>3. [title |-> title, content |-> content] \in Draft
  BY <1>1 DEF Draft
<1> QED  BY <1>2, <1>3 DEF DraftList

LEMMA DraftLoop ==
  ASSUME NEW section \in Section, NEW bodies \in Seq(Seq(Nat)),
         bodies = ChunkSection(section.body)
  PROVE  \E done :
           /\ done[0] = <<>>
           /\ \A i \in 1 .. Len(bodies) : done[i] = Drafted(done[i - 1], section.title, bodies[i])
           /\ Drafts(section) = done[Len(bodies)]
<1> DEFINE n == Len(bodies)
           base == <<>>
           step == [p \in DraftList \X (1 .. n) |-> Drafted(p[1], section.title, bodies[p[2]])]
           Runs(f) ==
             f = [i \in 0 .. n |-> IF i = 0 THEN base ELSE Drafted(f[i - 1], section.title, bodies[i])]
           g == CHOOSE f : Runs(f)
<1>1. n \in Nat /\ base \in DraftList
  BY DEF DraftList
<1>2. step \in [DraftList \X (1 .. n) -> DraftList]
  <2>1. ASSUME NEW p \in DraftList \X (1 .. n)
        PROVE  Drafted(p[1], section.title, bodies[p[2]]) \in DraftList
    <3>1. p[1] \in DraftList /\ bodies[p[2]] \in Seq(Nat) /\ section.title \in Nat
      BY DEF Section
    <3> QED  BY <3>1, DraftTyped
  <2> QED  BY <2>1
<1>3. PICK f \in [0 .. n -> DraftList] : IsRun(f, n, base, step)
  <2> HIDE DEF n, base, step, Runs, g
  <2> QED  BY <1>1, <1>2, LoopDefined
<1>4. Runs(f)
  <2>1. ASSUME NEW i \in 0 .. n
        PROVE  f[i] = IF i = 0 THEN base ELSE Drafted(f[i - 1], section.title, bodies[i])
    <3>1. CASE i # 0
      <4>1. i \in 1 .. n /\ i - 1 \in 0 .. n
        BY <1>1, <3>1
      <4>2. <<f[i - 1], i>> \in DraftList \X (1 .. n)
        BY <4>1
      <4>3. step[<<f[i - 1], i>>] = Drafted(f[i - 1], section.title, bodies[i])
        BY <4>2
      <4> HIDE DEF step
      <4> QED  BY <1>3, <3>1, <4>1, <4>3 DEF IsRun
    <3> QED  BY <1>3, <3>1 DEF IsRun
  <2> HIDE DEF base
  <2> QED  BY <2>1
<1>5. Runs(g)
  <2> HIDE DEF Runs
  <2> QED  BY <1>4
<1>6. Drafts(section) = g[n]
  BY DEF Drafts
<1>7. /\ g[0] = base
      /\ \A i \in 1 .. n : g[i] = Drafted(g[i - 1], section.title, bodies[i])
  <2> HIDE DEF g, base
  <2>1. \A i \in 0 .. n : g[i] = IF i = 0 THEN base ELSE Drafted(g[i - 1], section.title, bodies[i])
    BY <1>5
  <2> QED  BY <1>1, <2>1
<1> HIDE DEF g
<1> QED  BY <1>6, <1>7

\* The drafts of a section hold what it does, under its title.
LEMMA DraftsHold ==
  ASSUME NEW lo \in Nat, NEW hi \in Nat, lo <= hi, NEW lines, NEW section \in Titled(lines),
         Covers(section.body, lo, hi)
  PROVE  /\ Drafts(section) \in Seq(Faithful(lines))
         /\ Chain(ContentsOf(Drafts(section)), lo, hi)
<1> DEFINE bodies == ChunkSection(section.body)
           title == section.title
           n == Len(bodies)
           Holds(d, i, cut) ==
             d \in DraftList /\ d \in Seq(Faithful(lines)) /\ Chain(ContentsOf(d), lo, cut[i])
<1>0. /\ Chain(bodies, lo, hi) /\ bodies \in Seq(Piece)
      /\ bodies \in Seq(Seq(Nat)) /\ n \in Nat
  BY ChunksHold DEF Chain
<1>1. section \in Section /\ title \in Nat
  BY DEF Titled, Section
<1>2. \A b \in lo + 1 .. hi : TitleOf(lines, b) = title
  BY DEF Titled, Covers
<1>3. PICK cut : Cuts(bodies, cut, lo, hi)
  BY <1>0 DEF Chain
<1>4. PICK done :
        /\ done[0] = <<>>
        /\ \A i \in 1 .. n : done[i] = Drafted(done[i - 1], title, bodies[i])
        /\ Drafts(section) = done[n]
  BY <1>0, <1>1, DraftLoop
<1>5. \A i \in 1 .. n : \A b \in Bytes(bodies[i]) : b \in lo + 1 .. hi
  BY <1>0, ChainHolds
<1> HIDE DEF bodies, n, title
<1>6. /\ cut \in [0 .. n -> Nat] /\ cut[0] = lo /\ cut[n] = hi
      /\ \A i \in 1 .. n : cut[i - 1] <= cut[i] /\ Covers(bodies[i], cut[i - 1], cut[i])
  BY <1>3 DEF Cuts, n
<1>7. \A i \in 1 .. n : bodies[i] \in Piece
  BY <1>0 DEF n
<1>8. Holds(done[0], 0, cut)
  <2>1. ContentsOf(<<>>) = <<>>
    BY DEF ContentsOf
  <2>2. Chain(<<>>, lo, lo)
    BY ChainOfNone
  <2> QED  BY <1>4, <1>6, <2>1, <2>2 DEF DraftList
<1>9. ASSUME NEW i \in 0 .. n - 1, NEW d, Holds(d, i, cut)
      PROVE  Holds(Drafted(d, title, bodies[i + 1]), i + 1, cut)
  <2> DEFINE p == bodies[i + 1]
             content == TrimSpace(p)
             draft == [title |-> title, content |-> content]
             x == cut[i]
             y == cut[i + 1]
  <2>1. i + 1 \in 1 .. n /\ (i + 1) - 1 = i /\ i \in 0 .. n /\ i + 1 \in 0 .. n
    BY <1>0
  <2>2. /\ x \in Nat /\ y \in Nat /\ x <= y /\ Covers(p, x, y) /\ p \in Piece
        /\ \A b \in Bytes(p) : b \in lo + 1 .. hi
    BY <1>5, <1>6, <1>7, <2>1
  <2>3. Covers(content, x, y) /\ Len(content) <= Len(p)
    BY <2>2, CoversTrim
  <2>4. p \in Seq(Nat) /\ Len(p) \in Nat /\ Len(p) <= MaxLimit
    BY <2>2 DEF Piece
  <2>5. Bytes(content) = Bytes(p)
    BY <2>4, TrimKeeps
  <2>6. Drafted(d, title, p) = IF content = <<>> THEN d ELSE Append(d, draft)
    BY DEF Drafted
  <2>7. Drafted(d, title, p) \in DraftList
    BY <1>1, <1>9, <2>4, DraftTyped
  <2>8. d \in DraftList /\ d \in Seq(Faithful(lines)) /\ Chain(ContentsOf(d), lo, x)
    BY <1>9
  <2> SUFFICES /\ Drafted(d, title, p) \in Seq(Faithful(lines))
               /\ Chain(ContentsOf(Drafted(d, title, p)), lo, y)
    BY <2>7
  <2> HIDE DEF p, content, x, y
  <2>9. draft.content = content /\ draft.title = title /\ draft \in Draft
    BY <1>1, <2>3 DEF Draft, Covers
  <2> HIDE DEF draft
  <2>10. CASE content = <<>>
    <3>1. Covers(<<>>, x, y) /\ \A h \in 1 .. Len(<<>>) : <<>>[h] = NewLine
      BY <2>3, <2>10
    <3>2. x = y
      BY <2>2, <3>1, NothingCovers
    <3> QED  BY <2>6, <2>8, <2>10, <3>2
  <2>11. CASE content # <<>>
    <3>1. Len(content) <= MaxLimit
      <4>1. Len(content) \in Nat /\ MaxLimit \in Nat
        BY <2>3, Limits DEF Covers
      <4> QED  BY <2>3, <2>4, <4>1
    <3>2. draft \in Faithful(lines)
      BY <1>2, <2>2, <2>5, <2>9, <3>1 DEF Faithful
    <3>3. ContentsOf(Append(d, draft)) = Append(ContentsOf(d), content)
      BY <2>8, <2>9, ContentsOfAppended DEF DraftList
    <3>4. Chain(Append(ContentsOf(d), content), lo, y)
      BY <2>2, <2>3, <2>8, ChainAppend
    <3>5. Append(d, draft) \in Seq(Faithful(lines))
      BY <2>8, <3>2
    <3> QED  BY <2>6, <2>11, <3>3, <3>4, <3>5
  <2> QED  BY <2>10, <2>11
<1>10. Holds(done[n], n, cut)
  <2> HIDE DEF Holds
  <2> DEFINE I == {i \in 0 .. n : Holds(done[i], i, cut)}
  <2>1. 0 \in I
    BY <1>0, <1>8 DEF n
  <2>2. ASSUME NEW i \in 0 .. n - 1, i \in I PROVE i + 1 \in I
    <3>1. i + 1 \in 1 .. n /\ (i + 1) - 1 = i
      BY <1>0 DEF n
    <3>2. done[i + 1] = Drafted(done[i], title, bodies[i + 1])
      BY <1>4, <3>1
    <3> QED  BY <1>9, <2>2, <3>1, <3>2
  <2>3. \A i \in 0 .. n - 1 : i \in I => i + 1 \in I
    BY <2>2
  <2>4. \A i \in 0 .. n : i \in I
    <3> HIDE DEF I
    <3> QED  BY <1>0, <2>1, <2>3, HoldsUpTo
  <2> QED  BY <1>0, <2>4
<1> QED  BY <1>4, <1>6, <1>10

LEMMA SplitLoop ==
  ASSUME NEW lines0, NEW sections \in Seq(Section), sections = SplitSections(Numbered(lines0)),
         \A i \in 1 .. Len(sections) : Drafts(sections[i]) \in DraftList
  PROVE  \E done :
           /\ done[0] = <<>>
           /\ \A i \in 1 .. Len(sections) : done[i] = done[i - 1] \o Drafts(sections[i])
           /\ Split(lines0) = done[Len(sections)]
<1> DEFINE n == Len(sections)
           base == <<>>
           step == [p \in DraftList \X (1 .. n) |-> p[1] \o Drafts(sections[p[2]])]
           Runs(f) ==
             f = [i \in 0 .. n |-> IF i = 0 THEN base ELSE f[i - 1] \o Drafts(sections[i])]
           g == CHOOSE f : Runs(f)
<1>1. n \in Nat /\ base \in DraftList
  BY DEF DraftList
<1>2. step \in [DraftList \X (1 .. n) -> DraftList]
  <2>1. ASSUME NEW p \in DraftList \X (1 .. n)
        PROVE  p[1] \o Drafts(sections[p[2]]) \in DraftList
    <3>1. p[1] \in DraftList /\ Drafts(sections[p[2]]) \in DraftList
      OBVIOUS
    <3> QED  BY <3>1 DEF DraftList
  <2> QED  BY <2>1
<1>3. PICK f \in [0 .. n -> DraftList] : IsRun(f, n, base, step)
  <2> HIDE DEF n, base, step, Runs, g
  <2> QED  BY <1>1, <1>2, LoopDefined
<1>4. Runs(f)
  <2>1. ASSUME NEW i \in 0 .. n
        PROVE  f[i] = IF i = 0 THEN base ELSE f[i - 1] \o Drafts(sections[i])
    <3>1. CASE i # 0
      <4>1. i \in 1 .. n /\ i - 1 \in 0 .. n
        BY <1>1, <3>1
      <4>2. <<f[i - 1], i>> \in DraftList \X (1 .. n)
        BY <4>1
      <4>3. step[<<f[i - 1], i>>] = f[i - 1] \o Drafts(sections[i])
        BY <4>2
      <4> HIDE DEF step
      <4> QED  BY <1>3, <3>1, <4>1, <4>3 DEF IsRun
    <3> QED  BY <1>3, <3>1 DEF IsRun
  <2> HIDE DEF base
  <2> QED  BY <2>1
<1>5. Runs(g)
  <2> HIDE DEF Runs
  <2> QED  BY <1>4
<1>6. Split(lines0) = g[n]
  BY DEF Split
<1>7. /\ g[0] = base
      /\ \A i \in 1 .. n : g[i] = g[i - 1] \o Drafts(sections[i])
  <2> HIDE DEF g, base
  <2>1. \A i \in 0 .. n : g[i] = IF i = 0 THEN base ELSE g[i - 1] \o Drafts(sections[i])
    BY <1>5
  <2>2. 0 \in 0 .. n /\ \A i \in 1 .. n : i \in 0 .. n /\ i # 0
    BY <1>1
  <2> QED  BY <2>1, <2>2, Zenon
<1> HIDE DEF g
<1> QED  BY <1>6, <1>7

\* The drafts of a text hold all of it, each under its title.
LEMMA SplitHolds ==
  ASSUME NEW lines0, NEW cut, IsNumbered(Numbered(lines0), cut)
  PROVE  /\ Split(lines0) \in Seq(Faithful(Numbered(lines0)))
         /\ Chain(ContentsOf(Split(lines0)), 0, cut[Len(Numbered(lines0))])
<1> DEFINE lines == Numbered(lines0)
           total == cut[Len(lines)]
           sections == SplitSections(lines)
           n == Len(sections)
<1>0. /\ sections \in Seq(Titled(lines)) /\ n \in Nat
      /\ Chain(Bodies(sections), 0, total)
  BY SectionsHold
<1>1. PICK at : Cuts(Bodies(sections), at, 0, total)
  BY <1>0 DEF Chain
<1>2. sections \in Seq(Section)
  <2>1. \A s \in Titled(lines) : s \in Section
    BY DEF Titled
  <2> HIDE DEF sections, lines
  <2> QED  BY <1>0, <2>1
<1> HIDE DEF lines, sections, total
<1>3. Len(Bodies(sections)) = n /\ \A i \in 1 .. n : Bodies(sections)[i] = sections[i].body
  BY <1>0 DEF Bodies
<1>4. /\ at \in [0 .. n -> Nat] /\ at[0] = 0 /\ at[n] = total
      /\ \A i \in 1 .. n : at[i - 1] <= at[i] /\ Covers(sections[i].body, at[i - 1], at[i])
  BY <1>1, <1>3 DEF Cuts
<1> HIDE DEF n
<1>5. ASSUME NEW i \in 1 .. n
      PROVE  /\ Drafts(sections[i]) \in Seq(Faithful(lines))
             /\ Drafts(sections[i]) \in DraftList
             /\ Chain(ContentsOf(Drafts(sections[i])), at[i - 1], at[i])
  <2>1. i \in 0 .. n /\ i - 1 \in 0 .. n
    BY <1>0
  <2>2. at[i - 1] \in Nat /\ at[i] \in Nat /\ at[i - 1] <= at[i]
    BY <1>4, <2>1
  <2>3. sections[i] \in Titled(lines)
    BY <1>0 DEF n
  <2>4. /\ Drafts(sections[i]) \in Seq(Faithful(lines))
        /\ Chain(ContentsOf(Drafts(sections[i])), at[i - 1], at[i])
    BY <1>4, <2>2, <2>3, DraftsHold
  <2>5. \A d \in Faithful(lines) : d \in Draft
    BY DEF Faithful
  <2> QED  BY <2>4, <2>5 DEF DraftList
<1>6. PICK done :
        /\ done[0] = <<>>
        /\ \A i \in 1 .. n : done[i] = done[i - 1] \o Drafts(sections[i])
        /\ Split(lines0) = done[n]
  <2>1. \A i \in 1 .. Len(sections) : Drafts(sections[i]) \in DraftList
    BY <1>5 DEF n
  <2> QED  BY <1>2, <2>1, SplitLoop DEF sections, lines, n
<1> DEFINE Holds(d, i) ==
             d \in DraftList /\ d \in Seq(Faithful(lines)) /\ Chain(ContentsOf(d), 0, at[i])
<1>7. Holds(done[0], 0)
  <2>1. ContentsOf(<<>>) = <<>>
    BY DEF ContentsOf
  <2>2. Chain(<<>>, 0, 0)
    BY ChainOfNone
  <2> QED  BY <1>4, <1>6, <2>1, <2>2 DEF DraftList
<1>8. ASSUME NEW i \in 0 .. n - 1, NEW d, Holds(d, i)
      PROVE  Holds(d \o Drafts(sections[i + 1]), i + 1)
  <2> DEFINE es == Drafts(sections[i + 1])
  <2>1. i + 1 \in 1 .. n /\ (i + 1) - 1 = i
    BY <1>0 DEF n
  <2>2. /\ es \in Seq(Faithful(lines)) /\ es \in DraftList
        /\ Chain(ContentsOf(es), at[i], at[i + 1])
    BY <1>5, <2>1
  <2> HIDE DEF es
  <2>3. d \o es \in DraftList /\ d \o es \in Seq(Faithful(lines))
    BY <1>8, <2>2 DEF DraftList
  <2>4. ContentsOf(d \o es) = ContentsOf(d) \o ContentsOf(es)
    BY <1>8, <2>2, ContentsOfJoined DEF DraftList
  <2>5. Chain(ContentsOf(d) \o ContentsOf(es), 0, at[i + 1])
    BY <1>8, <2>2, ChainConcat
  <2> QED  BY <2>3, <2>4, <2>5 DEF es
<1>9. Holds(done[n], n)
  <2> HIDE DEF Holds
  <2> DEFINE I == {i \in 0 .. n : Holds(done[i], i)}
  <2>1. 0 \in I
    BY <1>0, <1>7 DEF n
  <2>2. ASSUME NEW i \in 0 .. n - 1, i \in I PROVE i + 1 \in I
    <3>1. i + 1 \in 1 .. n /\ (i + 1) - 1 = i
      BY <1>0 DEF n
    <3>2. done[i + 1] = done[i] \o Drafts(sections[i + 1])
      BY <1>6, <3>1
    <3>3. Holds(done[i] \o Drafts(sections[i + 1]), i + 1)
      <4>1. Holds(done[i], i)
        BY <2>2
      <4> QED  BY <1>8, <4>1, Zenon
    <3>4. Holds(done[i + 1], i + 1)
      BY <3>2, <3>3, Zenon
    <3> QED  BY <3>1, <3>4
  <2>3. \A i \in 0 .. n - 1 : i \in I => i + 1 \in I
    BY <2>2
  <2>4. \A i \in 0 .. n : i \in I
    <3> HIDE DEF I
    <3> QED  BY <1>0, <2>1, <2>3, HoldsUpTo DEF n
  <2> QED  BY <1>0, <2>4 DEF n
<1> QED  BY <1>4, <1>6, <1>9 DEF lines, total

\* What ChunksKeepTheText asks for holds of every text.
LEMMA TextKept ==
  ASSUME text \in Seq(TextLine)
  PROVE  ChunksKeepTheText
<1> DEFINE lines == Numbered(text)
           drafts == Split(text)
           contents == ContentsOf(drafts)
           n == Len(drafts)
           k == Len(lines)
<1>1. PICK cut : IsNumbered(lines, cut)
  BY NumberedHolds
<1> DEFINE total == cut[k]
<1>2. /\ drafts \in Seq(Faithful(lines)) /\ n \in Nat /\ DOMAIN drafts = 1 .. n
      /\ Chain(contents, 0, total)
  BY <1>1, SplitHolds
<1>3. /\ k \in Nat /\ DOMAIN lines = 1 .. k /\ cut \in [0 .. k -> Nat] /\ cut[0] = 0
      /\ \A i \in 1 .. k : /\ cut[i - 1] <= cut[i]
                           /\ Bytes(lines[i].bytes) = cut[i - 1] + 1 .. cut[i]
                           /\ Covers(lines[i].bytes, cut[i - 1], cut[i])
                           /\ lines[i].bytes \in Seq(Nat)
  BY <1>1 DEF IsNumbered, Covers
<1> HIDE DEF lines, drafts, n, k
<1>4. /\ Len(contents) = n
      /\ \A i \in 1 .. n : contents[i] = drafts[i].content
  BY <1>2 DEF ContentsOf, n
<1> HIDE DEF contents
<1>5. /\ \A b : b \in 0 + 1 .. total <=> \E i \in 1 .. n : b \in Bytes(drafts[i].content)
      /\ \A i \in 1 .. n : Rising(drafts[i].content)
      /\ \A i, j \in 1 .. n :
           i < j => \A a \in Bytes(drafts[i].content), b \in Bytes(drafts[j].content) : a < b
  <2>1. /\ \A b : b \in 0 + 1 .. total <=> \E i \in 1 .. Len(contents) : b \in Bytes(contents[i])
        /\ \A i \in 1 .. Len(contents) : Rising(contents[i])
        /\ \A i, j \in 1 .. Len(contents) :
             i < j => \A a \in Bytes(contents[i]), b \in Bytes(contents[j]) : a < b
    <3> HIDE DEF total
    <3> QED  BY <1>2, ChainHolds
  <2> HIDE DEF total
  <2> QED  BY <1>4, <2>1
<1>6. \A b : b \in 0 + 1 .. total <=> \E i \in 1 .. k : b \in Bytes(lines[i].bytes)
  <2> DEFINE parts == [i \in 1 .. k |-> lines[i].bytes]
  <2>1. parts \in Seq(Seq(Nat)) /\ Len(parts) = k /\ \A i \in 1 .. k : parts[i] = lines[i].bytes
    BY <1>3
  <2> HIDE DEF parts
  <2>2. 0 \in 0 .. k /\ k \in 0 .. k /\ total \in Nat
    BY <1>3
  <2>3. Cuts(parts, cut, 0, total)
    BY <1>3, <2>1 DEF Cuts
  <2>4. Chain(parts, 0, total)
    BY <2>1, <2>2, <2>3 DEF Chain
  <2> HIDE DEF total
  <2>5. \A b : b \in 0 + 1 .. total <=> \E i \in 1 .. Len(parts) : b \in Bytes(parts[i])
    BY <2>4, ChainHolds
  <2> QED  BY <2>1, <2>5
<1> HIDE DEF total
<1>7. UNION {Bytes(drafts[i].content) : i \in DOMAIN drafts} =
        UNION {Bytes(lines[i].bytes) : i \in DOMAIN lines}
  <2>1. \A b : b \in UNION {Bytes(drafts[i].content) : i \in 1 .. n}
                 <=> b \in UNION {Bytes(lines[i].bytes) : i \in 1 .. k}
    BY <1>5, <1>6
  <2> QED  BY <1>2, <1>3, <2>1
<1>8. \A i \in 1 .. n :
        /\ Len(drafts[i].content) <= MaxLimit
        /\ \A b \in Bytes(drafts[i].content) : TitleOf(lines, b) = drafts[i].title
  <2>1. \A i \in 1 .. n : drafts[i] \in Faithful(lines)
    BY <1>2 DEF n
  <2> QED  BY <2>1 DEF Faithful
<1> QED  BY <1>2, <1>5, <1>7, <1>8 DEF ChunksKeepTheText, lines, drafts

\* The chunks of a text hold all of it, once and in order, none too long and each under
\* the heading it stands under: NormalizeText, splitSections, chunkSection and hardSplit
\* of the chunker, for every text and all limits.
THEOREM ChunksHoldTheText == ChunkerSpec => []ChunksKeepTheText
<1>1. ChunkerInit => text \in Seq(TextLine)
  BY DEF ChunkerInit
<1>2. text \in Seq(TextLine) /\ [ChunkerNext]_chunkerVars => (text \in Seq(TextLine))'
  BY DEF ChunkerNext, chunkerVars
<1>3. text \in Seq(TextLine) => ChunksKeepTheText
  BY TextKept
<1> QED  BY <1>1, <1>2, <1>3, PTL DEF ChunkerSpec

================================================================================
