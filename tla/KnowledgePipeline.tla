--------------------------- MODULE KnowledgePipeline ---------------------------
(***************************************************************************)
(* knowledge-service: from the upload of a product document to the version *)
(* that retrieval shows.                                                   *)
(*                                                                         *)
(* An upload stores the file in MinIO and then inserts the document with   *)
(* its ingest event in one transaction.  The outbox worker publishes the   *)
(* event; an ingest consumer splits the file into chunks and inserts an    *)
(* embed event; an embed consumer writes the vectors and makes the         *)
(* document READY and current.  A document that cannot be split is FAILED  *)
(* until an operator retries it.                                           *)
(*                                                                         *)
(* The model has one (product_id, doc_type).  source_hash is unique there, *)
(* so a document row is named by its content.  Uploads of one content use  *)
(* one file name: then, and only then, do they share an object key.        *)
(*                                                                         *)
(* Consumers are those of all replicas.  A message is redelivered until    *)
(* its offset is committed, by any of them; documents have partitions of   *)
(* their own.  The outbox is modelled by what its leases allow (their      *)
(* timing is the subject of OutboxWorker): a row whose lease has run out   *)
(* is leased again, and an earlier holder may still append its message,    *)
(* but the claim token keeps it from updating the row.                     *)
(***************************************************************************)
EXTENDS Integers, FiniteSets

CONSTANTS
  Contents,          \* file contents that get uploaded
  Splittable,        \* those of a supported type and with text in them
  Requests,          \* upload requests
  IngestConsumers,
  EmbedConsumers,
  MaxAttempts,       \* outbox attempts before DEAD
  None,
  \* bounds
  MaxRetries,        \* operator retries of one document
  MaxCopies,         \* times one event is appended to its topic
  MaxFaults          \* calls that fail, crashes, leases that run out

ASSUME KnowledgeConstants ==
  /\ Splittable \subseteq Contents
  /\ None \notin Contents
  /\ IngestConsumers \cap EmbedConsumers = {}
  /\ MaxAttempts \in Nat \ {0}
  /\ MaxRetries \in Nat
  /\ MaxCopies \in Nat
  /\ MaxFaults \in Nat

Consumers == IngestConsumers \cup EmbedConsumers

\* no tells the retries of a document apart; an embed event has the number of the
\* ingest event whose handler wrote it.
Events == [topic : {"ingest", "embed"}, doc : Contents, no : 0 .. MaxRetries]

IngestEvent(c, n) == [topic |-> "ingest", doc |-> c, no |-> n]
EmbedEvent(e) == [topic |-> "embed", doc |-> e.doc, no |-> e.no]
TopicOf(w) == IF w \in IngestConsumers THEN "ingest" ELSE "embed"

\* A message is an event and its place among the copies of that event.
Messages == [event : Events, copy : Nat]

VARIABLES
  status,     \* knowledge_documents.status, "none" without a row
  version,
  current,    \* is_current_ready
  retries,    \* times the operator has retried it
  chunks,     \* status of its knowledge_chunks rows
  vectors,    \* documents whose vectors are in Milvus
  objects,    \* keys in MinIO: content and version
  outbox,     \* outbox_events.status
  attempts,   \* ... and attempts, counted up to MaxAttempts
  appended,   \* copies of an event in its topic
  committed,  \* ... of them behind the group's offset
  consumption,  \* event_consumptions.status
  task,       \* embedding_tasks.status
  up,         \* the call an upload request is in
  file,       \* its content
  drawn,      \* the version it has read
  pc,         \* the call a consumer is in
  message,    \* what it handles
  faults

documents == <<status, version, current, retries, chunks, vectors>>
outboxes == <<outbox, attempts, appended>>
offsets == <<committed, consumption, task>>
uploads == <<up, file, drawn>>
consumers == <<pc, message>>
vars == <<documents, objects, outboxes, offsets, uploads, consumers, faults>>

UploadCalls == {"find", "version", "put", "create", "recheck", "cleanup"}
HandlerCalls == {"start", "find", "processing", "get", "fail", "save",
                 "list", "embed", "ready", "succeed", "commit"}

TypeOK ==
  /\ status \in [Contents -> {"none", "PENDING", "PROCESSING", "READY", "FAILED"}]
  /\ version \in [Contents -> Nat]
  /\ current \in [Contents -> BOOLEAN]
  /\ retries \in [Contents -> 0 .. MaxRetries]
  /\ chunks \in [Contents -> {"none", "PENDING_EMBEDDING", "EMBEDDED"}]
  /\ vectors \subseteq Contents
  /\ objects \subseteq Contents \X Nat
  /\ outbox \in [Events -> {"none", "PENDING", "PROCESSING", "PUBLISHED", "DEAD"}]
  /\ attempts \in [Events -> 0 .. MaxAttempts]
  /\ appended \in [Events -> 0 .. MaxCopies]
  /\ committed \in [Events -> Nat]
  /\ consumption \in [Events -> {"none", "PROCESSING", "SUCCEEDED"}]
  /\ task \in [Events -> {"none", "FAILED", "DONE"}]
  /\ up \in [Requests -> {"idle", "done"} \cup UploadCalls]
  /\ file \in [Requests -> Contents \cup {None}]
  /\ drawn \in [Requests -> Nat]
  /\ pc \in [Consumers -> {"idle", "stopped"} \cup HandlerCalls]
  /\ message \in [Consumers -> Messages \cup {None}]
  /\ faults \in 0 .. MaxFaults

Init ==
  /\ status = [c \in Contents |-> "none"]
  /\ version = [c \in Contents |-> 0]
  /\ current = [c \in Contents |-> FALSE]
  /\ retries = [c \in Contents |-> 0]
  /\ chunks = [c \in Contents |-> "none"]
  /\ vectors = {}
  /\ objects = {}
  /\ outbox = [e \in Events |-> "none"]
  /\ attempts = [e \in Events |-> 0]
  /\ appended = [e \in Events |-> 0]
  /\ committed = [e \in Events |-> 0]
  /\ consumption = [e \in Events |-> "none"]
  /\ task = [e \in Events |-> "none"]
  /\ up = [r \in Requests |-> "idle"]
  /\ file = [r \in Requests |-> None]
  /\ drawn = [r \in Requests |-> 0]
  /\ pc = [w \in Consumers |-> "idle"]
  /\ message = [w \in Consumers |-> None]
  /\ faults = 0

Saved == {c \in Contents : status[c] # "none"}

Fault == faults < MaxFaults /\ faults' = faults + 1

--------------------------------------------------------------------------------
(* Uploads, and the operator's retry.                                        *)

UploadGoes(r, call) == up' = [up EXCEPT ![r] = call] /\ UNCHANGED <<file, drawn>>

\* The request is answered; what it was answered does not matter to the others.
UploadEnds(r) ==
  /\ up' = [up EXCEPT ![r] = "done"]
  /\ file' = [file EXCEPT ![r] = None]
  /\ drawn' = [drawn EXCEPT ![r] = 0]

\* A request arrives; one that fails may be repeated by another.
UploadDocument(r, c) ==
  /\ up[r] = "idle"
  /\ up' = [up EXCEPT ![r] = "find"]
  /\ file' = [file EXCEPT ![r] = c]
  /\ UNCHANGED <<documents, objects, outboxes, offsets, drawn, consumers, faults>>

\* A document with this content is the answer.
FindDocumentBySourceHash(r) ==
  /\ up[r] = "find"
  /\ IF file[r] \in Saved THEN UploadEnds(r) ELSE UploadGoes(r, "version")
  /\ UNCHANGED <<documents, objects, outboxes, offsets, consumers, faults>>

\* COALESCE(MAX(version), 0) + 1, read outside the transaction that uses it.
NextDocumentVersion(r) ==
  /\ up[r] = "version"
  /\ up' = [up EXCEPT ![r] = "put"]
  /\ \E v \in {0} \cup {version[c] : c \in Saved} :
       /\ \A c \in Saved : version[c] <= v
       /\ drawn' = [drawn EXCEPT ![r] = v + 1]
  /\ UNCHANGED <<documents, objects, outboxes, offsets, file, consumers, faults>>

Key(r) == <<file[r], drawn[r]>>

\* After an error the object may be there or not, and nothing removes it.
PutObject(r) ==
  /\ up[r] = "put"
  /\ objects' = objects \cup {Key(r)}
  /\ \/ UploadGoes(r, "create") /\ UNCHANGED faults
     \/ UploadEnds(r) /\ Fault
  /\ UNCHANGED <<documents, outboxes, offsets, consumers>>

\* Without the unique key on the version ...
MayInsertBug(r) == file[r] \notin Saved

\* Both unique keys of knowledge_documents.
MayInsert(r) == file[r] \notin Saved /\ \A c \in Saved : version[c] # drawn[r]

\* The document and its event are committed together.  An error of Commit does not
\* say that they are not, and leads to the cleanup.
CreateDocumentWithEvent(r) ==
  /\ up[r] = "create"
  /\ MayInsert(r)
  /\ status' = [status EXCEPT ![file[r]] = "PENDING"]
  /\ version' = [version EXCEPT ![file[r]] = drawn[r]]
  /\ outbox' = [outbox EXCEPT ![IngestEvent(file[r], 0)] = "PENDING"]
  /\ \/ UploadEnds(r) /\ UNCHANGED faults
     \/ UploadGoes(r, "cleanup") /\ Fault
  /\ UNCHANGED <<current, retries, chunks, vectors, objects, attempts, appended,
                 offsets, consumers>>

\* A duplicate is looked up by its hash, any other error goes to the cleanup.
DocumentNotInserted(r) ==
  /\ up[r] = "create"
  /\ \/ ~MayInsert(r) /\ UploadGoes(r, "recheck") /\ UNCHANGED faults
     \/ UploadGoes(r, "cleanup") /\ Fault
  /\ UNCHANGED <<documents, objects, outboxes, offsets, consumers>>

\* The just written object is removed whenever the row was a duplicate ...
RecheckBug(r) ==
  /\ up[r] = "recheck"
  /\ UploadGoes(r, "cleanup")
  /\ UNCHANGED <<documents, objects, outboxes, offsets, consumers, faults>>

\* The document is there, or only its version was taken, or the query fails.
Recheck(r) ==
  /\ up[r] = "recheck"
  /\ \/ file[r] \in Saved /\ UploadEnds(r) /\ UNCHANGED faults
     \/ file[r] \notin Saved /\ UploadGoes(r, "cleanup") /\ UNCHANGED faults
     \/ UploadGoes(r, "cleanup") /\ Fault
  /\ UNCHANGED <<documents, objects, outboxes, offsets, consumers>>

\* Best effort; the error of the transaction is what the caller gets.
DeleteObject(r) ==
  /\ up[r] = "cleanup"
  /\ objects' = objects \ {Key(r)}
  /\ UploadEnds(r)
  /\ UNCHANGED <<documents, outboxes, offsets, consumers, faults>>

\* A call of the request fails without effect and no cleanup follows it, or the
\* process dies.
UploadLost(r) ==
  /\ up[r] \in UploadCalls
  /\ Fault
  /\ UploadEnds(r)
  /\ UNCHANGED <<documents, objects, outboxes, offsets, consumers>>

MayRetry(c) == status[c] = "FAILED"

\* The retried document waits for an event nobody sends ...
RetryEventBug(c) == outbox

\* A retry has an event of its own, with an id nobody has consumed.
RetryEvent(c) ==
  [outbox EXCEPT ![IngestEvent(c, retries[c] + 1)] = "PENDING"]

RetryFailedDocument(c) ==
  /\ MayRetry(c)
  /\ retries[c] < MaxRetries
  /\ status' = [status EXCEPT ![c] = "PENDING"]
  /\ retries' = [retries EXCEPT ![c] = @ + 1]
  /\ outbox' = RetryEvent(c)
  /\ UNCHANGED <<version, current, chunks, vectors, objects, attempts, appended,
                 offsets, uploads, consumers, faults>>

--------------------------------------------------------------------------------
(* The outbox worker.                                                        *)

\* A lease is taken, or taken over when it has run out.
LeasePending(e) ==
  /\ \/ outbox[e] = "PENDING" /\ UNCHANGED faults
     \/ outbox[e] = "PROCESSING" /\ Fault
  /\ outbox' = [outbox EXCEPT ![e] = "PROCESSING"]
  /\ attempts' = [attempts EXCEPT ![e] = IF @ < MaxAttempts THEN @ + 1 ELSE @]
  /\ UNCHANGED <<documents, objects, appended, offsets, uploads, consumers>>

AppendMessage(e) ==
  /\ appended[e] < MaxCopies
  /\ appended' = [appended EXCEPT ![e] = @ + 1]

\* The broker acknowledges the message and its holder records that.
Publish(e) ==
  /\ outbox[e] = "PROCESSING"
  /\ AppendMessage(e)
  /\ outbox' = [outbox EXCEPT ![e] = "PUBLISHED"]
  /\ UNCHANGED <<documents, objects, attempts, offsets, uploads, consumers, faults>>

\* The holder of a lease that has run out, or one that does not live to record it,
\* appends the message.
PublishUnrecorded(e) ==
  /\ attempts[e] > 0
  /\ Fault
  /\ AppendMessage(e)
  /\ UNCHANGED <<documents, objects, outbox, attempts, offsets, uploads, consumers>>

\* Retry, or MarkDead after the last attempt.
PublishFails(e) ==
  /\ outbox[e] = "PROCESSING"
  /\ Fault
  /\ outbox' = [outbox EXCEPT ![e] = IF attempts[e] >= MaxAttempts THEN "DEAD" ELSE "PENDING"]
  /\ UNCHANGED <<documents, objects, attempts, appended, offsets, uploads, consumers>>

--------------------------------------------------------------------------------
(* The consumers.                                                            *)

EventOf(w) == message[w].event
DocumentOf(w) == EventOf(w).doc

\* A consumer that returns an error is not started again before its process is.
Stop(w) ==
  /\ pc' = [pc EXCEPT ![w] = "stopped"]
  /\ message' = [message EXCEPT ![w] = None]

\* A call has had its effect: the handler goes on, or does not learn of it and fails.
Goes(w, call) ==
  \/ pc' = [pc EXCEPT ![w] = call] /\ UNCHANGED <<message, faults>>
  \/ Fault /\ Stop(w)

Waiting(w) == {e \in Events : e.topic = TopicOf(w) /\ committed[e] < appended[e]}

\* Any consumer of the group, after a rebalance also while another one handles it.
FetchMessage(w) ==
  /\ pc[w] = "idle"
  /\ \E e \in Waiting(w) :
       message' = [message EXCEPT ![w] = [event |-> e, copy |-> committed[e] + 1]]
  /\ pc' = [pc EXCEPT ![w] = "start"]
  /\ UNCHANGED <<documents, objects, outboxes, offsets, uploads, faults>>

\* No message within callTimeout, or none in time: Run returns the error of FetchMessage.
IdleTimeout(w) ==
  /\ pc[w] = "idle"
  /\ \/ Waiting(w) = {} /\ UNCHANGED faults
     \/ Fault
  /\ Stop(w)
  /\ UNCHANGED <<documents, objects, outboxes, offsets, uploads>>

\* The process is started again, and with it its consumers.
Restart(w) ==
  /\ pc[w] = "stopped"
  /\ pc' = [pc EXCEPT ![w] = "idle"]
  /\ UNCHANGED <<documents, objects, outboxes, offsets, uploads, message, faults>>

\* A call of the handler fails without effect, or the process dies.
CallFails(w) ==
  /\ pc[w] \in HandlerCalls
  /\ Fault
  /\ Stop(w)
  /\ UNCHANGED <<documents, objects, outboxes, offsets, uploads>>

\* A row that is PROCESSING is taken over from whoever left it ...
StartConsumptionBug(w) ==
  /\ pc[w] = "start"
  /\ IF consumption[EventOf(w)] = "SUCCEEDED"
     THEN Goes(w, "commit") /\ UNCHANGED consumption
     ELSE /\ consumption' = [consumption EXCEPT ![EventOf(w)] = "PROCESSING"]
          /\ Goes(w, "find")
  /\ UNCHANGED <<documents, objects, outboxes, committed, task, uploads>>

\* INSERT IGNORE lets one handler of an event through, for ever: the row of one that
\* failed stays PROCESSING, and every redelivery ends in an error.
StartConsumption(w) ==
  /\ pc[w] = "start"
  /\ \/ /\ consumption[EventOf(w)] = "none"
        /\ consumption' = [consumption EXCEPT ![EventOf(w)] = "PROCESSING"]
        /\ Goes(w, "find")
     \/ /\ consumption[EventOf(w)] = "SUCCEEDED"
        /\ Goes(w, "commit")
        /\ UNCHANGED consumption
     \/ /\ consumption[EventOf(w)] = "PROCESSING"
        /\ Stop(w)
        /\ UNCHANGED <<consumption, faults>>
  /\ UNCHANGED <<documents, objects, outboxes, committed, task, uploads>>

\* A file of an unsupported type is refused before it is read, an empty one after.
FindDocumentByNo(w) ==
  /\ pc[w] = "find"
  /\ \E refused \in BOOLEAN :
       /\ refused => DocumentOf(w) \notin Splittable
       /\ pc' = [pc EXCEPT ![w] =
            IF status[DocumentOf(w)] = "READY" THEN "succeed"
            ELSE IF w \in EmbedConsumers THEN "list"
            ELSE IF refused THEN "fail" ELSE "processing"]
  /\ UNCHANGED <<documents, objects, outboxes, offsets, uploads, message, faults>>

\* The version that is shown is hidden as soon as a new one is worked on ...
MarkDocumentProcessingBug(w) ==
  /\ pc[w] = "processing"
  /\ status' = [status EXCEPT ![DocumentOf(w)] = "PROCESSING"]
  /\ current' = [c \in Contents |-> FALSE]
  /\ Goes(w, "get")
  /\ UNCHANGED <<version, retries, chunks, vectors, objects, outboxes, offsets, uploads>>

\* MySQL counts changed rows: an update that finds the row PROCESSING counts none,
\* like one that finds it neither PENDING nor PROCESSING.
MarkDocumentProcessing(w) ==
  /\ pc[w] = "processing"
  /\ IF status[DocumentOf(w)] = "PENDING"
     THEN /\ status' = [status EXCEPT ![DocumentOf(w)] = "PROCESSING"]
          /\ Goes(w, "get")
     ELSE Stop(w) /\ UNCHANGED <<status, faults>>
  /\ UNCHANGED <<version, current, retries, chunks, vectors, objects, outboxes, offsets,
                 uploads>>

\* GetObject and Split.
GetObject(w) ==
  /\ pc[w] = "get"
  /\ IF <<DocumentOf(w), version[DocumentOf(w)]>> \in objects
     THEN /\ pc' = [pc EXCEPT ![w] = IF DocumentOf(w) \in Splittable THEN "save" ELSE "fail"]
          /\ UNCHANGED message
     ELSE Stop(w)
  /\ UNCHANGED <<documents, objects, outboxes, offsets, uploads, faults>>

MarkDocumentFailed(w) ==
  /\ pc[w] = "fail"
  /\ status' = [status EXCEPT ![DocumentOf(w)] = "FAILED"]
  /\ current' = [current EXCEPT ![DocumentOf(w)] = FALSE]
  /\ Goes(w, "succeed")
  /\ UNCHANGED <<version, retries, chunks, vectors, objects, outboxes, offsets, uploads>>

\* The chunks are saved, their event is not ...
ChunkEventBug(e) == outbox

ChunkEvent(e) == [outbox EXCEPT ![EmbedEvent(e)] = "PENDING"]

\* Chunks that are embedded stay so.
SaveChunksAndEmbedEvent(w) ==
  /\ pc[w] = "save"
  /\ chunks' = [chunks EXCEPT ![DocumentOf(w)] =
                  IF @ = "EMBEDDED" THEN @ ELSE "PENDING_EMBEDDING"]
  /\ outbox' = ChunkEvent(EventOf(w))
  /\ Goes(w, "succeed")
  /\ UNCHANGED <<status, version, current, retries, vectors, objects, attempts, appended,
                 offsets, uploads>>

\* With no chunks there would be nothing to embed.
ListDocumentChunks(w) ==
  /\ pc[w] = "list"
  /\ pc' = [pc EXCEPT ![w] = IF chunks[DocumentOf(w)] = "none" THEN "ready" ELSE "embed"]
  /\ UNCHANGED <<documents, objects, outboxes, offsets, uploads, message, faults>>

\* EmbedDocuments and UpsertChunks.
UpsertChunks(w) ==
  /\ pc[w] = "embed"
  /\ vectors' = vectors \cup {DocumentOf(w)}
  /\ pc' = [pc EXCEPT ![w] = "ready"]
  /\ UNCHANGED <<status, version, current, retries, chunks, objects, outboxes, offsets,
                 uploads, message, faults>>

\* One of them fails; whether the vectors were written is not known, and an error of
\* MarkEmbeddingTaskRetry is ignored.
EmbeddingFails(w) ==
  /\ pc[w] = "embed"
  /\ Fault
  /\ vectors' \in {vectors, vectors \cup {DocumentOf(w)}}
  /\ task' \in {task, [task EXCEPT ![EventOf(w)] = "FAILED"]}
  /\ Stop(w)
  /\ UNCHANGED <<status, version, current, retries, chunks, objects, outboxes, committed,
                 consumption, uploads>>

\* The former version stays visible beside the new one ...
ShowBug(c) == [current EXCEPT ![c] = TRUE]

\* One transaction clears is_current_ready everywhere else and sets it here, whatever
\* the versions are.
Show(c) == [d \in Contents |-> d = c]

\* Chunks that are EMBEDDED already count no changed row.
MarkDocumentReadyWithVectors(w) ==
  /\ pc[w] = "ready"
  /\ LET c == DocumentOf(w) IN
       IF chunks[c] = "EMBEDDED"
       THEN Stop(w) /\ UNCHANGED <<documents, task, faults>>
       ELSE /\ chunks' = [chunks EXCEPT ![c] = IF @ = "none" THEN @ ELSE "EMBEDDED"]
            /\ task' = [task EXCEPT ![EventOf(w)] = "DONE"]
            /\ current' = Show(c)
            /\ status' = [status EXCEPT ![c] = "READY"]
            /\ Goes(w, "succeed")
            /\ UNCHANGED <<version, retries, vectors>>
  /\ UNCHANGED <<objects, outboxes, committed, consumption, uploads>>

MarkConsumptionSucceeded(w) ==
  /\ pc[w] = "succeed"
  /\ consumption' = [consumption EXCEPT ![EventOf(w)] = "SUCCEEDED"]
  /\ Goes(w, "commit")
  /\ UNCHANGED <<documents, objects, outboxes, committed, task, uploads>>

CommitMessages(w) ==
  /\ pc[w] = "commit"
  /\ committed' = [committed EXCEPT ![EventOf(w)] =
                     IF @ < message[w].copy THEN message[w].copy ELSE @]
  /\ \/ /\ pc' = [pc EXCEPT ![w] = "idle"]
        /\ message' = [message EXCEPT ![w] = None]
        /\ UNCHANGED faults
     \/ Fault /\ Stop(w)
  /\ UNCHANGED <<documents, objects, outboxes, consumption, task, uploads>>

--------------------------------------------------------------------------------

Upload(r) ==
  \/ \E c \in Contents : UploadDocument(r, c)
  \/ FindDocumentBySourceHash(r)
  \/ NextDocumentVersion(r)
  \/ PutObject(r)
  \/ CreateDocumentWithEvent(r)
  \/ DocumentNotInserted(r)
  \/ Recheck(r)
  \/ DeleteObject(r)
  \/ UploadLost(r)

Relay(e) ==
  \/ LeasePending(e)
  \/ Publish(e)
  \/ PublishUnrecorded(e)
  \/ PublishFails(e)

Handle(w) ==
  \/ FetchMessage(w)
  \/ StartConsumption(w)
  \/ FindDocumentByNo(w)
  \/ MarkDocumentProcessing(w)
  \/ GetObject(w)
  \/ MarkDocumentFailed(w)
  \/ SaveChunksAndEmbedEvent(w)
  \/ ListDocumentChunks(w)
  \/ UpsertChunks(w)
  \/ MarkDocumentReadyWithVectors(w)
  \/ MarkConsumptionSucceeded(w)
  \/ CommitMessages(w)

Next ==
  \/ \E r \in Requests : Upload(r)
  \/ \E c \in Contents : RetryFailedDocument(c)
  \/ \E e \in Events : Relay(e)
  \/ \E w \in Consumers :
       Handle(w) \/ IdleTimeout(w) \/ CallFails(w) \/ EmbeddingFails(w) \/ Restart(w)

Spec == Init /\ [][Next]_vars

\* The outbox worker polls, and a consumer that runs goes on.  main starts each of them
\* once: nobody has to restart one that has stopped, nor to upload or retry anything.
FairSpec ==
  /\ Spec
  /\ \A e \in Events : WF_vars(LeasePending(e)) /\ WF_vars(Publish(e))
  /\ \A w \in Consumers : WF_vars(Handle(w))

--------------------------------------------------------------------------------
(* Properties                                                                *)

\* What retrieval can show is complete: a READY document has all its chunks embedded
\* and its vectors written, at most one document is current, that one is READY, and
\* one is current as soon as any is READY.  MarkDocumentReadyWithVectors depends for
\* this on the calls before it, in two consumers.
Visibility ==
  /\ \A c \in Contents : status[c] = "READY" => chunks[c] = "EMBEDDED" /\ c \in vectors
  /\ \A c \in Contents : current[c] => status[c] = "READY"
  /\ \A c, d \in Contents : current[c] /\ current[d] => c = d
  /\ (\E c \in Contents : status[c] = "READY") => \E c \in Contents : current[c]

Working == HandlerCalls \ {"start", "commit"}

\* Two handlers never work on one event, however often it is appended and delivered
\* and wherever its redelivery meets the first handler: StartConsumption lets one
\* through.
OneHandler ==
  \A v, w \in Consumers :
    pc[v] \in Working /\ pc[w] \in Working /\ message[v].event = message[w].event => v = w

\* A document that is neither READY nor FAILED has an event nobody has handled to the
\* end: the row that shows where it is stuck, after any crash and any lost answer.
NothingForgotten ==
  \A c \in Contents :
    status[c] \in {"PENDING", "PROCESSING"} =>
      \E e \in Events : e.doc = c /\ outbox[e] # "none" /\ consumption[e] # "SUCCEEDED"

\* The versions of the documents are 1, 2, 3 and so on, each of them once, although
\* NextDocumentVersion is read outside the transaction and requests fail after it.
VersionsHaveNoGap ==
  \A c \in Saved :
    /\ version[c] > 0
    /\ \A d \in Saved : version[c] = version[d] => c = d
    /\ version[c] > 1 => \E d \in Saved : version[d] = version[c] - 1

\* As long as no call fails, a document has its object in MinIO, also when requests
\* with the same content and the same version share the key and one of them loses.
\* (After an error of the transaction the cleanup may take the object of another.)
ObjectsKept ==
  faults = 0 => \A c \in Saved : <<c, version[c]>> \in objects

\* What the properties above rest on, as one inductive invariant.  An event exists only
\* with its document, and is handled to the end only when its part of the work is done.
Finished(e) ==
  IF e.topic = "embed" THEN status[e.doc] = "READY"
  ELSE e.no = retries[e.doc] =>
         \/ status[e.doc] \in {"READY", "FAILED"}
         \/ status[e.doc] = "PROCESSING" /\ outbox[EmbedEvent(e)] # "none"

EventsInv ==
  \A e \in Events :
    /\ outbox[e] = "none" => attempts[e] = 0 /\ appended[e] = 0 /\ consumption[e] = "none"
    /\ outbox[e] # "none" => e.doc \in Saved /\ e.no <= retries[e.doc]
    /\ outbox[e] # "none" /\ e.topic = "embed" =>
         e.doc \in Splittable /\ chunks[e.doc] # "none"
    /\ consumption[e] = "SUCCEEDED" => Finished(e)

\* Only a file that cannot be split fails, and only a document that failed is retried.
DocumentsInv ==
  \A c \in Contents :
    /\ IF c \in Splittable THEN status[c] # "FAILED" /\ retries[c] = 0 ELSE status[c] # "READY"
    /\ c \notin Saved => retries[c] = 0
    /\ c \in Saved => outbox[IngestEvent(c, retries[c])] # "none"

\* What a handler has seen to, at the call it is in.
HandlerInv(w) ==
  pc[w] \in HandlerCalls =>
    /\ message[w] \in Messages
    /\ EventOf(w).topic = TopicOf(w)
    /\ outbox[EventOf(w)] # "none"
    /\ pc[w] \in Working => consumption[EventOf(w)] = "PROCESSING"
    /\ pc[w] \in {"processing", "get", "fail", "save"} => w \in IngestConsumers
    /\ pc[w] \in {"list", "embed", "ready"} => w \in EmbedConsumers
    /\ pc[w] = "fail" => DocumentOf(w) \notin Splittable
    /\ pc[w] = "save" => DocumentOf(w) \in Splittable
    /\ pc[w] \in {"get", "save"} /\ EventOf(w).no = retries[DocumentOf(w)] =>
         status[DocumentOf(w)] # "PENDING"
    /\ pc[w] = "ready" => DocumentOf(w) \in vectors
    /\ pc[w] = "succeed" => Finished(EventOf(w))

HandlersInv == \A w \in Consumers : HandlerInv(w)

\* A version that has been read is one more than another's, or the first.
UploadsInv ==
  \A r \in Requests :
    /\ up[r] \in UploadCalls => file[r] \in Contents
    /\ up[r] \in {"put", "create", "recheck", "cleanup"} =>
         drawn[r] > 0 /\ (drawn[r] > 1 => \E c \in Saved : version[c] = drawn[r] - 1)

KnowledgeInv ==
  /\ Visibility
  /\ OneHandler
  /\ VersionsHaveNoGap
  /\ EventsInv
  /\ DocumentsInv
  /\ HandlersInv
  /\ UploadsInv

\* The same for ObjectsKept: a request that is about to delete its object has lost the
\* version in its key to another document.
VersionLost(r) == \E c \in Saved : c # file[r] /\ version[c] = drawn[r]

ObjectsInv ==
  faults = 0 =>
    /\ \A c \in Saved : <<c, version[c]>> \in objects
    /\ \A r \in Requests :
         /\ up[r] = "create" => Key(r) \in objects \/ VersionLost(r)
         /\ up[r] = "recheck" => file[r] \in Saved \/ VersionLost(r)
         /\ up[r] = "cleanup" => VersionLost(r)

\* READY is final: no late or repeated event and no retry takes a document out of it.
ReadyIsFinal ==
  [][\A c \in Contents : status[c] = "READY" => status'[c] = "READY"]_vars

\* What becomes of documents while they are searched is what KnowledgeStore says.
Store == INSTANCE KnowledgeStore WITH
  Documents <- Contents,
  TypeOf <- [c \in Contents |-> "one"],
  ready <- {c \in Contents : status[c] = "READY"},
  shown <- {c \in Contents : current[c]},
  inMilvus <- vectors

\* The pipeline is the store that searches are built on: through every redelivery, crash
\* and retry a document becomes READY once, after its vectors were acknowledged, and what
\* is shown changes in that step only, to that document.
ImplementsKnowledgeStore == Store!Spec

\* A document stops being shown only in the step that makes another one READY and
\* shows it; a version that is being processed or fails hides nothing.
ShownUntilReplaced ==
  [][\A c \in Contents : current[c] /\ ~current'[c] =>
       \E d \in Contents : status[d] # "READY" /\ status'[d] = "READY" /\ current'[d]]_vars

\* All consumers of one of the two groups end and stay so: Run is over when a topic is
\* idle for callTimeout, and the process serves on without them.
GroupEnds ==
  \/ <>[](\A w \in IngestConsumers : pc[w] = "stopped")
  \/ <>[](\A w \in EmbedConsumers : pc[w] = "stopped")

\* As long as no call fails and no lease runs out, nothing but that leaves a document
\* unsettled: every uploaded or retried one becomes READY or FAILED, for good, however
\* consumers of a group stop, come back with a restart and take over from each other.
DocumentsSettle ==
  [](faults = 0) =>
    <>[](\A c \in Saved : status[c] \in {"READY", "FAILED"}) \/ GroupEnds

\* The document that is shown is the newest of those that are READY: "Retrieval never
\* returns chunks from old versions."  Not so: an older version that becomes READY late
\* is shown in place of the newer one.
NewestIsShown ==
  \A c, d \in Contents : current[c] /\ status[d] = "READY" => version[d] <= version[c]

================================================================================
