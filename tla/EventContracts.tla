----------------------------- MODULE EventContracts -----------------------------
(***************************************************************************)
(* The events of the five topics, from the request that leads to one to    *)
(* the checks of its consumer, in another program or in another service.   *)
(*                                                                         *)
(* An event its consumer refuses is lost to it: the analytics consumers    *)
(* and that of confirmations set it aside, those of knowledge-service stop *)
(* at it.  Deliveries that fail, and how often an event arrives, are in    *)
(* OutboxWorker, ConfirmationConsumer, Analytics and KnowledgePipeline.    *)
(*                                                                         *)
(* There is one order with one item, and one document.  A text is its      *)
(* length without the spaces around it, and the number of these.           *)
(***************************************************************************)
EXTENDS Integers, SharedNames

CONSTANTS
  MaxFileBytes, \* of a document
  MaxRetryCalls \* bound on the calls of RetryDocument

ASSUME ContractsAssumption == MaxFileBytes \in Nat \ {0} /\ MaxRetryCalls \in Nat

Text(runes, spaces) == [runes |-> runes, spaces |-> spaces]
Trimmed(text) == Text(text.runes, 0)
Length(text) == text.runes + text.spaces
IsBlank(text) == Trimmed(text) = Text(0, 0)

NoText == Text(0, 0)     \* a field that is not there
NewId == Text(36, 0)     \* uuid.NewString
OrderNo == Text(40, 0)

Some(lengths) == {Text(runes, spaces) : runes \in lengths, spaces \in {0, 1}}

--------------------------------------------------------------------------------
(* Reviews: order-service to order-service                                   *)

SubmitReviewInputs ==
  [order_no : {NoText, Text(0, 1), OrderNo, Text(40, 1)},
   sku : {0, 1}, rating : {0, 1, 5, 6}, content : Some({0, 1, 1000, 1001})]

AcceptsReview(input) ==
  /\ ~IsBlank(input.order_no) /\ input.sku # 0
  /\ input.rating \in 1 .. 5
  /\ Length(Trimmed(input.content)) \in 1 .. 1000

\* The length of what came in is checked, and what came in is stored.
StoredContentBug(input) == input.content

StoredContent(input) == Trimmed(input.content)

\* The number of the order is that of its row, with the product of its item.
reviewSubmittedPayload(input) ==
  [topic |-> "review.events", event_id |-> NewId, event_type |-> "review.submitted",
   review_no |-> Text(40, 0), order_no |-> OrderNo, user_id |-> 1, product_id |-> 1,
   sku_id |-> input.sku, rating |-> input.rating, content |-> StoredContent(input),
   version |-> 1]

ReviewEventValid(e) ==
  /\ e.event_id = NewId
  /\ e.event_type = "review.submitted"
  /\ ~IsBlank(e.review_no) /\ ~IsBlank(e.order_no)
  /\ 0 \notin {e.user_id, e.product_id, e.sku_id}
  /\ e.rating \in 1 .. 5
  /\ ~IsBlank(e.content) /\ Length(e.content) <= 1000
  /\ e.version = 1

--------------------------------------------------------------------------------
(* Confirmations: order-service to product-service                           *)

\* The ids PayWallet drew, or those of the claim a recovery worker read.
confirmationPayload ==
  [topic |-> "inventory.reservation.confirm", event_id |-> NewId, reservation_id |-> NewId,
   order_no |-> OrderNo, payment_attempt_id |-> NewId, version |-> 1]

ConfirmationValid(e) ==
  /\ \A text \in {e.event_id, e.reservation_id, e.order_no, e.payment_attempt_id} : ~IsBlank(text)
  /\ e.version = 1

--------------------------------------------------------------------------------
(* Behaviour: the gateway to order-service                                   *)

BehaviorPayloads == {{"sku_id", "quantity", "version"}, {"status", "version"}}

PrivateKeys ==
  {"phone", "mobile", "address", "token", "jwt", "authorization", "password", "secret",
   "api_key", "wallet_balance", "review_content", "prompt"}

\* The keys at any depth.
containsPIIKey(payload) == payload \cap PrivateKeys # {}

\* The row has the event's id, user and type; the trace, the resource and the time are
\* not stored.  Only the payload is sent.
behaviorMessage(payload) == [topic |-> "behavior.events", keys |-> payload]

BehaviorEventValid(message) ==
  {"event_id", "event_type", "user_id", "trace_id", "resource_type", "resource_id",
   "payload", "occurred_at", "version"} \subseteq message.keys

--------------------------------------------------------------------------------
(* Documents: knowledge-service to knowledge-service                         *)

UploadInputs ==
  [user_id : {0, 1}, product_id : {0, 1}, doc_type : {"FAQ", "other"},
   file_name : {"name", "dots", "long"},
   content_type : {"text/plain", " TEXT/plain", "text/plain; charset=utf-8", " ", "long"},
   size : {0, 1, MaxFileBytes, MaxFileBytes + 1}, has_text : BOOLEAN]

\* Letters, digits and "._-" stay, and the latter not at the ends.
sanitizeFileName(name) == CASE name = "name" -> 4 [] name = "dots" -> 0 [] name = "long" -> 256

validDocType(type) == type \in {"DETAIL", "SPEC", "FAQ", "AFTER_SALE"}

normalizeUpload(input) ==
  /\ input.user_id # 0 /\ input.product_id # 0
  /\ validDocType(input.doc_type)
  /\ sanitizeFileName(input.file_name) \in 1 .. 255
  /\ input.content_type \notin {" ", "long"}
  /\ input.size \in 1 .. MaxFileBytes

newIngestEvent ==
  [topic |-> "knowledge.document.ingest", event_id |-> NewId, document_no |-> NewId,
   payload_version |-> 1]

newChunkEmbedEvent == [newIngestEvent EXCEPT !.topic = "knowledge.chunk.embed"]

DocumentEventValid(e) ==
  /\ ~IsBlank(e.event_id) /\ ~IsBlank(e.document_no)
  /\ e.payload_version = 1

supportedTextContentType(type) == type \in {"text/plain", " TEXT/plain"}

--------------------------------------------------------------------------------

VARIABLES
  reviewedItem,  \* a review of the item is there
  orderPaid,
  knownDocument, \* its content type and status, or None
  retryCalls,
  underway,      \* events that were committed and not consumed
  refused        \* events their consumer does not accept

contractVars == <<reviewedItem, orderPaid, knownDocument, retryCalls, underway, refused>>

Topics ==
  {"review.events", "inventory.reservation.confirm", "behavior.events",
   "knowledge.document.ingest", "knowledge.chunk.embed"}

ContractsTypeOK ==
  /\ reviewedItem \in BOOLEAN
  /\ orderPaid \in BOOLEAN
  /\ knownDocument # None =>
       /\ normalizeUpload([knownDocument.input EXCEPT !.user_id = 1])
       /\ knownDocument.status \in {"PENDING", "PROCESSING", "READY", "FAILED"}
  /\ retryCalls \in 0 .. MaxRetryCalls
  /\ \A e \in underway \cup refused : e.topic \in Topics

ContractsInit ==
  /\ reviewedItem = FALSE
  /\ orderPaid = FALSE
  /\ knownDocument = None
  /\ retryCalls = 0
  /\ underway = {}
  /\ refused = {}

--------------------------------------------------------------------------------
(* Producers                                                                 *)

\* A commit with its outbox row.
CommitEvent(e) == underway' = underway \cup {e} /\ UNCHANGED refused

SettlePayment ==
  /\ ~orderPaid
  /\ orderPaid' = TRUE
  /\ CommitEvent(confirmationPayload)
  /\ UNCHANGED <<reviewedItem, knownDocument, retryCalls>>

\* There is one review of an item of a PAID order.
ReviewItem(input) ==
  /\ AcceptsReview(input)
  /\ Trimmed(input.order_no) = OrderNo
  /\ orderPaid /\ ~reviewedItem
  /\ reviewedItem' = TRUE
  /\ CommitEvent(reviewSubmittedPayload(input))
  /\ UNCHANGED <<orderPaid, knownDocument, retryCalls>>

Observe(payload) ==
  /\ ~containsPIIKey(payload)
  /\ CommitEvent(behaviorMessage(payload))
  /\ UNCHANGED <<reviewedItem, orderPaid, knownDocument, retryCalls>>

\* An upload of what is there returns it.
Upload(input) ==
  /\ normalizeUpload(input)
  /\ knownDocument = None
  /\ knownDocument' = [input |-> input, status |-> "PENDING"]
  /\ CommitEvent(newIngestEvent)
  /\ UNCHANGED <<reviewedItem, orderPaid, retryCalls>>

RetryDocument ==
  /\ knownDocument # None
  /\ knownDocument.status = "FAILED"
  /\ retryCalls < MaxRetryCalls
  /\ retryCalls' = retryCalls + 1
  /\ knownDocument' = [knownDocument EXCEPT !.status = "PENDING"]
  /\ CommitEvent(newIngestEvent)
  /\ UNCHANGED <<reviewedItem, orderPaid>>

--------------------------------------------------------------------------------
(* Consumers                                                                 *)

Accept(e) == underway' = underway \ {e} /\ UNCHANGED refused
RefuseEvent(e) == underway' = underway \ {e} /\ refused' = refused \cup {e}

ConsumeReview(e) ==
  /\ e.topic = "review.events"
  /\ IF ReviewEventValid(e) THEN Accept(e) ELSE RefuseEvent(e)
  /\ UNCHANGED <<reviewedItem, orderPaid, knownDocument, retryCalls>>

ConsumeConfirmation(e) ==
  /\ e.topic = "inventory.reservation.confirm"
  /\ IF ConfirmationValid(e) THEN Accept(e) ELSE RefuseEvent(e)
  /\ UNCHANGED <<reviewedItem, orderPaid, knownDocument, retryCalls>>

ConsumeBehavior(e) ==
  /\ e.topic = "behavior.events"
  /\ IF BehaviorEventValid(e) THEN Accept(e) ELSE RefuseEvent(e)
  /\ UNCHANGED <<reviewedItem, orderPaid, knownDocument, retryCalls>>

Splittable(input) == supportedTextContentType(input.content_type) /\ input.has_text

IngestDocument(e) ==
  \/ /\ knownDocument.status = "READY"
     /\ Accept(e)
     /\ UNCHANGED knownDocument
  \/ /\ knownDocument.status # "READY" /\ ~Splittable(knownDocument.input)
     /\ knownDocument' = [knownDocument EXCEPT !.status = "FAILED"]
     /\ Accept(e)
  \/ /\ knownDocument.status # "READY" /\ Splittable(knownDocument.input)
     /\ knownDocument' = [knownDocument EXCEPT !.status = "PROCESSING"]
     /\ underway' = (underway \ {e}) \cup {newChunkEmbedEvent}
     /\ UNCHANGED refused

HandleDocumentIngest(e) ==
  /\ e.topic = "knowledge.document.ingest"
  /\ IF DocumentEventValid(e)
       THEN IngestDocument(e)
       ELSE RefuseEvent(e) /\ UNCHANGED knownDocument
  /\ UNCHANGED <<reviewedItem, orderPaid, retryCalls>>

HandleChunkEmbed(e) ==
  /\ e.topic = "knowledge.chunk.embed"
  /\ IF DocumentEventValid(e)
       THEN Accept(e) /\ knownDocument' = [knownDocument EXCEPT !.status = "READY"]
       ELSE RefuseEvent(e) /\ UNCHANGED knownDocument
  /\ UNCHANGED <<reviewedItem, orderPaid, retryCalls>>

--------------------------------------------------------------------------------

ContractsNext ==
  \/ SettlePayment
  \/ \E input \in SubmitReviewInputs : ReviewItem(input)
  \/ \E payload \in BehaviorPayloads : Observe(payload)
  \/ \E input \in UploadInputs : Upload(input)
  \/ RetryDocument
  \/ \E e \in underway :
       \/ ConsumeReview(e) \/ ConsumeConfirmation(e) \/ ConsumeBehavior(e)
       \/ HandleDocumentIngest(e) \/ HandleChunkEmbed(e)

ContractsSpec == ContractsInit /\ [][ContractsNext]_contractVars

--------------------------------------------------------------------------------
(* Properties                                                                *)

\* Whatever requests come in, what a producer has committed passes the checks of its
\* consumer: no review counts in the shop and not in the statistics, no payment leaves
\* its stock unconfirmed, and no document stops the partition it is in.  Messages of
\* behaviour are excepted: each of them is refused.
EventsAreAccepted == \A e \in refused : e.topic = "behavior.events"

================================================================================
