# AI-Shopping: specifications, model checking and proofs

This directory specifies AI-Shopping's services where several processes, two
databases, a broker or a deadline must agree, checks the specifications with
TLC on small instances and proves the central safety properties with TLAPS for
every instance.

Everything is translated from the code under `src/`; `PROJECT.json` maps each
definition to the lines it stands for (about 31 % of all lines; generated
protobuf code is another 36 %). Kafka, Milvus, Redis and the language model are
modelled from how the code uses them and marked external.

## 1. Inventory

| Component | State it keeps | Operations | Interacts with | What makes it correct |
| --- | --- | --- | --- | --- |
| order-service: payment (`order/payment*.go`) | `orders`, `payment_attempt_history`, `wallet_accounts`, `wallet_ledger`, `outbox_events` in `trade_db` | PayWallet, ClaimPayment, SettleWalletPayment, ResetPaymentClaim, GetPaymentSettlementStatus | product-service by RPC; outbox worker and recovery worker by tables | an order is paid at most once, only with stock held, and its answers are true |
| order-service: recovery worker (`recovery/`) | lease token and time on `orders` | LeaseStale, reconcile, Reset, Done | GetReservation, ReleaseReservation, SettleRecovered | no claim stays PAYMENT_PROCESSING for ever; no paid order is reset |
| order-service: outbox worker (`outbox/worker.go`) | lease, token, attempts and retry time on `outbox_events` | LeasePending, Publish, MarkPublished, Retry | settlement and review transactions; Kafka | every committed event is published; only the lease holder ends a row |
| product-service: reservations (`catalog/reservation*.go`) | `inventory`, `inventory_reservations`, `event_consumptions` in `catalog_db` | ReserveStock, GetReservation, ReleaseReservation, ConfirmConsumed | order-service by RPC and Kafka | stock is neither lost nor minted; a paid order keeps its stock |
| product-service: expiry worker | lease token on `inventory_reservations` | LeaseExpired, ConfirmExpired, ReleaseExpired, RetryExpired | GetPaymentSettlementStatus | releases only what was not and cannot be paid |
| product-service: confirmation consumer | offsets of its consumer group | Run, Handle, retryConfirmation, deadLetterAndCommit, restart loop | Kafka, ConfirmConsumed | no confirmation is lost or blocks the others |
| product-service: detail cache and invalidation worker | Redis entries, `cache_invalidation_tasks` | GetProduct, delayed second delete, ClaimDue, MarkDone, MarkFailure | everything that changes a product | a stale entry is short-lived |
| order-service: cart, orders | `cart_items`, `orders`, `order_items` | AddCartItem, UpdateCartItem, DeleteCartItem, CreateOrder, ListOrders | user-service, product-service | no addition is lost; one order per request id; its amounts add up and it can be read again |
| order-service: reviews and analytics | `reviews`, `event_consumptions`, statistics, dead letters | SubmitReview, ReviewConsumer, HandleReviewEvent, BehaviorConsumer, HandleBehaviorEvent | Kafka | one review per paid item; each event counts once |
| gateway: behaviour outbox | `behavior_outbox_events` | Record, Claim, MarkPublished, MarkRetry, Run | Kafka | each recorded event is published |
| gateway: handlers and clients | none | middleware, the routes of 29 calls, their clients and error tables | all services | an HTTP answer does not deny what was done, nor claim what was not |
| knowledge-service: ingestion | documents, chunks, outbox, consumptions in `knowledge_db`; MinIO, Milvus | UploadDocument, ingest, embed, RetryDocument, outbox worker | Kafka | documents reach READY or FAILED; what is current is complete; nothing is worked on twice |
| knowledge-service: chunks and search | none of its own | Split, SearchProductKnowledge | Milvus, DashScope | chunks keep the text; a search shows what is current |
| agent-service | runs, steps, recommendations in `agent_db` | StartRun, tool and model steps, completion, timelines | the model, other services by RPC | a run ends, and with it its steps; answers and timelines are true |
| user-service | users, profiles, addresses | Register, UpdateProfile, addresses with one default | order-service reads addresses | exactly one default address as soon as there is any |
| the six main functions | what is open, which workers run | configuration, start, serve, shutdown | all | no worker outlives what it uses; a batch fits its lease |
| events of five topics | none | the checks of producers and consumers | Kafka | what is committed is accepted |
| catalog reads, platform packages, front end, generated code | none | translation | all | not modelled |

How they interact: a buyer's request goes through the gateway to
order-service. A payment spans `trade_db` and `catalog_db`, which no
transaction covers: order-service claims the order, product-service holds the
stock, order-service settles the wallet and writes an outbox row in one
transaction, the outbox worker publishes it, and product-service confirms the
reservation. Two pollers repair what is left behind: the recovery worker looks
at claims that are old, the expiry worker at reservations that are old. Stock
that moves clears cached details. A review of a paid item travels through the
same outbox to the statistics; an uploaded document through an outbox of its own
to its chunks and vectors, which the agent's tools search.

The hard parts are listed in `PROJECT.json` under `hazards`, each at its line:
answers that are stale when they are acted on, requests that take effect after
their caller gave up, leases that run out under a paused process, crashes
between two transactions, duplicated and reordered messages, consumers that are
restarted in mid-stream or not at all, checks that two programs make differently.

## 2. Modules

| Module | What it is |
| --- | --- |
| `PaymentSaga` | payment, reservations, recovery worker, expiry worker and the confirmation path, composed: both databases, the RPCs between them, all processes |
| `AtomicPurchase` | the abstract specification: hold, buy, sell and return as if one database held everything |
| `OutboxWorker` | the order-service's outbox and its replicas, with explicit time |
| `ConfirmationConsumer` | the Kafka consumer group that confirms reservations |
| `BehaviorOutbox` | the gateway's outbox |
| `KnowledgePipeline` | knowledge-service, from an upload to the version that is current: uploads, operator's retry, outbox, ingest and embed consumers, composed |
| `AgentRun` | a run of the shopping guide under its two contexts, and the timelines read of it |
| `Ordering` | carts and the orders placed from them, with amounts and promotions |
| `OrderRecords` | what an order stores of addresses and promotions, and reads again |
| `Analytics` | reviews, their consumers and the statistics |
| `CatalogCache` | the detail cache with its double delete, with explicit time |
| `Users` | accounts, profiles and addresses, statement by statement |
| `Chunker` | a document's text cut into chunks, against what is asked of chunks |
| `KnowledgeStore` | the abstract specification of what a search may rely on: embed a document, show it in place of another; `KnowledgePipeline` implements it, `Retrieval` is built on it |
| `Retrieval` | a search while documents take each other's place |
| `Gateway` | one HTTP request through middleware, handler, client and service, and back |
| `EventContracts` | the events of five topics between the checks of both sides |
| `Processes` | the main functions: configuration, start and shutdown, the budgets of workers |
| `SharedNames` | the constants these have in common |
| `PaymentSagaProofs`, `OutboxWorkerProofs`, `ConfirmationConsumerProofs` | the theorems about the module of that name (section 5) |
| `KnowledgeProofs` | the theorems about `KnowledgePipeline` and `Chunker` |
| `OrderAgentProofs` | the theorems about `Ordering`, `Analytics` and `AgentRun` |
| `ServicesProofs` | the theorems about `CatalogCache`, `Retrieval`, `Gateway`, `OrderRecords`, `EventContracts`, `Processes` and `Users` |
| `MCServicesProofs` | that the eleven modules of `MCServices` behave side by side as they do alone, and the types of all of them |
| `NumberTheorems` | what the proofs need of sums over finite sets, of least elements, of induction over a set and of loops written as recursive functions |
| `MC...` | instances for TLC; `MCServices` has eleven modules one beside the other |

Definitions whose name ends in `Bug` are variants of the definition behind
them, with a slip such code invites (a dropped guard, a wrong order, a missing
fence). Nothing uses them; each shows which property notices the slip when it
takes the place of the original.

### PaymentSaga

The variables are the columns the saga reads and writes (`status`, `claim`,
`recToken`, `history`, `balance`, `ledger`, `outbox` of `trade_db`;
`available`, `reservation`, `expToken`, `consumed` of `catalog_db`), the
messages that are under way (`reserveRequests`, `releaseRequests`, `topic`),
and where each process stands (`pay`, `rec`, `exp`). One action is one database
transaction, or one answer that reaches its caller.

* An attempt stands for the pair of fresh ids (`payment_attempt_id`,
  `reservation_id`) that `PayWallet` draws, so each attempt runs `PayWallet`
  once.
* A request, once sent, stays deliverable: it may be served late, twice, or
  never, and its caller may time out in any case. That covers the client's
  retries, too.
* There is no clock. A claim may count as stale, and a reservation as expired,
  at any time after it was written, and a lease may have run out whenever
  another worker looks. That allows every order the real timers allow, and
  more, so safety does not depend on any of the configured durations
  (recovery lease 4 min, expiry lease 30 s, reservation 5 min).
* A worker's token is its name, not a uuid: a worker runs one pass at a time,
  and a worker that comes back for the same row holds a fresh lease of it.
* A worker holds one leased row. A larger batch is several workers; a batch
  that is given up is workers that crashed.

### OutboxWorker

Here the durations matter, so time is explicit: `Tick` lowers the time left of
every lease, retry delay and call. A running worker returns from a call before
its deadline; `Stall` is the process that does not (a pause, a slow network),
`Abort` the pass that ends without a trace (an error of the database, a crash).
`Rounding` is what `Truncate(time.Millisecond)` takes off `lease_until`.
`Validate` is `Config.Validate`: `CallTimeout` may be the quotient of
`LeaseDuration` and the `1 + 2 * BatchSize` calls of a batch. It accepts equality
and does not reckon the rounding, so at its tightest setting the lease may end
one rounding before the last call. `LeaseCoversBatch` says exactly that: the
rows are owned under a running lease until no more than `Rounding` can be left
of the pass (`TimeLeft`). The deployed values (20 rows, 0.5 s, 30 s) leave 9.5 s.

### ConfirmationConsumer

One partition, several replicas. `position` is what a reader has handed out,
`committed` what the group has stored. `Run` is cut where it calls the broker or
the database. A failed call may have taken effect. An error of `Run` leads back
to `fetch` on the same reader, as `runConfirmationConsumer` does it; only
`Assign` sets a reader back to the committed offset.

### BehaviorOutbox

`Record`, `Claim`, the pass of `RunOnce` and the end of `Run` at the first
error. `claimToken` is a column no action of the code sets.

### KnowledgePipeline

The variables are the columns of `knowledge_db` that decide something (`status`,
`version`, `current`, `chunks`, `outbox`, `attempts`, `consumption`, `task`), the
documents whose vectors are in Milvus, the keys in MinIO, the topics (`appended`,
`committed`), and where each request (`up`) and each consumer (`pc`) stands. One
action is one call of `UploadDocument`, `HandleDocumentIngest` or
`HandleChunkEmbed` to MySQL, MinIO or Milvus, or one of the Kafka reader.

* One `(product_id, doc_type)`: documents of different ones share no row. As
  `source_hash` is unique there, a document is named by its content.
* Every call may fail without effect (`UploadLost`, `CallFails`), and one that
  writes may take effect without its caller learning of it (the second disjunct
  of `Goes`, of `PutObject` and of `CreateDocumentWithEvent`). Both stand for
  crashes, too. Each uses up one of `MaxFaults`.
* `event_consumptions` is written before the work and outside its transaction.
  A row that a failed handler leaves PROCESSING refuses all redeliveries, so the
  document stays where it is; `NothingForgotten` says that its event shows where.
* MySQL counts changed rows (the DSN does not ask for found ones): an update that
  writes what is there already affects none, and `requireSingleRow` refuses it.
* A consumer ends when nothing arrives within its call timeout and when a handler
  fails; `main` starts it once and serves on. `Restart` is the restart of the
  process, which may happen and which nothing in the code guarantees: no property
  relies on it.
* Each event has a partition of its own. In the code the events of one document,
  and of documents whose keys collide, share one, and a refused event blocks what
  is behind it; the model allows every order that partitions allow, and more.
* The outbox is what its leases allow, without their timing: a leased row may be
  leased again, a former holder may still append. `OutboxWorker` is the model of
  the timing, for the order-service's worker.
* Seen from a search, all this is `KnowledgeStore`: the mapping at the end of the
  module keeps which documents are READY, which are shown and whose vectors are in
  Milvus, and every other step stutters.

### AgentRun

`sessions`, `runs`, `steps` and `recs` are the tables of `agent_db`; `pc` says at
which call each handler of `StartRun` is. A step is a row that is inserted RUNNING
before the work and closed after it, and only its handler ever closes it.

* A handler lives under two contexts, the call's and the run's; `ctx` says which
  have ended. Steps are written under the run's, the run's row under the call's.
* A write that is interrupted is an error for the handler but stays in `late`
  until the database has applied or dropped it.
* A timeline is read by three queries (`view`). `step_count`, error texts, prompts
  and results are left out.

### Ordering and OrderRecords

`Ordering` has the cart's rows with the lock `SELECT ... FOR UPDATE` takes, and
`CreateOrder` call by call: the order of the request, the address, the selected
rows, prices, promotions, the insertion. Offers, promotions and the cart change
between any two. Money is in cents. Which promotion applies to a line (`Applied`)
and the total are operators; `OrdersAddUp` compares what is stored with the best
promotion (`BestFor`) and the sum. Every query names the user of the token, so one
user is enough.

`OrderRecords` follows the values instead: what user-service lets into an address,
product-service into a promotion, order-service into an order, and what
`ListOrders` accepts when it reads the row. A text is what the checks make of it.

### Analytics

`reviews` with their outbox rows, one partition per topic with its committed
`offset`, the reader that is `assigned`, what it was `handed` and `held`, and where
its `Run` is. `Run` ends at an error and at the first message that does not come in
time; only a restart of the process begins it again, and until then the reader
keeps its partition. The consumption row, the statistics and the dead letters are
written as the code writes them. Events arrive well-formed here, see
`EventContracts`.

### CatalogCache

A cached detail is the number of updates it has seen. `due` is the time left until
a task's `execute_at`; a reader or a transaction that takes longer than `ReadTime`
or `TxTime` is marked slow rather than forbidden. Workers lease, delete, mark, and
may lose the lease at any time. `UpdateProductDetail` is included although no RPC
calls it yet.

### Users

Calls are cut at their SQL statements. `saved` is what is committed, `written` what
open transactions see, `writer` and `ranged` the locks InnoDB takes at REPEATABLE
READ: a row's, and that of a user's index range. Whoever waits may be rolled back.
`raced` notes the users for whom two calls overlapped in one of the ways that
break the rules, which the property then excepts.

### Chunker and Retrieval

`Chunker` is `Split` as operators over a text of lines, whose bytes are numbered
so that a chunk shows what it took from where; the only step draws a text. Each loop
of the code is a recursive function over the number of turns, whose value is what
the loop's variables hold after them.
`Retrieval` cuts a search at its four calls, while versions become current, which
happens by the two steps of `KnowledgeStore`.

### Gateway

The tables of the code are records: per handler the calls with their middleware,
per service the codes of its errors, per handler the HTTP status of a code. A
request has a deadline at the client and goes on in the service when it is over.
What a service does is one step that has an effect or none, as the module of that
service says.

### EventContracts and Processes

`EventContracts` has for each topic what the request allows, what the producer puts
into the event and what the consumer demands; a text is its length. `Processes` has
each `main` as the sequence of what it checks, opens, starts and defers, and the
budget checks of workers in integers from `-MaxInt - 1` to `MaxInt`, with their
overflow. Five workers lease rows; `leases` names how `main` checks their settings.
`Accepts` is that check, which for the expiry worker lets everything through, and
`LongestBatch` is what `RunOnce` can take: for the cache worker a claim, and a
deletion and a mark for each task, of which its check reckons the deletion alone.

## 3. Runs

| Run | Question | Instance |
| --- | --- | --- |
| `saga_contend` | money moves once per paid order; stock is neither lost nor given back twice | two orders, one of them tried twice, one wallet that pays for one of them, one SKU with stock for one of them at a time, one worker of each kind |
| `saga_retry` | `PayWallet`'s answers are true, verdicts are final, paid stock is never released and unpaid stock never confirmed, `AtomicPurchase` is implemented | one order, two attempts, two SKUs of which one is short, two recovery and two expiry workers |
| `saga_liveness` | after the calls have stopped, nothing stays claimed or reserved | two attempts, one worker of each kind, `FairSpec` |
| `outbox` | a worker that keeps its deadlines holds its lease, but for the rounding; nobody else ends a leased row; every event is published in the end | two replicas, two rows, batches of two, the tightest lease that is accepted (5 ticks for 5 calls), rounded down by up to one tick, `FairSpec` |
| `consumer` | only what was given up is passed over; nothing blocks the partition | two replicas, two messages out of three kinds, two disruptions, two attempts, `FairSpec` |
| `consumer_offset` | (violated) a committed message was confirmed or dead-lettered | the same |
| `behavior` | (violated) a pass ends with its events marked | two gateways, two events |
| `knowledge_faults` | no event is worked on twice, versions have no gap, no document is forgotten | three contents of which one cannot be split, two uploads, two ingest consumers and one embed consumer, one retry, one fault |
| `knowledge_settles` | `KnowledgeStore` is implemented: what is shown is complete and stays until it is replaced; objects are kept; every document settles unless all consumers of a group have ended | the same without faults, `FairSpec` |
| `knowledge_newest` | (violated) the document that is shown is the newest READY one | the same with one ingest consumer |
| `services` | eleven modules one beside the other, see below | see below |
| `cache_release` | (violated) a release of the expiry worker leaves a delayed second deletion | one reader, one release, one worker |

`services` runs modules that share no variable and no step: its initial state
chooses one (`subject`), the others keep their initial states. As each property is
about one module, nothing is lost, and the state spaces add up instead of being
multiplied. Its parts:

| Part | Properties | Instance |
| --- | --- | --- |
| agent | `TraceComplete`, `RunAnswersTruthful`, `RunsAreClosed`: a trace has no gap, answers say what is stored, nothing stays open without a reason; `RecommendationsVerified`: only SKUs that were saleable; `TimelineTruthful` | one call whose session another may take, two steps, three answers of the model, one reader |
| ordering | `NoAddIsLost`, `OneOrderPerRequest`, `OrdersAddUp` | two calls of one request with different addresses, three additions (two for one SKU), one change of offers or promotions, promotions that tie, make an amount negative or are unreadable |
| records | `OrdersCanBeRead`: what is stored is read again as it was returned | two orders, every address and promotion the checks let in |
| analytics | `StatsMatchReviews`, `PassedIsRecorded` | three submissions (two for one item), two readers of one group and one of another, two messages a topic, one restart |
| cache | `StaleIsDue` | one key, one reader, an update and a release, a delay of two ticks that a reader exceeds with its first one, one retry |
| users | `DefaultsFollowTheRules` | one user, two calls at a time, two addresses |
| chunker | `ChunksKeepTheText` | all texts of up to five lines of 1, 2, 5 and 14 bytes, headings and blanks, against limits of 5 and 6 |
| retrieval | `SearchShowsTheCurrent` | three documents of two types, one search |
| gateway | `AnswersAreHonest` | one request to any route |
| contracts | `EventsAreAccepted` | one order, one document, one retry |
| processes | `WorkersHoldWhatTheyUse`, `BatchesAreBounded` | every program, one worker's settings at a time, integers of six bits (`MaxInt` is 31) |

Why these bounds: a hazard of the saga involves at most two attempts of one
order (an old one that comes back and the one that replaced it) and two workers
(a paused one and its successor); the third attempt in `saga_contend` belongs to a
second order that competes for the wallet, the second SKU in `saga_retry` is there
for partial holds. Two outbox rows make a batch whose second row waits for
the first one's calls. Two messages suffice for one to be passed over by the
other, and two disruptions for a replica to lose the partition and win it back.
`MaxLog` and `MaxDisruptions` bound the consumer's model only; the theorems
hold for any value. For knowledge-service two uploads make a lost version or a
shared object key, two consumers of one group a redelivery while the first one
works, and the third content a document that fails; `MaxCopies` is the event
appended once and once more. One fault is enough to lose any answer or any
process; with one outbox attempt it also makes a DEAD row.

In `services`, two steps are a turn of the model and a tool, or two turns; a turn
after a tool is not in the instance but in the theorems, which hold for any number
of steps. Two calls of one request are the replay and the race, the third addition
is the one between another's read and write. Two reviews of one item are the double
submission; two readers and one restart let a reader come back with an old offset.
One change of the product and one reader are what a stale detail takes; the delay
is longer than `ReadTime + TxTime`, as the module assumes. Two overlapping calls
break the rules of addresses or do not; a third would add no new pair, and the two
addresses they need are one that is the default and one that becomes it. Five lines
have a heading, a paragraph that ends inside the limits, one that exceeds them and
a blank between. A `MaxInt` of 31 is enough for a product to wrap to either sign, and the
sizes include the largest integer. A request to the gateway shares nothing with
another. `MaxQuantity` and `MaxMoney` stand for the largest `uint32` and `DECIMAL`,
and are reached. `consumer`, the knowledge runs and `services` may stop, because
their logs, uploads, disruptions and calls are bounded: they do not check for
deadlock.

What the runs found to differ from the documentation:

* `consumer_offset`: when dead-lettering fails for good, the message is passed
  over by the next commit although "messages are committed only after local
  confirmation or a producer-acknowledged DLQ publication".
  `SkippedWasAbandoned` says what does hold.
* `behavior`: the gateway's worker never stores its claim token, so the update
  that marks an event as published matches no row, and `Run` ends at the first
  event the broker acknowledges.
* `knowledge_newest`: the document that becomes READY last is shown, whatever its
  version, so that an older version can replace a newer one. `Visibility` and
  `ShownUntilReplaced` (theorem `ShownStays`) say what does hold.
* `cache_release`: the expiry worker gives its invalidation tasks its own time
  instead of a delayed one and deletes no key after its commit, so that a reader
  that is well within the delay stores a detail nobody deletes. `StaleIsDue` says
  what does hold, for every other change of stock.

## 4. Fairness

* `saga_liveness`: the recovery and expiry workers poll for ever
  (`Worker.Run`, `ReservationExpiryWorker.Run` swallow the errors of a pass),
  and what they try again and again succeeds in the end (strong fairness: a
  dependency that is away comes back). Nothing is assumed of `PayWallet`, of
  requests under way or of the broker. The instance has one worker of each kind:
  without a clock two could take the lease from each other for ever.
* `outbox`: as above, for leasing, publishing and marking, and time passes. It
  holds with both replicas, whose leases have a clock.
* `consumer`: weak fairness only: every call of `Run` has a timeout, the restart
  loop calls `Run` again, and the group assigns the partition.
* `knowledge_settles`: weak fairness of the outbox worker, which polls for ever,
  and of what a running consumer does next. None of `Restart`: a consumer that
  idles for one second may never work again, and once every consumer of a group
  has ended for good, documents may stay unsettled (`GroupEnds`). `DocumentsSettle`
  says that nothing else leaves them so, however the consumers of a group stop,
  are restarted and take over from each other. Nobody has to upload or to retry,
  and no call fails: after a failing call the code does leave documents unsettled.
* `services` assumes none. What would have to happen there in the end does not:
  the consumers of analytics end at an idle topic, and tasks of the cache become
  DEAD after their last retry. Its properties say what is never wrong meanwhile.

## 5. Proofs

* `SagaInvariant`: `SagaInv` is inductive. It ties everything that names an
  attempt (requests, reservations, outbox rows, what the workers remember) to
  the order's claim and to `payment_attempt_history`: what is to be released was
  reset, what is to be confirmed was paid, and an attempt that was reset is never
  claimed again. `PaidHoldsStock`, `ConfirmedIsPaid`, `ReleasedWasReset`,
  `AnswersTruthful` and `VerdictStable` follow. None of them is inductive alone:
  whether a paused expiry worker may still release depends on what it read long
  before.
* `SagaImplementsPurchase`: each step is a step of `AtomicPurchase` or a stutter,
  under the mapping at the end of `PaymentSaga`.
* `OutboxInvariant`: the budget. What is left of the lease on each row of a
  running batch, together with what the truncation took off it, covers the time
  left in the current call plus a call timeout for each call to come (`Paid`).
  That a fresh lease does is what the quotient in `Config.Validate` says
  (`FreshLease`). `LeaseCoversBatch` and `LeaseFences` follow for every
  configuration it accepts, equality included.
* `ConsumerInvariant`: everything a reader has handed out is resolved (confirmed,
  dead-lettered or given up), except the message in hand, and everything before
  the message in hand is resolved. `SkippedWasAbandoned` and `CommitsHandled`
  follow for any number of replicas, messages, attempts and disruptions.
* `KnowledgeInvariant`: `KnowledgeInv` is inductive. It adds to the properties
  what a handler has seen to at the call it is in (`HandlerInv`), that an event
  has its document and is handled to the end only when its part of the work is
  done (`EventsInv`, `Finished`), that only what cannot be split fails
  (`DocumentsInv`), and where a version that was read comes from (`UploadsInv`).
  `Visibility` needs all of it: that READY implies embedded chunks and written
  vectors follows from the order of five calls in two consumers, and
  `OneHandler` is what keeps another handler from changing that order.
  `DocumentStep` lists what a step can do to documents; `Visibility`,
  `VersionsHaveNoGap`, `ReadyIsFinal` and `ShownUntilReplaced` are proved from
  that list alone, one case per entry. `ObjectsKept` rests on `ObjectsInv`: a
  request that is about to delete its object has lost its version to another
  document.
* `PipelineImplementsStore`: each entry of `DocumentStep` is a step of
  `KnowledgeStore` or a stutter, so that `Retrieval`, built on that module, is about
  documents as the pipeline makes them.
* `ChunksHoldTheText`: for texts of any length and every pair of limits `Chunker`
  allows. Each value `Split` passes on is a sequence of pieces, of which each holds an
  interval of the text's bytes and starts where the one before it ends (`Chain`,
  `Covers`). Six loops take such sequences apart or put them together; for each there
  is an invariant of its run, and that a run exists and ends where the code does is
  `LoopDefined` and `HoldsUpTo`. That a section's bytes are below the heading it is
  named for is `TitleFollows`.
* `AgentInvariant`: `AgentInv` follows one run. Where its handler is says what its
  rows look like (`Shape`, `Phase`) and which of its writes may still take effect:
  none before the handler ends or fails, and a late success never beside a late
  step (`SucceededLast`). The five properties follow, each from its part of it;
  none is inductive, since a late write contradicts an answer given before it.
* `NothingAddedIsLost`: whoever is between its read and its write holds the lock on
  the cart's row and has read what is there (`CartInv`).
* `RequestsHaveOneOrder`: the order a call is about to insert is one of its own
  request (`OrderInv`), and the unique key admits one of them, whoever finds,
  makes or re-reads it.
* `AnalyticsInvariant`: a reader starts from a committed offset and never goes on
  behind a message it did not finish, so what is before the message in hand is
  recorded, whoever did it (`BehindInv`, with `HandInv` for where `Run` is). Only
  then does it not matter that an offset is committed by a reader that has lost
  the partition. `PassedIsRecorded` follows. `StatisticsMatch` adds the numbers: the
  consumption row and the statistics are written in one transaction, so count and
  sum of a product's ratings are those of the reviews with a row.
* `EveryOrderAddsUp`: the order a call is about to insert adds up (`DraftInv`), because
  its lines were priced from offers that were all saleable and the loop over the
  candidates ends with the best eligible one (`AppliedIsBest`, by induction over how
  many it has looked at, for lists of any length).
* `StaleDetailsAreDeleted`: an argument about time. A reader that loaded before an
  update and is not slow yet has less of its time left than the update's task has
  until it is due (`SlowBefore`); when the task is claimed for the first time,
  whoever could still store the stale detail is slow, and a deletion that took
  place is final.
* `SearchesShowTheCurrent`: what is current has its vectors in Milvus and Milvus
  forgets nothing, so the filter of a search, however late it is applied, finds every
  chunk it lists (`RetrievalInv`); with documents of any number and size the answer is
  as long as it should be. Documents change by the steps of `KnowledgeStore`.
* `HonestAnswers`: a code is final only when the service is done with the call and
  nothing was done for it, and OK only when it was (`GatewayInv`). That an answer then
  is honest follows from the tables of codes, service by service.
* `StoredOrdersAreReadable`: what a call of `CreateOrder` holds was checked by the
  service it comes from, and these checks imply those of `scanOrder` and
  `loadOrderItems` (`RecordsInv`).
* `EventsMeetTheirChecks`: what a request's checks let through, the consumer's accept,
  topic by topic.
* `WorkersAreServed`: what is open was opened in the order of `main`, and what a worker
  uses comes before its context there (`ProcessesInv`), so it is closed after the
  context. `LeasesBoundBatches`: settings are checked before their worker runs; that
  what a check accepts is a batch whose calls fit the lease (the cache worker's:
  twice the lease and a call), in spite of wrapped products, is arithmetic for every
  `MaxInt`.
* `DefaultsAreKept`: an argument about locks. A call that is about to commit has either
  written all its user's addresses under the lock of their range, with one default
  among them, or a single row that does not change which one is the default
  (`Outcome`); what it read is still true, since nobody else's step changes rows it
  has locked (`Locks`) and the calls that overlap with it are those that do no harm
  (`Apart`).

* `ServicesTyping`: the types of the eleven modules that `services` puts side by side.
  `PartsBehave` says that a behaviour of `MCServices` is one of each module, so that
  their theorems hold there. Most modules have their types in the inductive invariant;
  for the rest `MCServicesProofs` adds what a type needs: that amounts are natural
  numbers because an item whose amount is not money ends the call
  (`ItemIsLine`), that an exponential delay stays within its bound for any number
  of tries (`RetryDelayBounded`), that no update commits twice (`CommittedAreFew`).

The proofs assume what the modules state as `ASSUME`: types of the constants, that
`None` is no worker, attempt, SKU, address, program or code of an error, that the
catalog is finite, that there is a `topK` a search may ask for, `Config.Validate`, as it
is, for the outbox, and for the cache that `ReadTime + TxTime` is less than the delay, which is
what the double delete is built on.

Some theorems have no run: what they state (`TypeOK` of the saga, the outbox and
the consumer, `ReadyIsFinal`, `ShownUntilReplaced`, `ReleasedWasReset`, `CommitsHandled`,
`ConsumedIsConfirmed`, `PublishedWasSent`, the inductive invariants) was checked
with TLC while the proof was found and is implied by the theorems.

`StockIsConserved` and `MoneyIsConserved` need one more invariant, `SumInv`: at any
time only finitely many reservations hold stock and finitely many orders are paid.
The library knows the cardinality of a finite set but no fold: `NumberTheorems` counts
a sum in units, one for each piece of each summand, and derives from it how
`SumFunctionOnSet` changes with one element. It also states induction over the set of
numbers with a property, where a predicate would be a parameter, and what is known
of a recursive function that stands for a loop: it is defined, and what holds at its
start and is kept by its turns holds after each.

Only model-checked: liveness (`SagaSettles`, `EveryEventPublished`,
`EveryMessageResolved`, `DocumentsSettle`), which the provers do not reach, and the
properties of runs that expect a violation. Every other property of a passing run has
a theorem.

## 6. Not modelled

* Catalog queries (lists, filters, pages) and the analytics reports: they change
  nothing and relate no two states.
* The arguments and results of the agent's tools and the redaction of traces; the
  HTTP of Milvus and DashScope; JSON, passwords, tokens and trace identifiers.
* The front end, which is a client of the gateway: the model takes its requests as
  inputs. Generated code.
* Of modelled components: the recovery worker's batches (a pass handles one row, so
  that starvation behind a claim that always fails does not show), the time of
  knowledge-service's outbox, malformed messages in `KnowledgePipeline`, the order
  of the events of one key in the outboxes, the paging of `ListRunsOps`.

Seen while modelling, and stated by no run because nothing in the repository
promises otherwise, or because the models leave the place out:

* *Consumers that end.* `FetchMessage` is under the call timeout, so that an idle
  topic ends the review, ingest and embed consumers for good; only the
  confirmation consumer is started again. The behaviour worker ends at an error of
  its claim. Workers are cancelled but not awaited at shutdown.
* *Budgets.* The comment on the outbox's `Config.Validate` (`worker.go:66`) has every
  call end before the lease can expire; at equality the last one may end with it, and,
  as `lease_until` is truncated, up to a millisecond after it (`LeaseCoversBatch`).
  The cache worker's check reckons one call a task, neither the claim nor the marks: a
  batch may take twice the lease and a call (`BatchesAreBounded`). The expiry worker's
  settings are not validated at all; the shipped ones (20 rows, two calls of 2 s, a
  lease of 30 s) do not cover a batch, and no property bounds it. `PaymentSaga` has
  that worker pause for as long as it likes.
* *Behaviour events.* The gateway's worker publishes the payload alone, while
  `BehaviorConsumer` demands the whole event, so each would be dead-lettered
  (`EventsAreAccepted` excepts them); order-service's `main` does not start that
  consumer. `product.viewed` is never recorded, as the product route has no token.
* *Orders.* A replayed `CreateOrder` or `PayWallet` records its behaviour event
  again. A promotion with an empty `rule_type` or an unreadable discount makes its
  product unorderable, with `Internal`. An update of a cart item or an address that
  changes nothing is answered with NotFound.
* *Users.* Two first addresses, or a deletion beside another call, leave two
  defaults or none. `BudgetMin` and `BudgetMax` are compared as strings. Login
  answers 401 to any failing query; a Register whose token fails answers 500
  although the account is there.
* *Knowledge.* Upload accepts content types that ingestion marks FAILED, on every
  retry, too. After a failed Commit the cleanup deletes the object of a document
  that may have been saved. Equal chunks of a document collapse; `hardSplit` cuts
  at bytes. `is_current_ready` in Milvus is never cleared; a search overtaken by a
  switch of versions is empty without a reason. Page tokens are ignored.
* *Agent.* A step whose context has just ended stays RUNNING. A second StartRun
  with the `session_no` of the first answers Internal. `main` builds the model that
  always fails.

## 7. What is left

In this order: the recovery worker's batches, and whether a failing claim starves
the others; the order of the events of one key through outbox and partition, joined
with `KnowledgePipeline` and `Analytics`; the reservation's RPC with its deadlines
in `PaymentSaga`, as `Gateway` has them; leases with a clock in `CatalogCache` and for
the expiry worker, so that what follows from a batch that outlives its lease can be
stated with their times. Of proofs: an abstract specification of
the order-service's outbox and the confirmation consumer together (each confirmation
takes effect once), with its refinement.
