------------------------------ MODULE Analytics -------------------------------
(***************************************************************************)
(* order-service: reviews, and the consumers that count them.              *)
(*                                                                         *)
(* SubmitReview inserts a review of an item of a PAID order, one per item, *)
(* together with an outbox row.  The outbox publishes it at least once (as *)
(* OutboxWorker specifies) and a consumer group adds it to the statistics  *)
(* of its product, in a transaction of its own with a consumption row that *)
(* tells a redelivered event.  Behaviour events of the gateway are recorded*)
(* by a second consumer of the same make (main does not start it yet).     *)
(*                                                                         *)
(* Run ends at the first error and at the first message that does not come *)
(* within the call timeout, and nobody calls it again: the reader stays in *)
(* the group, with its partition, until the process is restarted.          *)
(*                                                                         *)
(* Each topic has one partition.  External: Kafka, the outboxes, payment.  *)
(* Left out: contents, times and the texts of messages and reasons.        *)
(***************************************************************************)
EXTENDS Integers, Sequences, FiniteSets, Functions, SharedNames

CONSTANTS
  Submissions,     \* calls of SubmitReview
  ReviewOf,        \* ... what they review: [order, sku, rating]
  ReviewedOrders,
  Ordered,         \* the SKUs of each order
  Products,
  ProductOf,
  BehaviorEvents,  \* event ids of the gateway's outbox
  Consumers,       \* ReviewConsumers and BehaviorConsumers
  KindOf,
  Garbage,         \* a message that does not decode or validate
  MaxMessages,     \* bound: messages in both partitions
  MaxRestarts      \* bound: restarts and rebalances

Kinds == {"review", "behavior"}
Ratings == 1 .. 5
Refusals == {"InvalidArgument", "NotFound", "IdempotencyConflict"}

ASSUME AnalyticsConstants ==
  /\ ReviewOf \in [Submissions -> [order : ReviewedOrders, sku : SKUs, rating : Int]]
  /\ Ordered \in [ReviewedOrders -> SUBSET SKUs]
  /\ ProductOf \in [SKUs -> Products]
  /\ KindOf \in [Consumers -> Kinds]
  /\ Submissions \cap BehaviorEvents = {}
  /\ Garbage \notin Submissions \cup BehaviorEvents
  /\ None \notin Consumers \cup Refusals
  /\ MaxMessages \in Nat
  /\ MaxRestarts \in Nat

VARIABLES
  paid,          \* orders that are PAID
  reviews,       \* reviews and their outbox rows, by the call that inserted them
  topic,         \* the partitions
  offset,        \* committed offsets: messages up to it are done with
  assigned,      \* the reader that holds a partition
  handed,        \* messages a reader has handed out
  at,            \* where Run is
  held,          \* the message it has in hand
  handled,       \* events with a SUCCEEDED consumption and their record
  stats,         \* product_review_stats
  deadTopic,     \* messages published to the dead letter topic
  deadRecords,   \* messages in analytics_dead_letters
  restarts

reviewVars == <<paid, reviews>>
group == <<offset, assigned, handed>>
counts == <<handled, stats>>
deadVars == <<deadTopic, deadRecords>>
run == <<at, held>>
analyticsVars == <<reviewVars, topic, group, run, counts, deadVars, restarts>>

Events == Submissions \cup BehaviorEvents

AnalyticsTypeOK ==
  /\ paid \subseteq ReviewedOrders
  /\ reviews \subseteq Submissions
  /\ topic \in [Kinds -> Seq(Events \cup {Garbage})]
  /\ \A t \in Kinds : Len(topic[t]) <= MaxMessages
  /\ offset \in [Kinds -> 0 .. MaxMessages]
  /\ assigned \in [Kinds -> Consumers \cup {None}]
  /\ handed \in [Consumers -> 0 .. MaxMessages]
  /\ held \in [Consumers -> 0 .. MaxMessages]
  /\ at \in [Consumers -> {"fetch", "handle", "commit", "publish", "record", "ended"}]
  /\ handled \subseteq Events
  /\ stats \in [Products -> [count : Nat, sum : Nat]]
  /\ deadTopic \in [Kinds -> SUBSET (1 .. MaxMessages)]
  /\ deadRecords \subseteq 1 .. MaxMessages
  /\ restarts \in 0 .. MaxRestarts

AnalyticsInit ==
  /\ paid = {}
  /\ reviews = {}
  /\ topic = [t \in Kinds |-> <<>>]
  /\ offset = [t \in Kinds |-> 0]
  /\ assigned = [t \in Kinds |-> None]
  /\ handed = [w \in Consumers |-> 0]
  /\ at = [w \in Consumers |-> "fetch"]
  /\ held = [w \in Consumers |-> 0]
  /\ handled = {}
  /\ stats = [p \in Products |-> [count |-> 0, sum |-> 0]]
  /\ deadTopic = [t \in Kinds |-> {}]
  /\ deadRecords = {}
  /\ restarts = 0

--------------------------------------------------------------------------------
(* Reviews.                                                                   *)

Pay(o) ==
  /\ o \notin paid
  /\ paid' = paid \cup {o}
  /\ UNCHANGED <<reviews, topic, group, run, counts, deadVars, restarts>>

\* uq_reviews_order_item
SameItem(s, u) == ReviewOf[s].order = ReviewOf[u].order /\ ReviewOf[s].sku = ReviewOf[u].sku

Reviewed(s) == \E u \in reviews : SameItem(s, u)

\* The checks of the service and of the transaction, in their order.
ReviewRefused(s) ==
  IF ReviewOf[s].rating \notin Ratings THEN "InvalidArgument"
  ELSE IF ReviewOf[s].order \notin paid THEN "InvalidArgument"
  ELSE IF ReviewOf[s].sku \notin Ordered[ReviewOf[s].order] THEN "NotFound"
  ELSE IF Reviewed(s) THEN "IdempotencyConflict"
  ELSE None

Accepted(s) == ReviewRefused(s) = None

\* SubmitReview holds the order's row, so that its transaction is a step.  A refused one
\* changes nothing; one whose commit seems to fail may have taken effect.
SubmitReview(s) ==
  /\ Accepted(s)
  /\ reviews' = reviews \cup {s}
  /\ UNCHANGED <<paid, topic, group, run, counts, deadVars, restarts>>

--------------------------------------------------------------------------------
(* Kafka.                                                                     *)

\* An outbox publishes an event, perhaps not for the first time; or somebody else writes
\* what is none.
Published(t) ==
  (IF t = "review" THEN reviews ELSE BehaviorEvents) \cup {Garbage}

Deliver(t, x) ==
  /\ Len(topic["review"]) + Len(topic["behavior"]) < MaxMessages
  /\ topic' = [topic EXCEPT ![t] = Append(@, x)]
  /\ UNCHANGED <<reviewVars, group, run, counts, deadVars, restarts>>

\* A partition goes to a reader of its group, which starts from the committed offset.
AssignPartition(w) ==
  /\ assigned[KindOf[w]] = None
  /\ assigned' = [assigned EXCEPT ![KindOf[w]] = w]
  /\ handed' = [handed EXCEPT ![w] = offset[KindOf[w]]]
  /\ UNCHANGED <<reviewVars, topic, offset, run, counts, deadVars, restarts>>

\* A rebalance: the reader that loses it finishes the message it has in hand.
RevokePartition(t) ==
  /\ assigned[t] # None
  /\ restarts < MaxRestarts
  /\ assigned' = [assigned EXCEPT ![t] = None]
  /\ restarts' = restarts + 1
  /\ UNCHANGED <<reviewVars, topic, offset, handed, run, counts, deadVars>>

\* The process stops, wherever Run is, and starts again.
RestartService(w) ==
  /\ restarts < MaxRestarts
  /\ assigned' = [t \in Kinds |-> IF assigned[t] = w THEN None ELSE assigned[t]]
  /\ at' = [at EXCEPT ![w] = "fetch"]
  /\ held' = [held EXCEPT ![w] = 0]
  /\ restarts' = restarts + 1
  /\ UNCHANGED <<reviewVars, topic, offset, handed, counts, deadVars>>

--------------------------------------------------------------------------------
(* Run.                                                                       *)

\* The message is out of hand when the next is fetched, and when Run has ended.
Go(w, from, to) ==
  /\ at[w] = from
  /\ at' = [at EXCEPT ![w] = to]
  /\ held' = IF to \in {"fetch", "ended"} THEN [held EXCEPT ![w] = 0] ELSE held

Message(w) == topic[KindOf[w]][held[w]]

FetchMessage(w) ==
  LET t == KindOf[w] IN
  /\ assigned[t] = w
  /\ handed[w] < Len(topic[t])
  /\ handed' = [handed EXCEPT ![w] = @ + 1]
  /\ at[w] = "fetch"
  /\ at' = [at EXCEPT ![w] = IF topic[t][handed[w] + 1] = Garbage THEN "publish" ELSE "handle"]
  /\ held' = [held EXCEPT ![w] = handed[w] + 1]
  /\ UNCHANGED <<reviewVars, topic, offset, assigned, counts, deadVars, restarts>>

\* ratingAverage is left to the reader of count and sum.
UpdateProductStats(e) ==
  IF e \in Submissions
  THEN [stats EXCEPT ![ProductOf[ReviewOf[e].sku]] =
          [count |-> @.count + 1, sum |-> @.sum + ReviewOf[e].rating]]
  ELSE stats

\* Variants named ...Bug carry a slip such code invites; they show which property
\* notices it.  An event that is known is counted all the same.
HandleEventBug(e) ==
  /\ handled' = handled \cup {e}
  /\ stats' = UpdateProductStats(e)

\* HandleReviewEvent and HandleBehaviorEvent: the consumption row keeps any other
\* transaction for the same event waiting, and is there afterwards only with its record.
HandleEvent(e) ==
  /\ handled' = handled \cup {e}
  /\ stats' = IF e \in handled THEN stats ELSE UpdateProductStats(e)

Handle(w) ==
  /\ Go(w, "handle", "commit")
  /\ HandleEvent(Message(w))
  /\ UNCHANGED <<reviewVars, topic, group, deadVars, restarts>>

\* The message is passed over, as a consumer does that survives its errors.
HandleFailsBug(w) ==
  /\ Go(w, "handle", "fetch")
  /\ HandleEvent(Message(w)) \/ UNCHANGED counts
  /\ UNCHANGED <<reviewVars, topic, group, deadVars, restarts>>

\* A transaction that fails or times out may have been committed.
HandleFails(w) ==
  /\ Go(w, "handle", "ended")
  /\ HandleEvent(Message(w)) \/ UNCHANGED counts
  /\ UNCHANGED <<reviewVars, topic, group, deadVars, restarts>>

Discard(w, ok) ==
  \/ /\ ok
     /\ deadTopic' = [deadTopic EXCEPT ![KindOf[w]] = @ \cup {held[w]}]
     /\ Go(w, "publish", IF KindOf[w] = "review" THEN "commit" ELSE "record")
  \/ /\ ~ok
     /\ \/ deadTopic' = [deadTopic EXCEPT ![KindOf[w]] = @ \cup {held[w]}]
        \/ UNCHANGED deadTopic
     /\ Go(w, "publish", "ended")

\* deadLetterAndCommit: the dead letter topic first, for behaviour events a row too.
PublishDeadLetter(w) ==
  /\ \E ok \in BOOLEAN : Discard(w, ok)
  /\ UNCHANGED <<reviewVars, topic, group, counts, deadRecords, restarts>>

RecordDeadLetter(w) ==
  /\ \/ Go(w, "record", "commit") /\ deadRecords' = deadRecords \cup {held[w]}
     \/ /\ Go(w, "record", "ended")
        /\ deadRecords' \in {deadRecords, deadRecords \cup {held[w]}}
  /\ UNCHANGED <<reviewVars, topic, group, counts, deadTopic, restarts>>

\* CommitMessages stores the offset behind the message, whatever was stored before; that
\* of a reader which lost its partition may still arrive.  An error may hide a success.
CommitMessage(w) ==
  /\ \/ /\ Go(w, "commit", "fetch")
        /\ offset' = [offset EXCEPT ![KindOf[w]] = held[w]]
     \/ /\ Go(w, "commit", "ended")
        /\ \/ offset' = [offset EXCEPT ![KindOf[w]] = held[w]]
           \/ UNCHANGED offset
  /\ UNCHANGED <<reviewVars, topic, assigned, handed, counts, deadVars, restarts>>

\* No message comes within the call timeout.
FetchTimesOut(w) ==
  /\ Go(w, "fetch", "ended")
  /\ UNCHANGED <<reviewVars, topic, group, counts, deadVars, restarts>>

--------------------------------------------------------------------------------

Run(w) ==
  \/ FetchMessage(w)
  \/ FetchTimesOut(w)
  \/ Handle(w)
  \/ HandleFails(w)
  \/ PublishDeadLetter(w)
  \/ RecordDeadLetter(w)
  \/ CommitMessage(w)

AnalyticsNext ==
  \/ \E o \in ReviewedOrders : Pay(o)
  \/ \E s \in Submissions : SubmitReview(s)
  \/ \E t \in Kinds : (\E x \in Published(t) : Deliver(t, x)) \/ RevokePartition(t)
  \/ \E w \in Consumers : AssignPartition(w) \/ RestartService(w) \/ Run(w)

AnalyticsSpec == AnalyticsInit /\ [][AnalyticsNext]_analyticsVars

--------------------------------------------------------------------------------
(* Properties                                                                *)

\* The handled reviews of a product, and what they add up to.
HandledOf(p) == {e \in handled \cap Submissions : ProductOf[ReviewOf[e].sku] = p}

SumOfRatings(S) == SumFunctionOnSet([e \in Submissions |-> ReviewOf[e].rating], S)

\* The statistics of a product count every review that was handled, and each once,
\* however often it was delivered, handled again or half handled; an order item counts
\* for one review, and only once its order was paid.
StatsMatchReviews ==
  /\ \A p \in Products :
       stats[p] = [count |-> Cardinality(HandledOf(p)), sum |-> SumOfRatings(HandledOf(p))]
  /\ handled \cap Submissions \subseteq reviews
  /\ \A s, u \in reviews : SameItem(s, u) => s = u
  /\ \A s \in reviews : ReviewOf[s].order \in paid

\* "do not commit; Kafka redelivery retries": a message that the group has left behind
\* was recorded or, if it is no event, is in the dead letter topic, and for behaviour
\* events in analytics_dead_letters.
PassedIsRecorded ==
  \A t \in Kinds, i \in 1 .. MaxMessages : i <= offset[t] =>
    IF topic[t][i] = Garbage
    THEN i \in deadTopic[t] /\ (t = "behavior" => i \in deadRecords)
    ELSE topic[t][i] \in handled

================================================================================
