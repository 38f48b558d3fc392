------------------------------ MODULE PaymentSaga ------------------------------
(***************************************************************************)
(* Wallet payment of an order, as a saga over two databases.               *)
(*                                                                         *)
(* order-service owns trade_db: it claims an order for one payment attempt,*)
(* asks product-service to reserve the stock, then settles the wallet and  *)
(* queues a confirmation event in a single transaction.  product-service   *)
(* owns catalog_db: inventory and reservations.  Three pollers repair what *)
(* a crash, a timeout or a lost message leaves behind: the payment recovery*)
(* worker (order-service), the reservation expiry worker (product-service) *)
(* and the outbox/Kafka path that confirms reservations.                   *)
(*                                                                         *)
(* Covered: concurrent PayWallet calls on one order, every database        *)
(* transaction as one step, RPCs that time out at the caller and execute   *)
(* late, repeatedly or never at the server, crashes of every process       *)
(* between any two steps, leases that expire under a paused worker,        *)
(* duplicated, reordered and lost confirmation messages.                   *)
(*                                                                         *)
(* There is no clock.  A claim may be old enough for recovery, and a       *)
(* reservation past its expires_at, at any moment after it is written; a   *)
(* lease may have run out whenever another pass looks at it.  That allows  *)
(* every ordering the real timers allow and more.  A worker holds one      *)
(* leased row at a time (BatchSize = 1); a larger batch is several leases, *)
(* and a batch aborted half way is a worker that crashed holding them.     *)
(***************************************************************************)
EXTENDS Integers, FiniteSets, Functions

CONSTANTS
  Orders,            \* orders.order_no
  Attempts,          \* payment attempts: one PayWallet call each, with fresh uuids
  Users,             \* wallet owners
  SKUs,              \* stock keeping units
  RecoveryWorkers,   \* payment recovery workers, one per order-service replica
  ExpiryWorkers,     \* reservation expiry workers, one per product-service replica
  None,              \* SQL NULL
  OrderOf,           \* the order a PayWallet call names
  UserOf,            \* the buyer of an order
  Total,             \* orders.total_amount; 0 for a fully discounted order
  Quantity,          \* the order's items: SKU -> quantity
  InitialBalance,    \* wallet_accounts.balance at the start
  InitialStock       \* inventory.available_qty at the start

ASSUME SagaConstants ==
  /\ OrderOf \in [Attempts -> Orders]
  /\ UserOf \in [Orders -> Users]
  /\ Total \in [Orders -> Nat]
  /\ Quantity \in [Orders -> [SKUs -> Nat]]
  /\ InitialBalance \in [Users -> Nat]
  /\ InitialStock \in [SKUs -> Nat]
  /\ None \notin Attempts
  /\ None \notin RecoveryWorkers
  /\ None \notin ExpiryWorkers

VARIABLES
  \* trade_db
  status,            \* orders.status
  claim,             \* orders.payment_attempt_id, with its reservation_id
  recToken,          \* orders.payment_recovery_token: the worker that leased it last
  history,           \* payment_attempt_history: attempts that were reset
  balance,           \* wallet_accounts.balance
  ledger,            \* wallet_ledger DEBIT rows, by biz_id
  outbox,            \* outbox_events CONFIRM row of an attempt
  \* catalog_db
  available,         \* inventory.available_qty
  reservation,       \* inventory_reservations.status of an attempt's group
  expToken,          \* inventory_reservations.expiry_lease_token
  consumed,          \* event_consumptions of product-inventory-confirmation
  \* the network
  reserveRequests,   \* ReserveStock requests sent; they stay deliverable
  releaseRequests,   \* ReleaseReservation requests sent; likewise
  topic,             \* messages in the topic inventory.reservation.confirm
  \* processes
  pay,               \* where each PayWallet call is, or how it answered
  rec,               \* recovery workers
  exp                \* expiry workers

tradeVars == <<status, claim, recToken, history, balance, ledger, outbox>>
catalogVars == <<available, reservation, expToken, consumed>>
netVars == <<reserveRequests, releaseRequests, topic>>
procVars == <<pay, rec, exp>>
vars == <<tradeVars, catalogVars, netVars, procVars>>

--------------------------------------------------------------------------------
(* Types *)

OrderStatus == {"PENDING_PAYMENT", "PAYMENT_PROCESSING", "PAID"}
ReservationStatus == {"none", "RESERVED", "CONFIRMED", "RELEASED"}
OutboxStatus == {"none", "PENDING", "PUBLISHED"}

\* A PayWallet call in progress ...
PayStep == {"reserving", "settling", "resetting", "reverting", "releasing", "rereading"}
\* ... and its answers.  FAILED is any error that says nothing of the outcome.
PayAnswer == {"PAID", "IN_PROGRESS", "OUT_OF_STOCK", "INSUFFICIENT_BALANCE", "FAILED"}

RecStep == {"query", "settle", "reset", "resetRelease", "release", "done"}
RecWorker == [pc : RecStep, attempt : Attempts] \cup [pc : {"idle"}, attempt : {None}]

ExpStep == {"lookup", "confirm", "release", "retry"}
ExpWorker == [pc : ExpStep, attempt : Attempts] \cup [pc : {"idle"}, attempt : {None}]

Idle == [pc |-> "idle", attempt |-> None]

TypeOK ==
  /\ status \in [Orders -> OrderStatus]
  /\ claim \in [Orders -> Attempts \cup {None}]
  /\ recToken \in [Orders -> RecoveryWorkers \cup {None}]
  /\ history \subseteq Attempts
  /\ balance \in [Users -> Nat]
  /\ ledger \subseteq Orders
  /\ outbox \in [Attempts -> OutboxStatus]
  /\ available \in [SKUs -> Nat]
  /\ reservation \in [Attempts -> ReservationStatus]
  /\ expToken \in [Attempts -> ExpiryWorkers \cup {None}]
  /\ consumed \subseteq Attempts
  /\ reserveRequests \subseteq Attempts
  /\ releaseRequests \subseteq Attempts
  /\ topic \subseteq Attempts
  /\ pay \in [Attempts -> {"idle"} \cup PayStep \cup PayAnswer]
  /\ rec \in [RecoveryWorkers -> RecWorker]
  /\ exp \in [ExpiryWorkers -> ExpWorker]

\* Orders exist and are unpaid; nothing is reserved; no call is running.
Init ==
  /\ status = [o \in Orders |-> "PENDING_PAYMENT"]
  /\ claim = [o \in Orders |-> None]
  /\ recToken = [o \in Orders |-> None]
  /\ history = {}
  /\ balance = InitialBalance
  /\ ledger = {}
  /\ outbox = [a \in Attempts |-> "none"]
  /\ available = InitialStock
  /\ reservation = [a \in Attempts |-> "none"]
  /\ expToken = [a \in Attempts |-> None]
  /\ consumed = {}
  /\ reserveRequests = {}
  /\ releaseRequests = {}
  /\ topic = {}
  /\ pay = [a \in Attempts |-> "idle"]
  /\ rec = [w \in RecoveryWorkers |-> Idle]
  /\ exp = [w \in ExpiryWorkers |-> Idle]

--------------------------------------------------------------------------------
(* trade_db transactions *)

\* Names ending in Bug are variants of the definition that follows them, each with a
\* slip such code invites.  The specification uses none of them; they show which
\* property notices the slip.
ClaimMatchesStatusBug(o, a) == claim[o] = a

ClaimMatchesAttemptBug(o, a) == status[o] = "PAYMENT_PROCESSING"

\* WHERE status = 'PAYMENT_PROCESSING' AND payment_attempt_id = ? AND reservation_id = ?
ClaimMatches(o, a) == status[o] = "PAYMENT_PROCESSING" /\ claim[o] = a

\* A zero total never reads the wallet; a missing wallet row is a zero balance.
CanDebit(o) == Total[o] = 0 \/ balance[UserOf[o]] >= Total[o]

\* The debit in a transaction of its own, lost in a crash.
SettleWalletPaymentBug(o, a) ==
  /\ ClaimMatches(o, a)
  /\ CanDebit(o)
  /\ status' = [status EXCEPT ![o] = "PAID"]
  /\ outbox' = [outbox EXCEPT ![a] = "PENDING"]
  /\ UNCHANGED <<claim, recToken, history, balance, ledger>>

\* The branch of SettleWalletPayment that commits: debit, ledger row, PAID and
\* the confirmation event, or none of them.
SettleWalletPayment(o, a) ==
  /\ ClaimMatches(o, a)
  /\ CanDebit(o)
  /\ o \notin ledger
  /\ balance' = [balance EXCEPT ![UserOf[o]] = @ - Total[o]]
  /\ ledger' = IF Total[o] > 0 THEN ledger \cup {o} ELSE ledger
  /\ status' = [status EXCEPT ![o] = "PAID"]
  /\ outbox' = [outbox EXCEPT ![a] = "PENDING"]
  /\ UNCHANGED <<claim, recToken, history>>

\* The reset CAS that applied: the attempt moves from the order to the history
\* table.  PayWallet's reset leaves the recovery token alone, the worker's clears it.
ResetClaim(o, a, clearsToken) ==
  /\ ClaimMatches(o, a)
  /\ status' = [status EXCEPT ![o] = "PENDING_PAYMENT"]
  /\ claim' = [claim EXCEPT ![o] = None]
  /\ history' = history \cup {a}
  /\ recToken' = IF clearsToken THEN [recToken EXCEPT ![o] = None] ELSE recToken
  /\ UNCHANGED <<balance, ledger, outbox>>

\* What order-service answers for one exact attempt.
PaymentSettlementStatus(a) ==
  IF a \in history THEN "PENDING_PAYMENT"
  ELSE IF claim[OrderOf[a]] = a THEN status[OrderOf[a]]
  ELSE "NOT_FOUND"

--------------------------------------------------------------------------------
(* catalog_db transactions *)

InStockBug(o) == TRUE

InStock(o) == \A s \in SKUs : available[s] >= Quantity[o][s]

\* Every SKU is held, or none is.
HoldStock(a) ==
  /\ reservation[a] = "none"
  /\ InStock(OrderOf[a])
  /\ available' = [s \in SKUs |-> available[s] - Quantity[OrderOf[a]][s]]
  /\ reservation' = [reservation EXCEPT ![a] = "RESERVED"]
  /\ UNCHANGED <<expToken, consumed>>

RestoredStock(a) == [s \in SKUs |-> available[s] + Quantity[OrderOf[a]][s]]

--------------------------------------------------------------------------------
(* PayWallet *)

Goto(a, pc) == pay' = [pay EXCEPT ![a] = pc]

\* ClaimPayment replays a PAID order, refuses a claimed one, claims a pending one.
\* A claimed order's ReserveStock request is on its way from here on.
ClaimPayment(a) ==
  LET o == OrderOf[a] IN
  /\ pay[a] = "idle"
  /\ \/ /\ status[o] = "PAID"
        /\ Goto(a, "PAID")
        /\ UNCHANGED <<status, claim, reserveRequests>>
     \/ /\ status[o] = "PAYMENT_PROCESSING"
        /\ Goto(a, "IN_PROGRESS")
        /\ UNCHANGED <<status, claim, reserveRequests>>
     \/ /\ status[o] = "PENDING_PAYMENT"
        /\ status' = [status EXCEPT ![o] = "PAYMENT_PROCESSING"]
        /\ claim' = [claim EXCEPT ![o] = a]
        /\ reserveRequests' = reserveRequests \cup {a}
        /\ Goto(a, "reserving")
  /\ UNCHANGED <<recToken, history, balance, ledger, outbox, catalogVars,
                 releaseRequests, topic, rec, exp>>

\* product-service runs a ReserveStock request.  The caller hears the answer only
\* if it still waits and the reply is not lost; the transaction commits regardless.
\* A request for a known reservation is a replay and changes nothing.
ServeReserveStock(a) ==
  LET Reply(pc) == \/ pay[a] = "reserving" /\ Goto(a, pc)
                   \/ UNCHANGED pay
  IN
  /\ a \in reserveRequests
  /\ \/ HoldStock(a) /\ Reply("settling")
     \/ /\ reservation[a] = "none"
        /\ ~InStock(OrderOf[a])
        /\ Reply("resetting")
        /\ UNCHANGED catalogVars
     \/ /\ reservation[a] # "none"
        /\ Reply(IF reservation[a] = "RESERVED" THEN "settling" ELSE "FAILED")
        /\ UNCHANGED catalogVars
  /\ UNCHANGED <<tradeVars, netVars, rec, exp>>

\* The settlement phase of PayWallet.
PaySettle(a) ==
  LET o == OrderOf[a] IN
  /\ pay[a] = "settling"
  /\ \/ SettleWalletPayment(o, a) /\ Goto(a, "PAID")
     \/ /\ status[o] = "PAID"
        /\ Goto(a, "PAID")
        /\ UNCHANGED tradeVars
     \/ /\ ClaimMatches(o, a)
        /\ ~CanDebit(o)
        /\ Goto(a, "reverting")
        /\ UNCHANGED tradeVars
     \/ /\ status[o] # "PAID"
        /\ ~ClaimMatches(o, a)
        /\ Goto(a, "IN_PROGRESS")
        /\ UNCHANGED tradeVars
  /\ UNCHANGED <<catalogVars, netVars, rec, exp>>

\* Answers without looking at the CAS result.
PayResetBug(a) ==
  LET o == OrderOf[a] IN
  /\ pay[a] \in {"resetting", "reverting"}
  /\ Goto(a, IF pay[a] = "resetting" THEN "OUT_OF_STOCK" ELSE "releasing")
  /\ ResetClaim(o, a, FALSE) \/ (~ClaimMatches(o, a) /\ UNCHANGED tradeVars)
  /\ UNCHANGED <<catalogVars, netVars, rec, exp>>

\* ResetPaymentClaim after OUT_OF_STOCK ("resetting") or INSUFFICIENT_BALANCE
\* ("reverting"); a CAS that misses means somebody else moved the order.
PayReset(a) ==
  LET o == OrderOf[a] IN
  /\ pay[a] \in {"resetting", "reverting"}
  /\ \/ /\ ResetClaim(o, a, FALSE)
        /\ Goto(a, IF pay[a] = "resetting" THEN "OUT_OF_STOCK" ELSE "releasing")
     \/ /\ ~ClaimMatches(o, a)
        /\ Goto(a, "rereading")
        /\ UNCHANGED tradeVars
  /\ UNCHANGED <<catalogVars, netVars, rec, exp>>

\* The best-effort ReleaseReservation, sent only after the reset committed.
PayRelease(a) ==
  /\ pay[a] = "releasing"
  /\ releaseRequests' = releaseRequests \cup {a}
  /\ Goto(a, "INSUFFICIENT_BALANCE")
  /\ UNCHANGED <<tradeVars, catalogVars, reserveRequests, topic, rec, exp>>

\* paymentAfterFailedReset: answer with whatever state the order is in now.
PayReread(a) ==
  /\ pay[a] = "rereading"
  /\ Goto(a, CASE status[OrderOf[a]] = "PAID" -> "PAID"
               [] status[OrderOf[a]] = "PAYMENT_PROCESSING" -> "IN_PROGRESS"
               [] OTHER -> "FAILED")
  /\ UNCHANGED <<tradeVars, catalogVars, netVars, rec, exp>>

\* The call ends without an answer: an RPC timeout, a database error or a crash of
\* order-service.  Whatever was committed, the claim included, stays.
PayAbandon(a) ==
  /\ pay[a] \in PayStep
  /\ Goto(a, "FAILED")
  /\ UNCHANGED <<tradeVars, catalogVars, netVars, rec, exp>>

\* A replayed release restores the stock again.
ServeReleaseReservationBug(a) ==
  /\ a \in releaseRequests
  /\ reservation[a] \in {"RESERVED", "RELEASED"}
  /\ available' = RestoredStock(a)
  /\ reservation' = [reservation EXCEPT ![a] = "RELEASED"]
  /\ UNCHANGED <<tradeVars, expToken, consumed, netVars, procVars>>

\* product-service runs a ReleaseReservation request: stock returns exactly once.
ServeReleaseReservation(a) ==
  /\ a \in releaseRequests
  /\ reservation[a] = "RESERVED"
  /\ available' = RestoredStock(a)
  /\ reservation' = [reservation EXCEPT ![a] = "RELEASED"]
  /\ UNCHANGED <<tradeVars, expToken, consumed, netVars, procVars>>

--------------------------------------------------------------------------------
(* The payment recovery worker *)

RecGoto(w, pc) == rec' = [rec EXCEPT ![w].pc = pc]
RecIdle(w) == rec' = [rec EXCEPT ![w] = Idle]
OrderUnder(w) == OrderOf[rec[w].attempt]

\* LeaseStale: a claimed order whose lease, if any, ran out.
RecLease(w, o) ==
  /\ rec[w] = Idle
  /\ status[o] = "PAYMENT_PROCESSING"
  /\ recToken' = [recToken EXCEPT ![o] = w]
  /\ rec' = [rec EXCEPT ![w] = [pc |-> "query", attempt |-> claim[o]]]
  /\ UNCHANGED <<status, claim, history, balance, ledger, outbox,
                 catalogVars, netVars, pay, exp>>

\* A reservation that was never made is waited for.
ReconcileBug(a) ==
  CASE reservation[a] = "RELEASED" -> "reset"
    [] reservation[a] = "RESERVED" -> "settle"
    [] OTHER -> "done"

\* reconcile: what GetReservation says of the attempt decides the next step.
Reconcile(a) ==
  CASE reservation[a] \in {"none", "RELEASED"} -> "reset"
    [] reservation[a] = "RESERVED" -> "settle"
    [] reservation[a] = "CONFIRMED" -> "done"

RecQuery(w) ==
  /\ rec[w].pc = "query"
  /\ RecGoto(w, Reconcile(rec[w].attempt))
  /\ UNCHANGED <<tradeVars, catalogVars, netVars, pay, exp>>

\* SettleRecovered settles the same attempt; it never reserves and never claims.
RecSettle(w) ==
  LET a == rec[w].attempt
      o == OrderUnder(w)
  IN
  /\ rec[w].pc = "settle"
  /\ \/ SettleWalletPayment(o, a) /\ RecGoto(w, "done")
     \/ /\ ClaimMatches(o, a)
        /\ ~CanDebit(o)
        /\ RecGoto(w, "resetRelease")
        /\ UNCHANGED tradeVars
     \/ /\ ~ClaimMatches(o, a)
        /\ RecGoto(w, "done")
        /\ UNCHANGED tradeVars
  /\ UNCHANGED <<catalogVars, netVars, pay, exp>>

\* Reset, fenced by the lease token; a miss ends the pass.
RecReset(w) ==
  LET a == rec[w].attempt
      o == OrderUnder(w)
  IN
  /\ rec[w].pc \in {"reset", "resetRelease"}
  /\ \/ /\ recToken[o] = w
        /\ ResetClaim(o, a, TRUE)
        /\ RecGoto(w, IF rec[w].pc = "reset" THEN "done" ELSE "release")
     \/ /\ ~(recToken[o] = w /\ ClaimMatches(o, a))
        /\ RecIdle(w)
        /\ UNCHANGED tradeVars
  /\ UNCHANGED <<catalogVars, netVars, pay, exp>>

\* The best-effort release of the reservation of a reset attempt.
RecRelease(w) ==
  /\ rec[w].pc = "release"
  /\ releaseRequests' = releaseRequests \cup {rec[w].attempt}
  /\ RecGoto(w, "done")
  /\ UNCHANGED <<tradeVars, catalogVars, reserveRequests, topic, pay, exp>>

\* Done gives the lease back if the claim and the token are still this worker's.
RecDone(w) ==
  LET o == OrderUnder(w) IN
  /\ rec[w].pc = "done"
  /\ recToken' = IF ClaimMatches(o, rec[w].attempt) /\ recToken[o] = w
                 THEN [recToken EXCEPT ![o] = None] ELSE recToken
  /\ RecIdle(w)
  /\ UNCHANGED <<status, claim, history, balance, ledger, outbox,
                 catalogVars, netVars, pay, exp>>

\* A failed lookup or settlement gives the lease back.
RecError(w) ==
  /\ rec[w].pc \in {"query", "settle"}
  /\ RecGoto(w, "done")
  /\ UNCHANGED <<tradeVars, catalogVars, netVars, pay, exp>>

\* A crash, or a failed reset or Done: the lease stays until it runs out.
RecCrash(w) ==
  /\ rec[w] # Idle
  /\ RecIdle(w)
  /\ UNCHANGED <<tradeVars, catalogVars, netVars, pay, exp>>

--------------------------------------------------------------------------------
(* The reservation expiry worker *)

ExpGoto(w, pc) == exp' = [exp EXCEPT ![w].pc = pc]
ExpIdle(w) == exp' = [exp EXCEPT ![w] = Idle]

\* WHERE status = 'RESERVED' AND expiry_lease_token = ?
ExpFenced(w) ==
  /\ reservation[exp[w].attempt] = "RESERVED"
  /\ expToken[exp[w].attempt] = w

\* LeaseExpired: an expired reservation whose lease and retry delay, if any, ran out.
ExpLease(w, a) ==
  /\ exp[w] = Idle
  /\ reservation[a] = "RESERVED"
  /\ expToken' = [expToken EXCEPT ![a] = w]
  /\ exp' = [exp EXCEPT ![w] = [pc |-> "lookup", attempt |-> a]]
  /\ UNCHANGED <<tradeVars, available, reservation, consumed, netVars, pay, rec>>

\* Confirms whatever is not known to be unpaid.
OnSettlementBug(answer) == IF answer = "PENDING_PAYMENT" THEN "release" ELSE "confirm"

\* RunOnce: what is done about an answer.  An unknown state is never a release.
OnSettlement(answer) ==
  CASE answer = "PAID" -> "confirm"
    [] answer = "PENDING_PAYMENT" -> "release"
    [] OTHER -> "retry"

\* GetPaymentSettlementStatus answered.
ExpLookup(w) ==
  /\ exp[w].pc = "lookup"
  /\ ExpGoto(w, OnSettlement(PaymentSettlementStatus(exp[w].attempt)))
  /\ UNCHANGED <<tradeVars, catalogVars, netVars, pay, rec>>

\* The lookup failed or timed out: keep the reservation.
ExpLookupFails(w) ==
  /\ exp[w].pc = "lookup"
  /\ ExpGoto(w, "retry")
  /\ UNCHANGED <<tradeVars, catalogVars, netVars, pay, rec>>

ExpConfirm(w) ==
  /\ exp[w].pc = "confirm"
  /\ \/ /\ ExpFenced(w)
        /\ reservation' = [reservation EXCEPT ![exp[w].attempt] = "CONFIRMED"]
        /\ expToken' = [expToken EXCEPT ![exp[w].attempt] = None]
     \/ ~ExpFenced(w) /\ UNCHANGED <<reservation, expToken>>
  /\ ExpIdle(w)
  /\ UNCHANGED <<tradeVars, available, consumed, netVars, pay, rec>>

ExpRelease(w) ==
  /\ exp[w].pc = "release"
  /\ \/ /\ ExpFenced(w)
        /\ available' = RestoredStock(exp[w].attempt)
        /\ reservation' = [reservation EXCEPT ![exp[w].attempt] = "RELEASED"]
        /\ expToken' = [expToken EXCEPT ![exp[w].attempt] = None]
     \/ ~ExpFenced(w) /\ UNCHANGED <<available, reservation, expToken>>
  /\ ExpIdle(w)
  /\ UNCHANGED <<tradeVars, consumed, netVars, pay, rec>>

ExpRetry(w) ==
  /\ exp[w].pc = "retry"
  /\ expToken' = IF ExpFenced(w) THEN [expToken EXCEPT ![exp[w].attempt] = None]
                 ELSE expToken
  /\ ExpIdle(w)
  /\ UNCHANGED <<tradeVars, available, reservation, consumed, netVars, pay, rec>>

ExpCrash(w) ==
  /\ exp[w] # Idle
  /\ ExpIdle(w)
  /\ UNCHANGED <<tradeVars, catalogVars, netVars, pay, rec>>

--------------------------------------------------------------------------------
(* Outbox, Kafka and the confirmation consumer *)

\* The outbox worker publishes a committed event; it may stop before it records
\* the publication, and then publishes it again.  OutboxWorker has the detail.
PublishConfirmation(a) ==
  /\ outbox[a] = "PENDING"
  /\ topic' = topic \cup {a}
  /\ outbox' \in {outbox, [outbox EXCEPT ![a] = "PUBLISHED"]}
  /\ UNCHANGED <<status, claim, recToken, history, balance, ledger,
                 catalogVars, reserveRequests, releaseRequests, procVars>>

\* ConfirmConsumed: consumption row and confirmation in one transaction.  A message
\* may be delivered again (a no-op once consumed), out of order, late or never.
ConfirmConsumed(a) ==
  /\ a \in topic
  /\ a \notin consumed
  /\ reservation[a] \in {"RESERVED", "CONFIRMED"}
  /\ consumed' = consumed \cup {a}
  /\ reservation' = [reservation EXCEPT ![a] = "CONFIRMED"]
  /\ UNCHANGED <<tradeVars, available, expToken, netVars, procVars>>

--------------------------------------------------------------------------------

PayWallet(a) ==
  \/ ClaimPayment(a) \/ PaySettle(a) \/ PayReset(a)
  \/ PayRelease(a) \/ PayReread(a) \/ PayAbandon(a)

RecoveryWorker(w) ==
  \/ (\E o \in Orders : RecLease(w, o)) \/ RecQuery(w) \/ RecSettle(w) \/ RecReset(w)
  \/ RecRelease(w) \/ RecDone(w) \/ RecError(w) \/ RecCrash(w)

ExpiryWorker(w) ==
  \/ (\E a \in Attempts : ExpLease(w, a)) \/ ExpLookup(w) \/ ExpLookupFails(w) \/ ExpConfirm(w)
  \/ ExpRelease(w) \/ ExpRetry(w) \/ ExpCrash(w)

Next ==
  \/ \E a \in Attempts :
       \/ PayWallet(a)
       \/ ServeReserveStock(a)
       \/ ServeReleaseReservation(a)
       \/ PublishConfirmation(a)
       \/ ConfirmConsumed(a)
  \/ \E w \in RecoveryWorkers : RecoveryWorker(w)
  \/ \E w \in ExpiryWorkers : ExpiryWorker(w)

Spec == Init /\ [][Next]_vars

\* Both pollers run for ever: Run swallows a failed pass.  Their dependency calls
\* fail only for a while, so one tried again and again succeeds; and a pass leases
\* every due row, for fewer than BatchSize are due at a time and a reservation that
\* was put off waits for next_retry_at.  Nothing is assumed of PayWallet callers, of
\* deliveries to product-service, of the outbox or of Kafka.
Fairness ==
  /\ \A w \in RecoveryWorkers :
       /\ WF_vars(RecRelease(w)) /\ WF_vars(RecDone(w))
       /\ SF_vars(RecQuery(w)) /\ SF_vars(RecSettle(w)) /\ SF_vars(RecReset(w))
       /\ \A o \in Orders : SF_vars(RecLease(w, o))
  /\ \A w \in ExpiryWorkers :
       /\ WF_vars(ExpRetry(w))
       /\ SF_vars(ExpLookup(w)) /\ SF_vars(ExpConfirm(w)) /\ SF_vars(ExpRelease(w))
       /\ \A a \in Attempts : SF_vars(ExpLease(w, a))

FairSpec == Spec /\ Fairness

--------------------------------------------------------------------------------
(* Properties *)

PaidBy(o, a) == status[o] = "PAID" /\ claim[o] = a

\* A reservation that still takes stock off the shelf.
Held(a) == reservation[a] \in {"RESERVED", "CONFIRMED"}

HeldAttempts == {a \in Attempts : Held(a)}
PaidOrders == {o \in Orders : status[o] = "PAID"}

\* A paid order never loses its stock: whatever a paused expiry worker, a late
\* ReleaseReservation or a second recovery worker does, the reservation of the
\* attempt that SettleWalletPayment settled is held or confirmed.
PaidHoldsStock ==
  \A o \in Orders : status[o] = "PAID" => claim[o] \in Attempts /\ Held(claim[o])

\* ConfirmConsumed and ConfirmExpired only ever confirm the attempt that paid its
\* order; reconcile relies on it ("a confirmed reservation implies a prior PAID
\* settlement").  So an order sells its stock at most once.
ConfirmedIsPaid ==
  \A a \in Attempts : reservation[a] = "CONFIRMED" => PaidBy(OrderOf[a], a)

\* Stock is given back only for an attempt that the order has already let go of
\* (ResetPaymentClaim and Reset commit before anything is released), so no stale
\* settlement of that attempt can still succeed.
ReleasedWasReset ==
  \A a \in Attempts : reservation[a] = "RELEASED" =>
    a \in history /\ claim[OrderOf[a]] # a

\* Every unit is on the shelf or in exactly one held reservation: duplicated and
\* late ReserveStock, ReleaseReservation and expiry passes neither lose nor mint stock.
StockConserved ==
  \A s \in SKUs :
    InitialStock[s] = available[s]
      + SumFunctionOnSet([a \in Attempts |-> Quantity[OrderOf[a]][s]], HeldAttempts)

\* A wallet has paid for exactly its PAID orders, each once, and the ledger names
\* those that moved money, although SettleWalletPayment is run by PayWallet and by
\* any number of recovery workers.
MoneyConserved ==
  /\ \A u \in Users :
       InitialBalance[u] = balance[u]
         + SumFunctionOnSet(Total, {o \in PaidOrders : UserOf[o] = u})
  /\ ledger = {o \in PaidOrders : Total[o] > 0}

\* PayWallet's definite answers are true and final: PAID is a paid order, and
\* OUT_OF_STOCK or INSUFFICIENT_BALANCE an attempt that can never be charged.
AnswersTruthful ==
  \A a \in Attempts :
    /\ pay[a] = "PAID" => status[OrderOf[a]] = "PAID"
    /\ pay[a] \in {"OUT_OF_STOCK", "INSUFFICIENT_BALANCE"} =>
         a \in history /\ ~PaidBy(OrderOf[a], a)

\* The expiry worker acts on an answer of GetPaymentSettlementStatus some time after
\* it was read.  That is safe because the two answers it acts on never change.
VerdictStable ==
  [][\A a \in Attempts :
       PaymentSettlementStatus(a) \in {"PAID", "PENDING_PAYMENT"} =>
         PaymentSettlementStatus(a)' = PaymentSettlementStatus(a)]_vars

\* A PayWallet call that died leaves nothing behind for ever: once the calls have
\* stopped, every order is paid or payable again and every reservation confirmed or
\* released, even if no confirmation message and no release request ever arrives.
Settled ==
  /\ \A o \in Orders : status[o] # "PAYMENT_PROCESSING"
  /\ \A a \in Attempts : reservation[a] # "RESERVED"

SagaSettles == <>[]Settled

\* Why it works: the attempt an order is claimed by was never reset, and everything
\* else that names an attempt - requests, reservations, events, the decisions the
\* workers remember - agrees with where that attempt stands.

\* Claimed at some time: only then may anything exist for the attempt.
WasClaimed(a) == a \in history \/ claim[OrderOf[a]] = a

ClaimInv ==
  \A o \in Orders :
    /\ status[o] = "PENDING_PAYMENT" <=> claim[o] = None
    /\ claim[o] # None => OrderOf[claim[o]] = o /\ claim[o] \notin history

AttemptInv ==
  \A a \in Attempts :
    /\ WasClaimed(a) => pay[a] # "idle"
    /\ a \in reserveRequests => WasClaimed(a)
    /\ reservation[a] # "none" => a \in reserveRequests
    /\ pay[a] = "settling" => reservation[a] # "none"

ReleaseInv ==
  \A a \in Attempts :
    a \in releaseRequests \/ pay[a] = "releasing" \/ reservation[a] = "RELEASED" =>
      a \in history

ConfirmInv ==
  \A a \in Attempts :
    outbox[a] # "none" \/ a \in topic \/ reservation[a] = "CONFIRMED" =>
      PaidBy(OrderOf[a], a)

WorkerInv ==
  /\ \A w \in RecoveryWorkers :
       /\ rec[w].pc = "settle" => reservation[rec[w].attempt] # "none"
       /\ rec[w].pc = "release" => rec[w].attempt \in history
  /\ \A w \in ExpiryWorkers :
       /\ exp[w].pc = "confirm" => PaidBy(OrderOf[exp[w].attempt], exp[w].attempt)
       /\ exp[w].pc = "release" => exp[w].attempt \in history

\* The inductive invariant that the safety theorems rest on: no worker, message or
\* row ever contradicts the order's claim and history.
SagaInv ==
  /\ TypeOK
  /\ ClaimInv
  /\ AttemptInv
  /\ ReleaseInv
  /\ ConfirmInv
  /\ WorkerInv
  /\ PaidHoldsStock
  /\ AnswersTruthful

\* At any time finitely many reservations hold stock and finitely many orders are
\* paid, so that what they add up to is a number; with that the two balances are kept
\* by every step.
SumInv ==
  /\ IsFiniteSet(HeldAttempts)
  /\ IsFiniteSet(PaidOrders)
  /\ StockConserved
  /\ MoneyConserved

\* What the steps over the two databases add up to: one purchase at a time, as if
\* wallet, order and stock shared a single transaction.
PurchaseHold ==
  [a \in Attempts |-> CASE reservation[a] = "none" -> "free"
                        [] reservation[a] = "RESERVED" -> "held"
                        [] reservation[a] = "CONFIRMED" -> "sold"
                        [] OTHER -> "returned"]

PurchasePaidBy == [o \in Orders |-> IF status[o] = "PAID" THEN claim[o] ELSE None]

Purchase == INSTANCE AtomicPurchase WITH
  paidBy <- PurchasePaidBy, funds <- balance, hold <- PurchaseHold, shelf <- available

ImplementsPurchase == Purchase!Spec

================================================================================
