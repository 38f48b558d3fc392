--------------------------- MODULE PaymentSagaProofs ---------------------------
(***************************************************************************)
(* Safety of PaymentSaga for every set of orders, attempts, users, SKUs    *)
(* and workers, checked by TLAPS.                                          *)
(***************************************************************************)
EXTENDS PaymentSaga, NumberTheorems

--------------------------------------------------------------------------------
(* Types *)

LEMMA TypeInit == Init => TypeOK
  BY SagaConstants DEF Init, TypeOK, OrderStatus, ReservationStatus, OutboxStatus,
                       RecWorker, ExpWorker, Idle

\* The two trade_db transactions that PayWallet and the recovery worker share keep
\* trade_db in its type.
TradeTypeOK ==
  /\ status \in [Orders -> OrderStatus]
  /\ claim \in [Orders -> Attempts \cup {None}]
  /\ recToken \in [Orders -> RecoveryWorkers \cup {None}]
  /\ history \subseteq Attempts
  /\ balance \in [Users -> Nat]
  /\ ledger \subseteq Orders
  /\ outbox \in [Attempts -> OutboxStatus]

LEMMA TypeSettle ==
  ASSUME TypeOK, NEW o \in Orders, NEW a \in Attempts, SettleWalletPayment(o, a)
  PROVE  TradeTypeOK'
<1>1. balance' \in [Users -> Nat]
  <2>1. UserOf[o] \in Users /\ Total[o] \in Nat
    BY SagaConstants
  <2>2. balance \in [Users -> Nat]
    BY DEF TypeOK
  <2>3. balance[UserOf[o]] - Total[o] \in Nat
    BY <2>1, <2>2 DEF SettleWalletPayment, CanDebit
  <2> QED  BY <2>2, <2>3 DEF SettleWalletPayment
<1>2. /\ status' \in [Orders -> OrderStatus]
      /\ ledger' \subseteq Orders
      /\ outbox' \in [Attempts -> OutboxStatus]
  BY DEF SettleWalletPayment, TypeOK, OrderStatus, OutboxStatus
<1> QED  BY <1>1, <1>2 DEF TradeTypeOK, TypeOK, SettleWalletPayment

LEMMA TypeReset ==
  ASSUME TypeOK, NEW o \in Orders, NEW a \in Attempts, NEW clearsToken \in BOOLEAN,
         ResetClaim(o, a, clearsToken)
  PROVE  TradeTypeOK'
  BY DEF ResetClaim, TradeTypeOK, TypeOK, OrderStatus

\* A step of a PayWallet call, of either database for it, or of the event path
\* keeps every variable in its type.
LEMMA TypePayment ==
  ASSUME TypeOK, NEW a \in Attempts,
         \/ PayWallet(a)
         \/ ServeReserveStock(a)
         \/ ServeReleaseReservation(a)
         \/ PublishConfirmation(a)
         \/ ConfirmConsumed(a)
  PROVE  TypeOK'
<1> USE SagaConstants DEF TypeOK, vars, tradeVars, catalogVars, netVars, procVars
<1> USE DEF OrderStatus, ReservationStatus, OutboxStatus
<1>g. \A pc \in PayStep \cup PayAnswer :
        Goto(a, pc) => pay' \in [Attempts -> {"idle"} \cup PayStep \cup PayAnswer]
  BY DEF Goto
<1> USE <1>g DEF PayStep, PayAnswer
<1>o. OrderOf[a] \in Orders /\ UserOf[OrderOf[a]] \in Users
  OBVIOUS
<1>1. CASE ClaimPayment(a)
  <2>1. CASE status[OrderOf[a]] = "PENDING_PAYMENT"
    <3>1. /\ status' \in [Orders -> OrderStatus]
          /\ claim' \in [Orders -> Attempts \cup {None}]
          /\ reserveRequests' \subseteq Attempts
      <4>1. /\ status' = [status EXCEPT ![OrderOf[a]] = "PAYMENT_PROCESSING"]
            /\ claim' = [claim EXCEPT ![OrderOf[a]] = a]
            /\ reserveRequests' = reserveRequests \cup {a}
        BY <1>1, <2>1 DEF ClaimPayment
      <4> QED  BY <1>o, <4>1
    <3>2. pay' \in [Attempts -> {"idle"} \cup PayStep \cup PayAnswer]
      BY <1>1, <2>1 DEF ClaimPayment
    <3>3. UNCHANGED <<recToken, history, balance, ledger, outbox, catalogVars,
                      releaseRequests, topic, rec, exp>>
      BY <1>1 DEF ClaimPayment
    <3> QED  BY <3>1, <3>2, <3>3
  <2>2. CASE status[OrderOf[a]] # "PENDING_PAYMENT"
    <3>1. pay' \in [Attempts -> {"idle"} \cup PayStep \cup PayAnswer]
      BY <1>1, <2>2, <1>g DEF ClaimPayment
    <3>2. UNCHANGED <<tradeVars, catalogVars, netVars, rec, exp>>
      BY <1>1, <2>2 DEF ClaimPayment
    <3> QED  BY <3>1, <3>2
  <2> QED  BY <2>1, <2>2
<1>2. CASE PaySettle(a)
  <2>1. CASE SettleWalletPayment(OrderOf[a], a) /\ Goto(a, "PAID")
    <3>1. TradeTypeOK'
      BY <1>o, <2>1, TypeSettle
    <3>2. pay' \in [Attempts -> {"idle"} \cup PayStep \cup PayAnswer]
      BY <2>1
    <3>3. UNCHANGED <<catalogVars, netVars, rec, exp>>
      BY <1>2 DEF PaySettle
    <3> QED  BY <3>1, <3>2, <3>3 DEF TradeTypeOK
  <2>2. CASE UNCHANGED tradeVars
    <3>1. pay' \in [Attempts -> {"idle"} \cup PayStep \cup PayAnswer]
      BY <1>2, <2>2 DEF PaySettle
    <3>2. UNCHANGED <<catalogVars, netVars, rec, exp>>
      BY <1>2 DEF PaySettle
    <3> QED  BY <2>2, <3>1, <3>2
  <2> QED  BY <1>2, <2>1, <2>2 DEF PaySettle
<1>3. CASE PayReset(a)
  <2>1. CASE ResetClaim(OrderOf[a], a, FALSE)
    BY <1>o, <1>3, <2>1 DEF PayReset, ResetClaim
  <2>2. CASE UNCHANGED tradeVars
    BY <1>3, <2>2 DEF PayReset
  <2> QED  BY <1>3, <2>1, <2>2 DEF PayReset
<1>4. CASE PayRelease(a)  BY <1>4 DEF PayRelease
<1>5. CASE PayReread(a)  BY <1>5 DEF PayReread
<1>6. CASE PayAbandon(a)  BY <1>6 DEF PayAbandon
<1>7. CASE ServeReserveStock(a)
  <2>1. pay' \in [Attempts -> {"idle"} \cup PayStep \cup PayAnswer]
    BY <1>7 DEF ServeReserveStock
  <2>2. /\ available' \in [SKUs -> Nat]
        /\ reservation' \in [Attempts -> ReservationStatus]
        /\ UNCHANGED <<expToken, consumed>>
    <3>1. CASE HoldStock(a)
      <4>1. \A s \in SKUs : Quantity[OrderOf[a]][s] \in Nat
        BY <1>o
      <4>2. \A s \in SKUs : available[s] - Quantity[OrderOf[a]][s] \in Nat
        BY <3>1, <4>1 DEF HoldStock, InStock
      <4> QED  BY <3>1, <4>2 DEF HoldStock
    <3>2. CASE UNCHANGED catalogVars
      BY <3>2
    <3> QED  BY <1>7, <3>1, <3>2 DEF ServeReserveStock
  <2> QED  BY <1>7, <2>1, <2>2 DEF ServeReserveStock
<1>8. CASE ServeReleaseReservation(a)
  BY <1>8 DEF ServeReleaseReservation, RestoredStock
<1>9. CASE PublishConfirmation(a)  BY <1>9 DEF PublishConfirmation
<1>10. CASE ConfirmConsumed(a)  BY <1>10 DEF ConfirmConsumed
<1> QED
  BY <1>1, <1>2, <1>3, <1>4, <1>5, <1>6, <1>7, <1>8, <1>9, <1>10 DEF PayWallet

\* A busy recovery worker holds an attempt, and moving it to another step keeps that.
LEMMA RecShape ==
  ASSUME TypeOK, NEW w \in RecoveryWorkers
  PROVE  /\ rec[w].pc # "idle" => rec[w].attempt \in Attempts /\ rec[w].pc \in RecStep
         /\ \A pc \in RecStep : rec[w].pc # "idle" /\ RecGoto(w, pc) =>
              /\ rec' \in [RecoveryWorkers -> RecWorker]
              /\ rec'[w].pc = pc /\ rec'[w].attempt = rec[w].attempt
         /\ RecIdle(w) => rec' \in [RecoveryWorkers -> RecWorker] /\ rec'[w].pc = "idle"
<1>1. rec \in [RecoveryWorkers -> RecWorker]
  BY DEF TypeOK
<1>2. rec[w].pc # "idle" => rec[w] \in [pc : RecStep, attempt : Attempts]
  BY <1>1 DEF RecWorker
<1>3. Idle \in RecWorker
  BY DEF RecWorker, Idle
<1>4. ASSUME NEW pc \in RecStep, rec[w].pc # "idle", RecGoto(w, pc)
      PROVE  /\ rec' \in [RecoveryWorkers -> RecWorker]
             /\ rec'[w].pc = pc /\ rec'[w].attempt = rec[w].attempt
  <2>1. /\ [rec[w] EXCEPT !.pc = pc] \in RecWorker
        /\ [rec[w] EXCEPT !.pc = pc].pc = pc
        /\ [rec[w] EXCEPT !.pc = pc].attempt = rec[w].attempt
    BY <1>2, <1>4 DEF RecWorker
  <2> QED  BY <1>1, <1>4, <2>1 DEF RecGoto
<1> QED  BY <1>1, <1>2, <1>3, <1>4 DEF RecIdle, Idle

\* The same of an expiry worker.
LEMMA ExpShape ==
  ASSUME TypeOK, NEW w \in ExpiryWorkers
  PROVE  /\ exp[w].pc # "idle" => exp[w].attempt \in Attempts /\ exp[w].pc \in ExpStep
         /\ \A pc \in ExpStep : exp[w].pc # "idle" /\ ExpGoto(w, pc) =>
              /\ exp' \in [ExpiryWorkers -> ExpWorker]
              /\ exp'[w].pc = pc /\ exp'[w].attempt = exp[w].attempt
         /\ ExpIdle(w) => exp' \in [ExpiryWorkers -> ExpWorker] /\ exp'[w].pc = "idle"
<1>1. exp \in [ExpiryWorkers -> ExpWorker]
  BY DEF TypeOK
<1>2. exp[w].pc # "idle" => exp[w] \in [pc : ExpStep, attempt : Attempts]
  BY <1>1 DEF ExpWorker
<1>3. Idle \in ExpWorker
  BY DEF ExpWorker, Idle
<1>4. ASSUME NEW pc \in ExpStep, exp[w].pc # "idle", ExpGoto(w, pc)
      PROVE  /\ exp' \in [ExpiryWorkers -> ExpWorker]
             /\ exp'[w].pc = pc /\ exp'[w].attempt = exp[w].attempt
  <2>1. /\ [exp[w] EXCEPT !.pc = pc] \in ExpWorker
        /\ [exp[w] EXCEPT !.pc = pc].pc = pc
        /\ [exp[w] EXCEPT !.pc = pc].attempt = exp[w].attempt
    BY <1>2, <1>4 DEF ExpWorker
  <2> QED  BY <1>1, <1>4, <2>1 DEF ExpGoto
<1> QED  BY <1>1, <1>2, <1>3, <1>4 DEF ExpIdle, Idle

\* A step of a recovery worker keeps every variable in its type.
LEMMA TypeRecovery ==
  ASSUME TypeOK, ClaimInv, NEW w \in RecoveryWorkers, RecoveryWorker(w)
  PROVE  TypeOK'
<1> DEFINE a == rec[w].attempt
<1> USE DEF TypeOK, OrderStatus, OutboxStatus, tradeVars, catalogVars, netVars
<1>s. /\ rec[w].pc # "idle" => a \in Attempts /\ OrderUnder(w) \in Orders
      /\ OrderUnder(w) = OrderOf[a]
      /\ \A o \in Orders : UserOf[o] \in Users
  BY SagaConstants, RecShape DEF OrderUnder
<1>1. ASSUME NEW o \in Orders, RecLease(w, o)  PROVE TypeOK'
  <2>1. claim[o] \in Attempts
    BY <1>1 DEF RecLease, ClaimInv
  <2>2. [pc |-> "query", attempt |-> claim[o]] \in RecWorker
    BY <2>1 DEF RecWorker, RecStep
  <2> QED  BY <1>1, <2>2 DEF RecLease
<1>2. CASE RecQuery(w)
  <2>1. a \in Attempts /\ Reconcile(a) \in RecStep
    BY <1>2, <1>s DEF RecQuery, Reconcile, RecStep, ReservationStatus
  <2> QED  BY <1>2, <2>1, RecShape DEF RecQuery
<1>3. CASE RecSettle(w)
  <2> DEFINE o == OrderUnder(w)
  <2>0. rec' \in [RecoveryWorkers -> RecWorker]
    BY <1>3, RecShape DEF RecSettle, RecStep
  <2>1. CASE SettleWalletPayment(o, a)
    <3>1. TradeTypeOK'
      BY <1>3, <1>s, <2>1, TypeSettle DEF RecSettle
    <3> QED  BY <1>3, <2>0, <3>1 DEF RecSettle, TradeTypeOK
  <2>2. CASE UNCHANGED tradeVars
    BY <1>3, <2>0, <2>2 DEF RecSettle
  <2> QED  BY <1>3, <2>1, <2>2 DEF RecSettle
<1>4. CASE RecReset(w)
  <2>0. rec' \in [RecoveryWorkers -> RecWorker]
    BY <1>4, RecShape DEF RecReset, RecStep
  <2>1. CASE ResetClaim(OrderUnder(w), a, TRUE)
    <3>1. a \in Attempts /\ OrderUnder(w) \in Orders
      BY <1>4, <1>s DEF RecReset
    <3> QED  BY <1>4, <2>0, <2>1, <3>1 DEF RecReset, ResetClaim
  <2>2. CASE UNCHANGED tradeVars
    BY <1>4, <2>0, <2>2 DEF RecReset
  <2> QED  BY <1>4, <2>1, <2>2 DEF RecReset
<1>5. CASE RecRelease(w)
  <2>1. rec' \in [RecoveryWorkers -> RecWorker] /\ a \in Attempts
    BY <1>5, <1>s, RecShape DEF RecRelease, RecStep
  <2> QED  BY <1>5, <2>1 DEF RecRelease
<1>6. CASE RecDone(w)
  <2>1. rec' \in [RecoveryWorkers -> RecWorker]
    BY <1>6, RecShape DEF RecDone
  <2> QED  BY <1>6, <2>1 DEF RecDone
<1>7. CASE RecError(w)
  BY <1>7, RecShape DEF RecError, RecStep
<1>8. CASE RecCrash(w)
  BY <1>8, RecShape DEF RecCrash
<1> QED
  BY <1>1, <1>2, <1>3, <1>4, <1>5, <1>6, <1>7, <1>8 DEF RecoveryWorker

\* A step of an expiry worker keeps every variable in its type.
LEMMA TypeExpiry ==
  ASSUME TypeOK, NEW w \in ExpiryWorkers, ExpiryWorker(w)
  PROVE  TypeOK'
<1> DEFINE a == exp[w].attempt
<1> USE DEF TypeOK, ReservationStatus, tradeVars, catalogVars, netVars
<1>1. ASSUME NEW b \in Attempts, ExpLease(w, b)  PROVE TypeOK'
  <2>1. [pc |-> "lookup", attempt |-> b] \in ExpWorker
    BY DEF ExpWorker, ExpStep
  <2> QED  BY <1>1, <2>1 DEF ExpLease
<1>2. CASE ExpLookup(w)
  <2>1. OnSettlement(PaymentSettlementStatus(a)) \in ExpStep
    BY DEF OnSettlement, ExpStep
  <2> QED  BY <1>2, <2>1, ExpShape DEF ExpLookup
<1>3. CASE ExpLookupFails(w)
  BY <1>3, ExpShape DEF ExpLookupFails, ExpStep
<1>4. CASE ExpConfirm(w)
  <2>1. exp' \in [ExpiryWorkers -> ExpWorker] /\ a \in Attempts
    BY <1>4, ExpShape DEF ExpConfirm
  <2> QED  BY <1>4, <2>1 DEF ExpConfirm
<1>5. CASE ExpRelease(w)
  <2>1. exp' \in [ExpiryWorkers -> ExpWorker] /\ a \in Attempts
    BY <1>5, ExpShape DEF ExpRelease
  <2>2. RestoredStock(a) \in [SKUs -> Nat]
    BY <2>1, SagaConstants DEF RestoredStock
  <2> QED  BY <1>5, <2>1, <2>2 DEF ExpRelease
<1>6. CASE ExpRetry(w)
  <2>1. exp' \in [ExpiryWorkers -> ExpWorker]
    BY <1>6, ExpShape DEF ExpRetry
  <2> QED  BY <1>6, <2>1 DEF ExpRetry
<1>7. CASE ExpCrash(w)
  BY <1>7, ExpShape DEF ExpCrash
<1> QED
  BY <1>1, <1>2, <1>3, <1>4, <1>5, <1>6, <1>7 DEF ExpiryWorker

LEMMA TypeStep ==
  ASSUME SagaInv, [Next]_vars
  PROVE  TypeOK'
<1>1. CASE Next
  <2>1. TypeOK /\ ClaimInv
    BY DEF SagaInv
  <2> QED  BY <1>1, <2>1, TypePayment, TypeRecovery, TypeExpiry DEF Next
<1>2. CASE UNCHANGED vars
  BY <1>2 DEF SagaInv, TypeOK, vars, tradeVars, catalogVars, netVars, procVars
<1> QED  BY <1>1, <1>2

--------------------------------------------------------------------------------
(* What a step can do to the two databases *)

\* The three ways orders and the history of attempts change.
Claims(a) ==
  /\ pay[a] = "idle"
  /\ status[OrderOf[a]] = "PENDING_PAYMENT"
  /\ status' = [status EXCEPT ![OrderOf[a]] = "PAYMENT_PROCESSING"]
  /\ claim' = [claim EXCEPT ![OrderOf[a]] = a]
  /\ pay' = [pay EXCEPT ![a] = "reserving"]
  /\ reserveRequests' = reserveRequests \cup {a}
  /\ UNCHANGED <<history, balance, ledger>>

Settles(a) ==
  /\ ClaimMatches(OrderOf[a], a)
  /\ reservation[a] # "none"
  /\ CanDebit(OrderOf[a])
  /\ balance' = [balance EXCEPT ![UserOf[OrderOf[a]]] = @ - Total[OrderOf[a]]]
  /\ ledger' = IF Total[OrderOf[a]] > 0 THEN ledger \cup {OrderOf[a]} ELSE ledger
  /\ status' = [status EXCEPT ![OrderOf[a]] = "PAID"]
  /\ UNCHANGED <<claim, history>>

Resets(a) ==
  /\ ClaimMatches(OrderOf[a], a)
  /\ status' = [status EXCEPT ![OrderOf[a]] = "PENDING_PAYMENT"]
  /\ claim' = [claim EXCEPT ![OrderOf[a]] = None]
  /\ history' = history \cup {a}
  /\ UNCHANGED <<balance, ledger>>

LEMMA OrderChanges ==
  ASSUME SagaInv, [Next]_vars
  PROVE  \/ UNCHANGED <<status, claim, history, balance, ledger>>
         \/ \E a \in Attempts : Claims(a) \/ Settles(a) \/ Resets(a)
<1> USE DEF tradeVars, SagaInv
<1>1. ASSUME NEW a \in Attempts, PayWallet(a)
      PROVE  \/ UNCHANGED <<status, claim, history, balance, ledger>>
             \/ Claims(a) \/ Settles(a) \/ Resets(a)
  <2>1. CASE ClaimPayment(a)  BY <2>1 DEF ClaimPayment, Claims, Goto
  <2>2. CASE PaySettle(a)
    BY <2>2 DEF PaySettle, SettleWalletPayment, Settles, AttemptInv
  <2>3. CASE PayReset(a)  BY <2>3 DEF PayReset, ResetClaim, Resets
  <2>4. CASE PayRelease(a) \/ PayReread(a) \/ PayAbandon(a)
    BY <2>4 DEF PayRelease, PayReread, PayAbandon
  <2> QED  BY <1>1, <2>1, <2>2, <2>3, <2>4 DEF PayWallet
<1>2. ASSUME NEW a \in Attempts,
             \/ ServeReserveStock(a) \/ ServeReleaseReservation(a)
             \/ PublishConfirmation(a) \/ ConfirmConsumed(a)
      PROVE  UNCHANGED <<status, claim, history, balance, ledger>>
  BY <1>2 DEF ServeReserveStock, ServeReleaseReservation, PublishConfirmation,
              ConfirmConsumed
<1>3. ASSUME NEW w \in RecoveryWorkers, RecoveryWorker(w)
      PROVE  \/ UNCHANGED <<status, claim, history, balance, ledger>>
             \/ \E a \in Attempts : Settles(a) \/ Resets(a)
  <2>1. CASE RecSettle(w)
    <3>1. rec[w].attempt \in Attempts
      BY <2>1, RecShape DEF RecSettle
    <3> QED
      BY <2>1, <3>1 DEF RecSettle, SettleWalletPayment, OrderUnder, Settles, WorkerInv
  <2>2. CASE RecReset(w)
    <3>1. rec[w].attempt \in Attempts
      BY <2>2, RecShape DEF RecReset
    <3> QED  BY <2>2, <3>1 DEF RecReset, ResetClaim, OrderUnder, Resets
  <2>3. ASSUME \/ (\E o \in Orders : RecLease(w, o)) \/ RecQuery(w)
               \/ RecRelease(w) \/ RecDone(w) \/ RecError(w) \/ RecCrash(w)
        PROVE  UNCHANGED <<status, claim, history, balance, ledger>>
    BY <2>3 DEF RecLease, RecQuery, RecRelease, RecDone, RecError, RecCrash
  <2> QED  BY <1>3, <2>1, <2>2, <2>3 DEF RecoveryWorker
<1>4. ASSUME NEW w \in ExpiryWorkers, ExpiryWorker(w)
      PROVE  UNCHANGED <<status, claim, history, balance, ledger>>
  BY <1>4 DEF ExpiryWorker, ExpLease, ExpLookup, ExpLookupFails, ExpConfirm,
              ExpRelease, ExpRetry, ExpCrash
<1>5. CASE UNCHANGED vars
  BY <1>5 DEF vars
<1> QED  BY <1>1, <1>2, <1>3, <1>4, <1>5 DEF Next

\* What never comes undone: an attempt once claimed stays known, a reset one stays
\* in the history, a paid one stays paid; and every claim is a live one.
LEMMA OrderProgress ==
  ASSUME SagaInv, [Next]_vars
  PROVE  /\ ClaimInv'
         /\ history \subseteq history'
         /\ \A a \in Attempts :
              /\ WasClaimed(a) => WasClaimed(a)'
              /\ PaidBy(OrderOf[a], a) => PaidBy(OrderOf[a], a)'
<1>0. /\ TypeOK /\ ClaimInv /\ AttemptInv
      /\ OrderOf \in [Attempts -> Orders] /\ None \notin Attempts
  BY SagaConstants DEF SagaInv
<1>1. CASE UNCHANGED <<status, claim, history, balance, ledger>>
  BY <1>0, <1>1 DEF ClaimInv, WasClaimed, PaidBy
<1>2. ASSUME NEW a \in Attempts, Claims(a)
      PROVE  /\ ClaimInv'
             /\ history \subseteq history'
             /\ \A b \in Attempts :
                  /\ WasClaimed(b) => WasClaimed(b)'
                  /\ PaidBy(OrderOf[b], b) => PaidBy(OrderOf[b], b)'
  <2>1. a \notin history
    BY <1>0, <1>2 DEF AttemptInv, WasClaimed, Claims
  <2>2. claim[OrderOf[a]] = None
    BY <1>0, <1>2 DEF ClaimInv, Claims
  <2>3. ClaimInv'
    BY <1>0, <1>2, <2>1 DEF ClaimInv, Claims, TypeOK
  <2> QED  BY <1>0, <1>2, <2>2, <2>3 DEF Claims, WasClaimed, PaidBy, TypeOK
<1>3. ASSUME NEW a \in Attempts, Settles(a)
      PROVE  /\ ClaimInv'
             /\ history \subseteq history'
             /\ \A b \in Attempts :
                  /\ WasClaimed(b) => WasClaimed(b)'
                  /\ PaidBy(OrderOf[b], b) => PaidBy(OrderOf[b], b)'
  <2>1. ClaimInv'
    BY <1>0, <1>3 DEF ClaimInv, ClaimMatches, Settles, TypeOK
  <2> QED  BY <1>0, <1>3, <2>1 DEF Settles, WasClaimed, PaidBy, TypeOK
<1>4. ASSUME NEW a \in Attempts, Resets(a)
      PROVE  /\ ClaimInv'
             /\ history \subseteq history'
             /\ \A b \in Attempts :
                  /\ WasClaimed(b) => WasClaimed(b)'
                  /\ PaidBy(OrderOf[b], b) => PaidBy(OrderOf[b], b)'
  <2>1. ClaimInv'
    BY <1>0, <1>4 DEF ClaimInv, ClaimMatches, Resets, TypeOK
  <2> QED  BY <1>0, <1>4, <2>1 DEF Resets, ClaimMatches, WasClaimed, PaidBy, TypeOK
<1> QED  BY <1>1, <1>2, <1>3, <1>4, OrderChanges

\* The three ways stock moves.
Holds(a) ==
  /\ HoldStock(a)
  /\ a \in reserveRequests

Confirms(a) ==
  /\ Held(a)
  /\ PaidBy(OrderOf[a], a)
  /\ reservation' = [reservation EXCEPT ![a] = "CONFIRMED"]
  /\ UNCHANGED available

GivesBack(a) ==
  /\ reservation[a] = "RESERVED"
  /\ a \in history
  /\ reservation' = [reservation EXCEPT ![a] = "RELEASED"]
  /\ available' = RestoredStock(a)

LEMMA StockChanges ==
  ASSUME SagaInv, [Next]_vars
  PROVE  \/ UNCHANGED <<available, reservation>>
         \/ /\ UNCHANGED tradeVars
            /\ \E a \in Attempts : Holds(a) \/ Confirms(a) \/ GivesBack(a)
<1> USE DEF catalogVars, tradeVars
<1>0. TypeOK /\ ConfirmInv /\ ReleaseInv /\ WorkerInv
  BY DEF SagaInv
<1>1. ASSUME NEW a \in Attempts, PayWallet(a)
      PROVE  UNCHANGED <<available, reservation>>
  BY <1>1 DEF PayWallet, ClaimPayment, PaySettle, PayReset, PayRelease, PayReread,
              PayAbandon
<1>2. ASSUME NEW a \in Attempts, ServeReserveStock(a)
      PROVE  UNCHANGED <<available, reservation>> \/ (UNCHANGED tradeVars /\ Holds(a))
  BY <1>2 DEF ServeReserveStock, Holds
<1>3. ASSUME NEW a \in Attempts, ServeReleaseReservation(a)
      PROVE  UNCHANGED tradeVars /\ GivesBack(a)
  BY <1>0, <1>3 DEF ServeReleaseReservation, ReleaseInv, GivesBack
<1>4. ASSUME NEW a \in Attempts, PublishConfirmation(a)
      PROVE  UNCHANGED <<available, reservation>>
  BY <1>4 DEF PublishConfirmation
<1>5. ASSUME NEW a \in Attempts, ConfirmConsumed(a)
      PROVE  UNCHANGED tradeVars /\ Confirms(a)
  BY <1>0, <1>5 DEF ConfirmConsumed, ConfirmInv, Confirms, Held
<1>6. ASSUME NEW w \in RecoveryWorkers, RecoveryWorker(w)
      PROVE  UNCHANGED <<available, reservation>>
  BY <1>6 DEF RecoveryWorker, RecLease, RecQuery, RecSettle, RecReset, RecRelease,
              RecDone, RecError, RecCrash
<1>7. ASSUME NEW w \in ExpiryWorkers, ExpiryWorker(w)
      PROVE  \/ UNCHANGED <<available, reservation>>
             \/ /\ UNCHANGED tradeVars
                /\ \E a \in Attempts : Confirms(a) \/ GivesBack(a)
  <2>1. CASE ExpConfirm(w) /\ ExpFenced(w)
    BY <1>0, <2>1, ExpShape DEF ExpConfirm, ExpFenced, WorkerInv, Confirms, Held
  <2>2. CASE ExpRelease(w) /\ ExpFenced(w)
    BY <1>0, <2>2, ExpShape DEF ExpRelease, ExpFenced, WorkerInv, GivesBack
  <2>3. CASE ~ExpFenced(w) \/ ~(ExpConfirm(w) \/ ExpRelease(w))
    BY <1>7, <2>3 DEF ExpiryWorker, ExpLease, ExpLookup, ExpLookupFails, ExpConfirm,
                      ExpRelease, ExpRetry, ExpCrash
  <2> QED  BY <2>1, <2>2, <2>3
<1>8. CASE UNCHANGED vars
  BY <1>8 DEF vars
<1> QED  BY <1>1, <1>2, <1>3, <1>4, <1>5, <1>6, <1>7, <1>8 DEF Next

\* A reservation, once written, stays written, and confirmed stays confirmed.
LEMMA StockProgress ==
  ASSUME SagaInv, [Next]_vars
  PROVE  \A a \in Attempts :
           /\ reservation[a] # "none" => reservation'[a] # "none"
           /\ reservation[a] = "CONFIRMED" => reservation'[a] = "CONFIRMED"
  BY StockChanges DEF SagaInv, TypeOK, Holds, HoldStock, Confirms, GivesBack

\* Calls only move forward, and requests are only sent for claimed attempts and
\* releases only for reset ones.
PayMoves(a) ==
  /\ pay' = [pay EXCEPT ![a] = pay'[a]]
  /\ pay'[a] \in PayStep \cup PayAnswer

LEMMA CallChanges ==
  ASSUME SagaInv, [Next]_vars
  PROVE  /\ UNCHANGED pay \/ \E a \in Attempts : PayMoves(a)
         /\ \/ UNCHANGED reserveRequests
            \/ \E a \in Attempts :
                 reserveRequests' = reserveRequests \cup {a} /\ WasClaimed(a)'
         /\ \/ UNCHANGED releaseRequests
            \/ \E a \in history' : releaseRequests' = releaseRequests \cup {a}
<1> USE DEF tradeVars, catalogVars, netVars
<1>0. TypeOK /\ ReleaseInv /\ WorkerInv /\ OrderOf \in [Attempts -> Orders]
  BY SagaConstants DEF SagaInv
<1>1. ASSUME NEW a \in Attempts, PayWallet(a)
      PROVE  /\ PayMoves(a)
             /\ \/ UNCHANGED reserveRequests
                \/ reserveRequests' = reserveRequests \cup {a} /\ WasClaimed(a)'
             /\ \/ UNCHANGED releaseRequests
                \/ a \in history' /\ releaseRequests' = releaseRequests \cup {a}
  <2> USE <1>0 DEF PayStep, PayAnswer, Goto, PayMoves, TypeOK
  <2>1. CASE ClaimPayment(a)
    BY <2>1 DEF ClaimPayment, WasClaimed
  <2>2. CASE PaySettle(a)
    BY <2>2 DEF PaySettle
  <2>3. CASE PayReset(a)
    BY <2>3 DEF PayReset
  <2>4. CASE PayRelease(a)
    BY <2>4 DEF PayRelease, ReleaseInv
  <2>5. CASE PayReread(a)
    BY <2>5 DEF PayReread
  <2>6. CASE PayAbandon(a)
    BY <2>6 DEF PayAbandon
  <2> QED  BY <1>1, <2>1, <2>2, <2>3, <2>4, <2>5, <2>6 DEF PayWallet
<1>2. ASSUME NEW a \in Attempts, ServeReserveStock(a)
      PROVE  /\ UNCHANGED pay \/ PayMoves(a)
             /\ UNCHANGED <<reserveRequests, releaseRequests>>
  BY <1>0, <1>2 DEF ServeReserveStock, Goto, PayMoves, TypeOK, PayStep, PayAnswer
<1>3. ASSUME NEW a \in Attempts,
             \/ ServeReleaseReservation(a) \/ PublishConfirmation(a)
             \/ ConfirmConsumed(a)
      PROVE  UNCHANGED <<pay, reserveRequests, releaseRequests>>
  BY <1>3 DEF ServeReleaseReservation, PublishConfirmation, ConfirmConsumed, procVars
<1>4. ASSUME NEW w \in RecoveryWorkers, RecoveryWorker(w)
      PROVE  /\ UNCHANGED <<pay, reserveRequests>>
             /\ \/ UNCHANGED releaseRequests
                \/ \E a \in history' : releaseRequests' = releaseRequests \cup {a}
  BY <1>0, <1>4 DEF RecoveryWorker, RecLease, RecQuery, RecSettle, RecReset, RecRelease,
                    RecDone, RecError, RecCrash, WorkerInv
<1>5. ASSUME NEW w \in ExpiryWorkers, ExpiryWorker(w)
      PROVE  UNCHANGED <<pay, reserveRequests, releaseRequests>>
  BY <1>5 DEF ExpiryWorker, ExpLease, ExpLookup, ExpLookupFails, ExpConfirm,
              ExpRelease, ExpRetry, ExpCrash
<1>6. CASE UNCHANGED vars
  BY <1>6 DEF vars, procVars
<1> QED  BY <1>1, <1>2, <1>3, <1>4, <1>5, <1>6 DEF Next


--------------------------------------------------------------------------------
(* The inductive invariant, part by part *)

\* Requests, reservations and calls exist only for attempts that were claimed.
LEMMA AttemptStep ==
  ASSUME SagaInv, [Next]_vars
  PROVE  AttemptInv'
<1>0. TypeOK /\ AttemptInv /\ OrderOf \in [Attempts -> Orders] /\ None \notin Attempts
  BY SagaConstants DEF SagaInv
<1> SUFFICES ASSUME NEW a \in Attempts
             PROVE  /\ WasClaimed(a)' => pay'[a] # "idle"
                    /\ a \in reserveRequests' => WasClaimed(a)'
                    /\ reservation'[a] # "none" => a \in reserveRequests'
                    /\ pay'[a] = "settling" => reservation'[a] # "none"
  BY DEF AttemptInv
<1>1. WasClaimed(a)' => pay'[a] # "idle"
  <2>1. pay[a] # "idle" => pay'[a] # "idle"
    BY <1>0, CallChanges DEF PayMoves, TypeOK, PayStep, PayAnswer
  <2>2. WasClaimed(a)' /\ ~WasClaimed(a) => Claims(a)
    BY <1>0, OrderChanges DEF WasClaimed, Claims, Settles, Resets, ClaimMatches, TypeOK
  <2> QED  BY <1>0, <2>1, <2>2 DEF AttemptInv, Claims, TypeOK
<1>2. a \in reserveRequests' => WasClaimed(a)'
  BY <1>0, CallChanges, OrderProgress DEF AttemptInv
<1>3. reservation'[a] # "none" => a \in reserveRequests'
  <2>1. reserveRequests \subseteq reserveRequests'
    BY CallChanges
  <2> QED
    BY <1>0, <2>1, StockChanges
    DEF AttemptInv, Holds, HoldStock, Confirms, GivesBack, Held, TypeOK
<1>4. pay'[a] = "settling" => reservation'[a] # "none"
  <2>1. ASSUME pay'[a] = "settling", pay[a] # "settling"
        PROVE  reservation'[a] # "none"
    <3>1. ServeReserveStock(a)
      <4>1. \A b \in Attempts : ~PayWallet(b)
        <5>1. ASSUME NEW b \in Attempts, PayWallet(b)
              PROVE  \/ UNCHANGED pay
                     \/ \E x : x # "settling" /\ pay' = [pay EXCEPT ![b] = x]
          BY <5>1 DEF PayWallet, ClaimPayment, PaySettle, PayReset, PayRelease,
                      PayReread, PayAbandon, Goto
        <5> QED  BY <1>0, <2>1, <5>1 DEF TypeOK
      <4>2. \A b \in Attempts : ServeReserveStock(b) => b = a
        BY <1>0, <2>1 DEF ServeReserveStock, Goto, TypeOK
      <4>3. \A b \in Attempts : /\ ~ServeReleaseReservation(b)
                              /\ ~PublishConfirmation(b)
                              /\ ~ConfirmConsumed(b)
        BY <2>1 DEF ServeReleaseReservation, PublishConfirmation, ConfirmConsumed, procVars
      <4>4. \A w \in RecoveryWorkers : ~RecoveryWorker(w)
        BY <2>1 DEF RecoveryWorker, RecLease, RecQuery, RecSettle, RecReset, RecRelease,
                    RecDone, RecError, RecCrash
      <4>5. \A w \in ExpiryWorkers : ~ExpiryWorker(w)
        BY <2>1 DEF ExpiryWorker, ExpLease, ExpLookup, ExpLookupFails, ExpConfirm,
                    ExpRelease, ExpRetry, ExpCrash
      <4> QED
        BY <2>1, <4>1, <4>2, <4>3, <4>4, <4>5 DEF Next, vars, procVars
    <3>2. reservation[a] = "none" => HoldStock(a)
      BY <1>0, <2>1, <3>1 DEF ServeReserveStock, Goto, TypeOK
    <3> QED  BY <1>0, <3>1, <3>2, StockProgress DEF HoldStock, TypeOK
  <2> QED  BY <1>0, <2>1, StockProgress DEF AttemptInv
<1> QED  BY <1>1, <1>2, <1>3, <1>4

\* Only reset attempts are released, whichever party releases them.
LEMMA ReleaseStep ==
  ASSUME SagaInv, [Next]_vars
  PROVE  ReleaseInv'
<1>0. /\ TypeOK /\ ReleaseInv /\ ClaimInv
      /\ history \subseteq history'
  BY OrderProgress DEF SagaInv
<1> SUFFICES ASSUME NEW a \in Attempts
             PROVE  /\ a \in releaseRequests' => a \in history'
                    /\ reservation'[a] = "RELEASED" => a \in history'
                    /\ pay'[a] = "releasing" => a \in history'
  BY DEF ReleaseInv
<1>1. a \in releaseRequests' => a \in history'
  BY <1>0, CallChanges DEF ReleaseInv
<1>2. reservation'[a] = "RELEASED" => a \in history'
  BY <1>0, StockChanges DEF ReleaseInv, Holds, HoldStock, Confirms, GivesBack, TypeOK
<1>3. ASSUME pay'[a] = "releasing", pay[a] # "releasing"
      PROVE  a \in history'
  <2>1. ASSUME NEW b \in Attempts, PayWallet(b)  PROVE a \in history'
    BY <1>0, <1>3, <2>1 DEF PayWallet, ClaimPayment, PaySettle, PayReset, ResetClaim,
                            PayRelease, PayReread, PayAbandon, Goto, TypeOK
  <2>2. \A b \in Attempts : ~ServeReserveStock(b)
    BY <1>0, <1>3 DEF ServeReserveStock, Goto, TypeOK
  <2>3. \A b \in Attempts : /\ ~ServeReleaseReservation(b)
                          /\ ~PublishConfirmation(b)
                          /\ ~ConfirmConsumed(b)
    BY <1>3 DEF ServeReleaseReservation, PublishConfirmation, ConfirmConsumed, procVars
  <2>4. \A w \in RecoveryWorkers : ~RecoveryWorker(w)
    BY <1>3 DEF RecoveryWorker, RecLease, RecQuery, RecSettle, RecReset, RecRelease,
                RecDone, RecError, RecCrash
  <2>5. \A w \in ExpiryWorkers : ~ExpiryWorker(w)
    BY <1>3 DEF ExpiryWorker, ExpLease, ExpLookup, ExpLookupFails, ExpConfirm,
                ExpRelease, ExpRetry, ExpCrash
  <2> QED  BY <1>3, <2>1, <2>2, <2>3, <2>4, <2>5 DEF Next, vars, procVars
<1> QED  BY <1>0, <1>1, <1>2, <1>3 DEF ReleaseInv

\* Events, messages and confirmed stock belong to the attempt that paid.
LEMMA ConfirmStep ==
  ASSUME SagaInv, [Next]_vars
  PROVE  ConfirmInv'
<1>0. /\ TypeOK /\ ConfirmInv
      /\ \A a \in Attempts : PaidBy(OrderOf[a], a) => PaidBy(OrderOf[a], a)'
      /\ OrderOf \in [Attempts -> Orders]
  BY OrderProgress, SagaConstants DEF SagaInv
<1> USE DEF tradeVars, catalogVars, netVars, procVars
<1> SUFFICES ASSUME NEW a \in Attempts
             PROVE  /\ outbox'[a] # "none" \/ a \in topic' => PaidBy(OrderOf[a], a)'
                    /\ reservation'[a] = "CONFIRMED" => PaidBy(OrderOf[a], a)'
  BY DEF ConfirmInv
<1>1. reservation'[a] = "CONFIRMED" => PaidBy(OrderOf[a], a)'
  BY <1>0, StockChanges DEF ConfirmInv, Holds, HoldStock, Confirms, GivesBack, TypeOK
<1>2. ASSUME outbox'[a] # "none" \/ a \in topic'
      PROVE  PaidBy(OrderOf[a], a)'
  <2>1. CASE UNCHANGED <<outbox, topic>>
    BY <1>0, <1>2, <2>1 DEF ConfirmInv
  <2>2. ASSUME NEW b \in Attempts, SettleWalletPayment(OrderOf[b], b), UNCHANGED topic
        PROVE  PaidBy(OrderOf[a], a)'
    BY <1>0, <1>2, <2>2 DEF SettleWalletPayment, ClaimMatches, PaidBy, ConfirmInv, TypeOK
  <2>3. ASSUME NEW b \in Attempts, PublishConfirmation(b)
        PROVE  PaidBy(OrderOf[a], a)'
    BY <1>0, <1>2, <2>3 DEF PublishConfirmation, ConfirmInv, TypeOK
  <2>4. ASSUME NEW b \in Attempts, PayWallet(b)
        PROVE  \/ UNCHANGED <<outbox, topic>>
               \/ SettleWalletPayment(OrderOf[b], b) /\ UNCHANGED topic
    BY <2>4 DEF PayWallet, ClaimPayment, PaySettle, PayReset, ResetClaim, PayRelease,
                PayReread, PayAbandon
  <2>5. ASSUME NEW b \in Attempts,
               \/ ServeReserveStock(b) \/ ServeReleaseReservation(b) \/ ConfirmConsumed(b)
        PROVE  UNCHANGED <<outbox, topic>>
    BY <2>5 DEF ServeReserveStock, ServeReleaseReservation, ConfirmConsumed
  <2>6. ASSUME NEW w \in RecoveryWorkers, RecoveryWorker(w)
        PROVE  \/ UNCHANGED <<outbox, topic>>
               \/ \E b \in Attempts :
                    SettleWalletPayment(OrderOf[b], b) /\ UNCHANGED topic
    <3>1. CASE RecSettle(w)
      BY <1>0, <3>1, RecShape DEF RecSettle, OrderUnder
    <3>2. CASE ~RecSettle(w)
      BY <2>6, <3>2 DEF RecoveryWorker, RecLease, RecQuery, RecReset, ResetClaim,
                        RecRelease, RecDone, RecError, RecCrash
    <3> QED  BY <3>1, <3>2
  <2>7. ASSUME NEW w \in ExpiryWorkers, ExpiryWorker(w)
        PROVE  UNCHANGED <<outbox, topic>>
    BY <2>7 DEF ExpiryWorker, ExpLease, ExpLookup, ExpLookupFails, ExpConfirm,
                ExpRelease, ExpRetry, ExpCrash
  <2> QED
    BY <2>1, <2>2, <2>3, <2>4, <2>5, <2>6, <2>7 DEF Next, vars
<1> QED  BY <1>1, <1>2

\* The decisions workers remember stay right while they are paused.
LEMMA WorkerStep ==
  ASSUME SagaInv, [Next]_vars
  PROVE  WorkerInv'
<1>0. /\ TypeOK /\ WorkerInv
      /\ history \subseteq history'
      /\ \A a \in Attempts :
           /\ PaidBy(OrderOf[a], a) => PaidBy(OrderOf[a], a)'
           /\ reservation[a] # "none" => reservation'[a] # "none"
      /\ OrderOf \in [Attempts -> Orders]
  BY OrderProgress, StockProgress, SagaConstants DEF SagaInv
<1> USE DEF procVars
<1>1. ASSUME NEW w \in RecoveryWorkers
      PROVE  /\ rec'[w].pc = "settle" => reservation'[rec'[w].attempt] # "none"
             /\ rec'[w].pc = "release" => rec'[w].attempt \in history'
  <2>1. CASE rec'[w] = rec[w]
    BY <1>0, <2>1, RecShape DEF WorkerInv
  <2>2. ASSUME rec'[w] # rec[w]
        PROVE  RecoveryWorker(w)
    <3>1. \A a \in Attempts : ~PayWallet(a)
      BY <2>2 DEF PayWallet, ClaimPayment, PaySettle, PayReset, PayRelease, PayReread,
                  PayAbandon
    <3>2. \A a \in Attempts : /\ ~ServeReserveStock(a) /\ ~ServeReleaseReservation(a)
                            /\ ~PublishConfirmation(a) /\ ~ConfirmConsumed(a)
      BY <2>2 DEF ServeReserveStock, ServeReleaseReservation, PublishConfirmation,
                  ConfirmConsumed
    <3>3. \A v \in ExpiryWorkers : ~ExpiryWorker(v)
      BY <2>2 DEF ExpiryWorker, ExpLease, ExpLookup, ExpLookupFails, ExpConfirm,
                  ExpRelease, ExpRetry, ExpCrash
    <3>4. \A v \in RecoveryWorkers : RecoveryWorker(v) => v = w
      BY <1>0, <2>2 DEF RecoveryWorker, RecLease, RecQuery, RecSettle, RecReset,
        RecRelease, RecDone, RecError, RecCrash, RecGoto, RecIdle, TypeOK
    <3> QED  BY <2>2, <3>1, <3>2, <3>3, <3>4 DEF Next, vars
  <2>3. CASE \E o \in Orders : RecLease(w, o)
    BY <1>0, <2>3 DEF RecLease, TypeOK
  <2>4. CASE RecQuery(w)
    <3>1. Reconcile(rec[w].attempt) \in RecStep
      BY <1>0, <2>4, RecShape
      DEF RecQuery, Reconcile, RecStep, TypeOK, ReservationStatus
    <3>2. /\ rec'[w].pc = Reconcile(rec[w].attempt)
          /\ rec'[w].attempt = rec[w].attempt /\ rec[w].attempt \in Attempts
      BY <1>0, <2>4, <3>1, RecShape DEF RecQuery
    <3>3. UNCHANGED reservation
      BY <2>4 DEF RecQuery, catalogVars
    <3> QED
      BY <1>0, <3>2, <3>3 DEF Reconcile, TypeOK, ReservationStatus
  <2>5. CASE RecReset(w)
    <3>1. \/ rec'[w].pc = "done"
          \/ rec'[w].pc = "release" /\ rec'[w].attempt \in history'
          \/ rec'[w].pc = "idle"
      BY <1>0, <2>5, RecShape DEF RecReset, ResetClaim, RecStep
    <3> QED  BY <3>1
  <2>6. CASE RecSettle(w)
    <3>1. rec'[w].pc \in {"done", "resetRelease"}
      BY <1>0, <2>6, RecShape DEF RecSettle, RecStep
    <3> QED  BY <3>1
  <2>7. CASE RecRelease(w) \/ RecDone(w) \/ RecError(w) \/ RecCrash(w)
    <3>1. rec'[w].pc \in {"done", "idle"}
      BY <1>0, <2>7, RecShape DEF RecRelease, RecDone, RecError, RecCrash, RecStep
    <3> QED  BY <3>1
  <2> QED  BY <2>1, <2>2, <2>3, <2>4, <2>5, <2>6, <2>7 DEF RecoveryWorker
<1>2. ASSUME NEW w \in ExpiryWorkers
      PROVE  /\ exp'[w].pc = "confirm" =>
                  PaidBy(OrderOf[exp[w].attempt], exp[w].attempt)'
             /\ exp'[w].pc = "release" => exp'[w].attempt \in history'
  <2>0. exp[w].pc # "idle" => exp[w].attempt \in Attempts
    BY <1>0, ExpShape
  <2>1. CASE exp'[w] = exp[w]
    BY <1>0, <2>0, <2>1 DEF WorkerInv
  <2>2. ASSUME exp'[w] # exp[w]
        PROVE  ExpiryWorker(w)
    <3>1. \A a \in Attempts : ~PayWallet(a)
      BY <2>2 DEF PayWallet, ClaimPayment, PaySettle, PayReset, PayRelease, PayReread,
                  PayAbandon
    <3>2. \A a \in Attempts : /\ ~ServeReserveStock(a) /\ ~ServeReleaseReservation(a)
                            /\ ~PublishConfirmation(a) /\ ~ConfirmConsumed(a)
      BY <2>2 DEF ServeReserveStock, ServeReleaseReservation, PublishConfirmation,
                  ConfirmConsumed
    <3>3. \A v \in RecoveryWorkers : ~RecoveryWorker(v)
      BY <2>2 DEF RecoveryWorker, RecLease, RecQuery, RecSettle, RecReset, RecRelease,
                  RecDone, RecError, RecCrash
    <3>4. \A v \in ExpiryWorkers : ExpiryWorker(v) => v = w
      BY <1>0, <2>2 DEF ExpiryWorker, ExpLease, ExpLookup, ExpLookupFails, ExpConfirm,
        ExpRelease, ExpRetry, ExpCrash, ExpGoto, ExpIdle, TypeOK
    <3> QED  BY <2>2, <3>1, <3>2, <3>3, <3>4 DEF Next, vars
  <2>3. CASE \E a \in Attempts : ExpLease(w, a)
    BY <1>0, <2>3 DEF ExpLease, TypeOK
  <2>4. CASE ExpLookup(w)
    <3> DEFINE a == exp[w].attempt
               answer == PaymentSettlementStatus(a)
    <3>1. OnSettlement(answer) \in ExpStep
      BY DEF OnSettlement, ExpStep
    <3>2. exp'[w].pc = OnSettlement(answer) /\ exp'[w].attempt = a /\ a \in Attempts
      BY <1>0, <2>4, <3>1, ExpShape DEF ExpLookup
    <3>3. answer = "PAID" => PaidBy(OrderOf[a], a)
      BY DEF PaymentSettlementStatus, PaidBy
    <3>4. answer = "PENDING_PAYMENT" => a \in history
      <4>1. OrderOf[a] \in Orders /\ ClaimInv /\ None \notin Attempts
        BY <1>0, <3>2, SagaConstants DEF SagaInv
      <4> QED  BY <3>2, <4>1 DEF PaymentSettlementStatus, ClaimInv
    <3> QED  BY <1>0, <3>2, <3>3, <3>4 DEF OnSettlement
  <2>5. CASE ~ExpLookup(w) /\ ~\E a \in Attempts : ExpLease(w, a)
    <3>1. CASE exp'[w] # exp[w]
      <4>1. exp'[w].pc \in {"retry", "idle"}
        BY <1>0, <2>2, <2>5, <3>1, ExpShape DEF ExpiryWorker, ExpLookupFails, ExpConfirm,
          ExpRelease, ExpRetry, ExpCrash, ExpStep
      <4> QED  BY <4>1
    <3> QED  BY <2>1, <3>1
  <2> QED  BY <2>3, <2>4, <2>5
<1> QED  BY <1>0, <1>1, <1>2 DEF WorkerInv

\* Settling finds the stock held, and nothing takes paid stock away.
LEMMA PaidHoldsStockStep ==
  ASSUME SagaInv, [Next]_vars
  PROVE  PaidHoldsStock'
<1>0. /\ TypeOK /\ ClaimInv /\ ReleaseInv /\ PaidHoldsStock
      /\ OrderOf \in [Attempts -> Orders] /\ None \notin Attempts
  BY SagaConstants DEF SagaInv
<1> USE <1>0 DEF PaidHoldsStock, Held
<1>1. CASE UNCHANGED <<status, claim, history, balance, ledger>>
  <2>1. CASE UNCHANGED <<available, reservation>>
    BY <1>1, <2>1
  <2>2. ASSUME NEW a \in Attempts, Holds(a)  PROVE PaidHoldsStock'
    BY <1>1, <2>2 DEF Holds, HoldStock, TypeOK
  <2>3. ASSUME NEW a \in Attempts, Confirms(a)  PROVE PaidHoldsStock'
    BY <1>1, <2>3 DEF Confirms, TypeOK
  <2>4. ASSUME NEW a \in Attempts, GivesBack(a)  PROVE PaidHoldsStock'
    <3>1. \A o \in Orders : status[o] = "PAID" => claim[o] # a
      BY <2>4 DEF GivesBack, ClaimInv
    <3> QED  BY <1>1, <2>4, <3>1 DEF GivesBack, TypeOK
  <2> QED  BY <2>1, <2>2, <2>3, <2>4, StockChanges
<1>2. ASSUME NEW a \in Attempts, Claims(a) \/ Settles(a) \/ Resets(a)
      PROVE  PaidHoldsStock'
  <2>1. OrderOf[a] \in Orders /\ UNCHANGED reservation
    <3>1. status' # status
      BY <1>2 DEF Claims, Settles, Resets, ClaimMatches, TypeOK
    <3> QED  BY <3>1, StockChanges DEF tradeVars
  <2>2. CASE Claims(a) \/ Resets(a)
    BY <2>1, <2>2 DEF Claims, Resets, TypeOK
  <2>3. CASE Settles(a)
    <3>1. claim[OrderOf[a]] = a /\ a \notin history
      BY <2>1, <2>3 DEF Settles, ClaimMatches, ClaimInv
    <3>2. reservation[a] \in {"RESERVED", "CONFIRMED"}
      BY <2>3, <3>1 DEF Settles, ReleaseInv, TypeOK, ReservationStatus
    <3> QED  BY <2>1, <2>3, <3>1, <3>2 DEF Settles, TypeOK
  <2> QED  BY <1>2, <2>2, <2>3
<1> QED  BY <1>1, <1>2, OrderChanges

\* A paid order stays paid.
LEMMA PaidStays ==
  ASSUME SagaInv, [Next]_vars, NEW o \in Orders, status[o] = "PAID"
  PROVE  status'[o] = "PAID"
  BY OrderChanges
  DEF SagaInv, TypeOK, Claims, Settles, Resets, ClaimMatches

\* Answers are given on what the database then holds, and stay true.
LEMMA AnswersStep ==
  ASSUME SagaInv, [Next]_vars
  PROVE  AnswersTruthful'
<1>0. /\ TypeOK /\ ReleaseInv /\ AnswersTruthful
      /\ OrderOf \in [Attempts -> Orders] /\ None \notin Attempts
      /\ history \subseteq history'
  BY SagaConstants, OrderProgress DEF SagaInv
<1> SUFFICES ASSUME NEW a \in Attempts
             PROVE  /\ pay'[a] = "PAID" => status'[OrderOf[a]] = "PAID"
                    /\ pay'[a] \in {"OUT_OF_STOCK", "INSUFFICIENT_BALANCE"} => a \in history'
  <2>1. ASSUME NEW b \in Attempts, b \in history'
        PROVE  ~PaidBy(OrderOf[b], b)'
    BY <1>0, <2>1, OrderProgress DEF ClaimInv, PaidBy
  <2> QED  BY <2>1 DEF AnswersTruthful
<1>1. CASE pay'[a] = pay[a]
  BY <1>0, <1>1, PaidStays DEF AnswersTruthful
<1>2. CASE pay'[a] # pay[a]
  <2>1. ASSUME NEW b \in Attempts, PayWallet(b)
        PROVE  /\ pay'[a] = "PAID" => status'[OrderOf[a]] = "PAID"
               /\ pay'[a] \in {"OUT_OF_STOCK", "INSUFFICIENT_BALANCE"} => a \in history'
    <3>1. b = a
      BY <1>0, <1>2, <2>1 DEF PayWallet, ClaimPayment, PaySettle, PayReset, PayRelease,
                              PayReread, PayAbandon, Goto, TypeOK
    <3> USE <1>0, <3>1 DEF Goto, TypeOK, tradeVars
    <3>2. CASE ClaimPayment(a)  BY <3>2 DEF ClaimPayment
    <3>3. CASE PaySettle(a)  BY <3>3 DEF PaySettle, SettleWalletPayment
    <3>4. CASE PayReset(a)  BY <3>4 DEF PayReset, ResetClaim
    <3>5. CASE PayRelease(a)  BY <3>5 DEF PayRelease, ReleaseInv
    <3>6. CASE PayReread(a)  BY <3>6 DEF PayReread
    <3>7. CASE PayAbandon(a)  BY <3>7 DEF PayAbandon
    <3> QED  BY <2>1, <3>2, <3>3, <3>4, <3>5, <3>6, <3>7 DEF PayWallet
  <2>2. ASSUME NEW b \in Attempts, ServeReserveStock(b)
        PROVE  pay'[a] \in {"settling", "resetting", "FAILED"}
    BY <1>0, <1>2, <2>2 DEF ServeReserveStock, Goto, TypeOK
  <2>3. \A b \in Attempts : /\ ~ServeReleaseReservation(b)
                          /\ ~PublishConfirmation(b)
                          /\ ~ConfirmConsumed(b)
    BY <1>2 DEF ServeReleaseReservation, PublishConfirmation, ConfirmConsumed, procVars
  <2>4. \A w \in RecoveryWorkers : ~RecoveryWorker(w)
    BY <1>2 DEF RecoveryWorker, RecLease, RecQuery, RecSettle, RecReset, RecRelease,
                RecDone, RecError, RecCrash
  <2>5. \A w \in ExpiryWorkers : ~ExpiryWorker(w)
    BY <1>2 DEF ExpiryWorker, ExpLease, ExpLookup, ExpLookupFails, ExpConfirm,
                ExpRelease, ExpRetry, ExpCrash
  <2> QED
    BY <1>2, <2>1, <2>2, <2>3, <2>4, <2>5 DEF Next, vars, procVars
<1> QED  BY <1>1, <1>2

--------------------------------------------------------------------------------
(* What stock and money add up to *)

\* What the attempts take of one SKU.
TakenOf(s) == [a \in Attempts |-> Quantity[OrderOf[a]][s]]

LEMMA TakenIsNat ==
  ASSUME NEW s \in SKUs
  PROVE  \A a \in Attempts : TakenOf(s)[a] = Quantity[OrderOf[a]][s] /\ TakenOf(s)[a] \in Nat
  BY SagaConstants DEF TakenOf

LEMMA SumInit == Init => SumInv
<1> SUFFICES ASSUME Init PROVE SumInv
  OBVIOUS
<1>1. HeldAttempts = {} /\ PaidOrders = {}
  BY DEF Init, HeldAttempts, Held, PaidOrders
<1>2. \A u \in Users : {o \in PaidOrders : UserOf[o] = u} = {}
  BY <1>1
<1>3. StockConserved
  <2> SUFFICES ASSUME NEW s \in SKUs
               PROVE  InitialStock[s] = available[s] + SumFunctionOnSet(TakenOf(s), HeldAttempts)
    BY DEF StockConserved, TakenOf
  <2>1. SumFunctionOnSet(TakenOf(s), {}) = 0
    BY SumOfNothing
  <2> QED  BY <1>1, <2>1, SagaConstants DEF Init
<1>4. MoneyConserved
  <2>1. SumFunctionOnSet(Total, {}) = 0
    BY SumOfNothing
  <2> QED  BY <1>1, <1>2, <2>1, SagaConstants DEF Init, MoneyConserved
<1> QED  BY <1>1, <1>3, <1>4, FS_EmptySet DEF SumInv

\* A unit leaves the shelf into one held reservation, or comes back out of it.
LEMMA StockAddsUp ==
  ASSUME SagaInv, SumInv, [Next]_vars
  PROVE  IsFiniteSet(HeldAttempts)' /\ StockConserved'
<1>0. /\ TypeOK /\ IsFiniteSet(HeldAttempts) /\ StockConserved
      /\ OrderOf \in [Attempts -> Orders] /\ Quantity \in [Orders -> [SKUs -> Nat]]
      /\ InitialStock \in [SKUs -> Nat]
  BY SagaConstants DEF SagaInv, SumInv
<1>1. CASE HeldAttempts' = HeldAttempts /\ available' = available
  BY <1>0, <1>1 DEF StockConserved
<1>2. ASSUME NEW a \in Attempts, Holds(a)
      PROVE  IsFiniteSet(HeldAttempts)' /\ StockConserved'
  <2>1. a \notin HeldAttempts /\ HeldAttempts' = HeldAttempts \cup {a}
    BY <1>0, <1>2 DEF Holds, HoldStock, HeldAttempts, Held, TypeOK
  <2>2. IsFiniteSet(HeldAttempts \cup {a})
    BY <1>0, FS_AddElement
  <2>3. ASSUME NEW s \in SKUs
        PROVE  InitialStock[s] = available'[s] + SumFunctionOnSet(TakenOf(s), HeldAttempts')
    <3>1. \A b \in HeldAttempts \cup {a} : TakenOf(s)[b] \in Nat
      BY TakenIsNat DEF HeldAttempts
    <3>2. SumFunctionOnSet(TakenOf(s), HeldAttempts \cup {a})
            = SumFunctionOnSet(TakenOf(s), HeldAttempts) + TakenOf(s)[a]
      BY <1>0, <2>1, <3>1, SumAdds
    <3>3. SumFunctionOnSet(TakenOf(s), HeldAttempts) \in Nat
      BY <1>0, <3>1, SumIsNat
    <3>4. available'[s] = available[s] - TakenOf(s)[a] /\ available[s] \in Nat
      BY <1>0, <1>2, TakenIsNat DEF Holds, HoldStock, TypeOK
    <3>5. InitialStock[s] = available[s] + SumFunctionOnSet(TakenOf(s), HeldAttempts)
      BY <1>0 DEF StockConserved, TakenOf
    <3> QED  BY <2>1, <3>1, <3>2, <3>3, <3>4, <3>5
  <2>4. StockConserved'
    BY <2>3 DEF StockConserved, TakenOf
  <2> QED  BY <2>1, <2>2, <2>4
<1>3. ASSUME NEW a \in Attempts, GivesBack(a)
      PROVE  IsFiniteSet(HeldAttempts)' /\ StockConserved'
  <2>1. a \in HeldAttempts /\ HeldAttempts' = HeldAttempts \ {a}
    BY <1>0, <1>3 DEF GivesBack, HeldAttempts, Held, TypeOK
  <2>2. IsFiniteSet(HeldAttempts \ {a})
    BY <1>0, FS_RemoveElement
  <2>3. ASSUME NEW s \in SKUs
        PROVE  InitialStock[s] = available'[s] + SumFunctionOnSet(TakenOf(s), HeldAttempts')
    <3>1. \A b \in HeldAttempts : TakenOf(s)[b] \in Nat
      BY TakenIsNat DEF HeldAttempts
    <3>2. SumFunctionOnSet(TakenOf(s), HeldAttempts)
            = SumFunctionOnSet(TakenOf(s), HeldAttempts \ {a}) + TakenOf(s)[a]
      BY <1>0, <2>1, <3>1, SumRemoves
    <3>3. SumFunctionOnSet(TakenOf(s), HeldAttempts \ {a}) \in Nat
      BY <2>2, <3>1, SumIsNat
    <3>4. available'[s] = available[s] + TakenOf(s)[a] /\ available[s] \in Nat
      BY <1>0, <1>3, TakenIsNat DEF GivesBack, RestoredStock, TypeOK
    <3>5. InitialStock[s] = available[s] + SumFunctionOnSet(TakenOf(s), HeldAttempts)
      BY <1>0 DEF StockConserved, TakenOf
    <3> QED  BY <2>1, <3>1, <3>2, <3>3, <3>4, <3>5
  <2>4. StockConserved'
    BY <2>3 DEF StockConserved, TakenOf
  <2> QED  BY <2>1, <2>2, <2>4
<1>4. ASSUME NEW a \in Attempts, Confirms(a)
      PROVE  HeldAttempts' = HeldAttempts /\ available' = available
  BY <1>0, <1>4 DEF Confirms, HeldAttempts, Held, TypeOK
<1>5. UNCHANGED <<available, reservation>> => HeldAttempts' = HeldAttempts
  BY DEF HeldAttempts, Held
<1> QED  BY <1>1, <1>2, <1>3, <1>4, <1>5, StockChanges

\* Money leaves a wallet only for an order that becomes PAID by it, and a paid order
\* stays paid.
LEMMA MoneyAddsUp ==
  ASSUME SagaInv, SumInv, [Next]_vars
  PROVE  IsFiniteSet(PaidOrders)' /\ MoneyConserved'
<1>0. /\ TypeOK /\ IsFiniteSet(PaidOrders) /\ MoneyConserved
      /\ OrderOf \in [Attempts -> Orders] /\ UserOf \in [Orders -> Users]
      /\ Total \in [Orders -> Nat] /\ InitialBalance \in [Users -> Nat]
  BY SagaConstants DEF SagaInv, SumInv
<1>1. CASE PaidOrders' = PaidOrders /\ balance' = balance /\ ledger' = ledger
  BY <1>0, <1>1 DEF MoneyConserved
<1>2. UNCHANGED status => PaidOrders' = PaidOrders
  BY DEF PaidOrders
<1>3. ASSUME NEW a \in Attempts, Claims(a) \/ Resets(a)
      PROVE  PaidOrders' = PaidOrders /\ balance' = balance /\ ledger' = ledger
  BY <1>0, <1>3 DEF Claims, Resets, ClaimMatches, PaidOrders, TypeOK
<1>4. ASSUME NEW a \in Attempts, Settles(a)
      PROVE  IsFiniteSet(PaidOrders)' /\ MoneyConserved'
  <2> DEFINE o == OrderOf[a]
             Of(u) == {p \in PaidOrders : UserOf[p] = u}
  <2>1. o \in Orders /\ o \notin PaidOrders /\ PaidOrders' = PaidOrders \cup {o}
    BY <1>0, <1>4 DEF Settles, ClaimMatches, PaidOrders, TypeOK
  <2>2. IsFiniteSet(PaidOrders \cup {o})
    BY <1>0, FS_AddElement
  <2>3. ledger' = {p \in PaidOrders' : Total[p] > 0}
    BY <1>0, <1>4, <2>1 DEF Settles, MoneyConserved
  <2>4. ASSUME NEW u \in Users
        PROVE  InitialBalance[u] = balance'[u] + SumFunctionOnSet(Total, Of(u)')
    <3>1. IsFiniteSet(Of(u)) /\ \A p \in Of(u) : Total[p] \in Nat
      BY <1>0, FS_Subset DEF PaidOrders
    <3>2. SumFunctionOnSet(Total, Of(u)) \in Nat
      BY <3>1, SumIsNat
    <3>3. InitialBalance[u] = balance[u] + SumFunctionOnSet(Total, Of(u))
      BY <1>0 DEF MoneyConserved
    <3>4. balance[u] \in Nat /\ Total[o] \in Nat
      BY <1>0, <2>1 DEF TypeOK
    <3>5. CASE UserOf[o] # u
      <4>1. Of(u)' = Of(u) /\ balance'[u] = balance[u]
        BY <1>0, <1>4, <2>1, <3>5 DEF Settles, TypeOK
      <4> QED  BY <3>3, <4>1
    <3>6. CASE UserOf[o] = u
      <4>1. Of(u)' = Of(u) \cup {o} /\ o \notin Of(u)
        BY <2>1, <3>6
      <4>2. balance'[u] = balance[u] - Total[o]
        BY <1>0, <1>4, <3>6 DEF Settles, TypeOK
      <4>3. SumFunctionOnSet(Total, Of(u) \cup {o}) = SumFunctionOnSet(Total, Of(u)) + Total[o]
        <5> HIDE DEF o, Of
        <5> QED  BY <3>1, <3>4, <4>1, SumAdds
      <4> HIDE DEF o, Of
      <4> QED  BY <3>2, <3>3, <3>4, <4>1, <4>2, <4>3
    <3> QED  BY <3>5, <3>6
  <2>5. MoneyConserved'
    BY <2>3, <2>4 DEF MoneyConserved
  <2> QED  BY <2>1, <2>2, <2>5
<1> QED  BY <1>1, <1>2, <1>3, <1>4, OrderChanges

--------------------------------------------------------------------------------
(* Theorems *)

LEMMA SagaInvInit == Init => SagaInv
<1> SUFFICES ASSUME Init PROVE SagaInv
  OBVIOUS
<1>1. TypeOK
  BY TypeInit
<1>2. ClaimInv /\ PaidHoldsStock
  BY SagaConstants DEF Init, ClaimInv, PaidHoldsStock
<1>3. AttemptInv /\ ReleaseInv /\ ConfirmInv /\ AnswersTruthful
  BY SagaConstants DEF Init, AttemptInv, ReleaseInv, ConfirmInv, AnswersTruthful,
                       WasClaimed
<1>4. WorkerInv
  BY DEF Init, WorkerInv, Idle
<1> QED  BY <1>1, <1>2, <1>3, <1>4 DEF SagaInv

\* SagaInv is inductive: every reachable state of the saga satisfies it, for any
\* number of orders, attempts and workers.
THEOREM SagaInvariant == Spec => []SagaInv
<1>1. SagaInv /\ [Next]_vars => SagaInv'
  BY TypeStep, OrderProgress, AttemptStep, ReleaseStep, ConfirmStep, WorkerStep,
     PaidHoldsStockStep, AnswersStep DEF SagaInv
<1> QED  BY SagaInvInit, <1>1, PTL DEF Spec

\* Every variable keeps its type; in particular neither a wallet nor the stock of a
\* SKU ever falls below zero.
THEOREM Typing == Spec => []TypeOK
<1>1. SagaInv => TypeOK
  BY DEF SagaInv
<1> QED  BY <1>1, SagaInvariant, PTL

\* A paid order holds its stock, however late a worker or a message acts.
THEOREM PaidOrdersKeepStock == Spec => []PaidHoldsStock
<1>1. SagaInv => PaidHoldsStock
  BY DEF SagaInv
<1> QED  BY <1>1, SagaInvariant, PTL

\* Stock is confirmed only for the attempt that paid, whoever confirms it.
THEOREM OnlyPaidIsConfirmed == Spec => []ConfirmedIsPaid
<1>1. SagaInv => ConfirmedIsPaid
  BY DEF SagaInv, ConfirmInv, ConfirmedIsPaid
<1> QED  BY <1>1, SagaInvariant, PTL

\* Stock is given back only for an attempt its order has let go of.
THEOREM OnlyResetIsReleased == Spec => []ReleasedWasReset
<1>1. SagaInv => ReleasedWasReset
  BY SagaConstants DEF SagaInv, ReleaseInv, ClaimInv, ReleasedWasReset
<1> QED  BY <1>1, SagaInvariant, PTL

\* SumInv is inductive relative to SagaInv: each step moves exactly what it writes.
THEOREM SumsAreKept == Spec => []SumInv
<1>1. SagaInv /\ SumInv /\ [Next]_vars => SumInv'
  BY StockAddsUp, MoneyAddsUp DEF SumInv
<1> QED  BY SumInit, <1>1, SagaInvariant, PTL DEF Spec

\* Every unit of stock is on the shelf or in exactly one held reservation, for any
\* number of orders and attempts and whatever quantities they ask for.
THEOREM StockIsConserved == Spec => []StockConserved
<1>1. SumInv => StockConserved
  BY DEF SumInv
<1> QED  BY <1>1, SumsAreKept, PTL

\* A wallet has paid for exactly its paid orders, each once, for any number of users,
\* orders, calls and recovery workers.
THEOREM MoneyIsConserved == Spec => []MoneyConserved
<1>1. SumInv => MoneyConserved
  BY DEF SumInv
<1> QED  BY <1>1, SumsAreKept, PTL

\* PayWallet's definite answers are true and stay true.
THEOREM AnswersAreTrue == Spec => []AnswersTruthful
<1>1. SagaInv => AnswersTruthful
  BY DEF SagaInv
<1> QED  BY <1>1, SagaInvariant, PTL

\* The settlement answers the expiry worker acts on never change once given.
THEOREM VerdictsAreStable == Spec => VerdictStable
<1>1. ASSUME SagaInv, [Next]_vars, NEW a \in Attempts,
             PaymentSettlementStatus(a) \in {"PAID", "PENDING_PAYMENT"}
      PROVE  PaymentSettlementStatus(a)' = PaymentSettlementStatus(a)
  <2>0. /\ OrderOf[a] \in Orders /\ None \notin Attempts
        /\ ClaimInv /\ ClaimInv' /\ history \subseteq history'
        /\ PaidBy(OrderOf[a], a) => PaidBy(OrderOf[a], a)'
    BY <1>1, SagaConstants, OrderProgress DEF SagaInv
  <2>1. CASE a \in history
    BY <2>0, <2>1 DEF PaymentSettlementStatus
  <2>2. CASE a \notin history
    <3>1. PaidBy(OrderOf[a], a)
      BY <1>1, <2>0, <2>2 DEF PaymentSettlementStatus, PaidBy, ClaimInv
    <3> QED  BY <2>0, <2>2, <3>1 DEF PaymentSettlementStatus, PaidBy, ClaimInv
  <2> QED  BY <2>1, <2>2
<1>2. SagaInv /\ [Next]_vars =>
        [\A a \in Attempts :
           PaymentSettlementStatus(a) \in {"PAID", "PENDING_PAYMENT"} =>
             PaymentSettlementStatus(a)' = PaymentSettlementStatus(a)]_vars
  BY <1>1
<1> QED  BY <1>2, SagaInvariant, PTL DEF Spec, VerdictStable

--------------------------------------------------------------------------------
(* Refinement *)

\* A step of orders and wallets is a purchase or invisible.
LEMMA OrderRefines ==
  ASSUME SagaInv, UNCHANGED <<available, reservation>>, NEW a \in Attempts,
         Claims(a) \/ Settles(a) \/ Resets(a)
  PROVE  Purchase!Buy(a) \/ UNCHANGED Purchase!vars
<1>0. /\ TypeOK /\ ClaimInv /\ ReleaseInv /\ ConfirmInv
      /\ OrderOf[a] \in Orders /\ None \notin Attempts
  BY SagaConstants DEF SagaInv
<1>1. PurchaseHold' = PurchaseHold
  BY DEF PurchaseHold
<1>2. CASE Claims(a)
  <2>1. PurchasePaidBy' = PurchasePaidBy
    BY <1>0, <1>2 DEF Claims, PurchasePaidBy, TypeOK
  <2> QED  BY <1>1, <1>2, <2>1 DEF Claims, Purchase!vars
<1>3. CASE Resets(a)
  <2>1. PurchasePaidBy' = PurchasePaidBy
    BY <1>0, <1>3 DEF Resets, ClaimMatches, PurchasePaidBy, TypeOK
  <2> QED  BY <1>1, <1>3, <2>1 DEF Resets, Purchase!vars
<1>4. CASE Settles(a)
  <2>1. PurchaseHold[a] = "held"
    <3>1. a \notin history /\ ~PaidBy(OrderOf[a], a)
      BY <1>0, <1>4 DEF Settles, ClaimMatches, ClaimInv, PaidBy
    <3>2. reservation[a] = "RESERVED"
      BY <1>0, <1>4, <3>1
      DEF Settles, ReleaseInv, ConfirmInv, TypeOK, ReservationStatus
    <3> QED  BY <3>2 DEF PurchaseHold
  <2>2. PurchasePaidBy[OrderOf[a]] = None
    BY <1>0, <1>4 DEF Settles, ClaimMatches, PurchasePaidBy
  <2>3. PurchasePaidBy' = [PurchasePaidBy EXCEPT ![OrderOf[a]] = a]
    BY <1>0, <1>4 DEF Settles, ClaimMatches, PurchasePaidBy, TypeOK
  <2> QED
    BY <1>1, <1>4, <2>1, <2>2, <2>3 DEF Settles, CanDebit, Purchase!Buy
<1> QED  BY <1>2, <1>3, <1>4

\* A step of the stock is a hold, a sale, a return or invisible.
LEMMA StockRefines ==
  ASSUME SagaInv, UNCHANGED tradeVars, NEW a \in Attempts,
         Holds(a) \/ Confirms(a) \/ GivesBack(a)
  PROVE  \/ Purchase!Hold(a) \/ Purchase!Sell(a) \/ Purchase!Return(a)
         \/ UNCHANGED Purchase!vars
<1>0. /\ TypeOK /\ ClaimInv
      /\ OrderOf[a] \in Orders /\ None \notin Attempts
  BY SagaConstants DEF SagaInv
<1>1. PurchasePaidBy' = PurchasePaidBy /\ UNCHANGED balance
  BY DEF PurchasePaidBy, tradeVars
<1>2. CASE Holds(a)
  <2>1. PurchaseHold[a] = "free" /\ PurchaseHold' = [PurchaseHold EXCEPT ![a] = "held"]
    BY <1>0, <1>2 DEF Holds, HoldStock, PurchaseHold, TypeOK
  <2> QED
    BY <1>1, <1>2, <2>1 DEF Holds, HoldStock, InStock, Purchase!Hold
<1>3. CASE Confirms(a)
  <2>1. CASE reservation[a] = "CONFIRMED"
    <3>1. reservation' = reservation
      BY <1>0, <1>3, <2>1 DEF Confirms, TypeOK
    <3>2. PurchaseHold' = PurchaseHold
      BY <3>1 DEF PurchaseHold
    <3> QED  BY <1>1, <1>3, <3>2 DEF Confirms, Purchase!vars
  <2>2. CASE reservation[a] = "RESERVED"
    <3>1. PurchaseHold[a] = "held" /\ PurchaseHold' = [PurchaseHold EXCEPT ![a] = "sold"]
      BY <1>0, <1>3, <2>2 DEF Confirms, PurchaseHold, TypeOK
    <3>2. PurchasePaidBy[OrderOf[a]] = a
      BY <1>0, <1>3 DEF Confirms, PaidBy, PurchasePaidBy
    <3> QED  BY <1>1, <1>3, <3>1, <3>2 DEF Confirms, Purchase!Sell
  <2> QED  BY <1>3, <2>1, <2>2 DEF Confirms, Held
<1>4. CASE GivesBack(a)
  <2>1. /\ PurchaseHold[a] = "held"
        /\ PurchaseHold' = [PurchaseHold EXCEPT ![a] = "returned"]
    BY <1>0, <1>4 DEF GivesBack, PurchaseHold, TypeOK
  <2>2. PurchasePaidBy[OrderOf[a]] # a
    BY <1>0, <1>4 DEF GivesBack, ClaimInv, PurchasePaidBy
  <2> QED
    BY <1>1, <1>4, <2>1, <2>2 DEF GivesBack, RestoredStock, Purchase!Return
<1> QED  BY <1>2, <1>3, <1>4

\* The saga over two databases behaves like a single atomic purchase: the abstract
\* specification AtomicPurchase is implemented step by step.
THEOREM SagaImplementsPurchase == Spec => ImplementsPurchase
<1>1. Init => Purchase!Init
  BY SagaConstants DEF Init, Purchase!Init, PurchasePaidBy, PurchaseHold
<1>2. ASSUME SagaInv, [Next]_vars
      PROVE  [Purchase!Next]_(Purchase!vars)
  <2>1. CASE /\ UNCHANGED <<status, claim, history, balance, ledger>>
             /\ UNCHANGED <<available, reservation>>
    BY <2>1 DEF PurchasePaidBy, PurchaseHold, Purchase!vars
  <2>2. ASSUME NEW a \in Attempts, Claims(a) \/ Settles(a) \/ Resets(a)
        PROVE  [Purchase!Next]_(Purchase!vars)
    <3>1. status' # status
      BY <1>2, <2>2, SagaConstants
      DEF SagaInv, Claims, Settles, Resets, ClaimMatches, TypeOK
    <3>2. UNCHANGED <<available, reservation>>
      BY <1>2, <3>1, StockChanges DEF tradeVars
    <3> QED  BY <1>2, <2>2, <3>2, OrderRefines DEF Purchase!Next
  <2>3. ASSUME NEW a \in Attempts, UNCHANGED tradeVars,
               Holds(a) \/ Confirms(a) \/ GivesBack(a)
        PROVE  [Purchase!Next]_(Purchase!vars)
    BY <1>2, <2>3, StockRefines DEF Purchase!Next
  <2> QED  BY <1>2, <2>1, <2>2, <2>3, OrderChanges, StockChanges
<1> QED
  BY <1>1, <1>2, SagaInvariant, PTL DEF Spec, ImplementsPurchase, Purchase!Spec

================================================================================
