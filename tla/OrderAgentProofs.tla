---------------------------- MODULE OrderAgentProofs ----------------------------
(***************************************************************************)
(* Proofs about Ordering, Analytics and AgentRun, for any number of calls, *)
(* SKUs, offers, promotions, consumers and messages, restarts and          *)
(* rebalances, and of runs, sessions, readers, steps and candidates.       *)
(*                                                                         *)
(* Ordering: the lock on the cart's row makes the cart count every change  *)
(* once, and the unique key on the request makes the order of a request    *)
(* the only one, whoever finds, makes or re-reads it.  What an order costs *)
(* is the sum of its items, each with the best of its promotions.          *)
(*                                                                         *)
(* Analytics: an offset is committed by whoever has a message in hand,     *)
(* long after it may have lost the partition, so that it says nothing of   *)
(* the offset that was there.  What makes it safe: a reader starts from a  *)
(* committed offset and Run never goes on behind a message it did not      *)
(* finish; what is before the message in hand is therefore recorded,       *)
(* whoever did it.                                                         *)
(*                                                                         *)
(* AgentRun: where the handler of a run is says what the run's rows        *)
(* look like, and which of its writes may still take effect.  Before the   *)
(* handler ends or fails there is none; the ones it leaves behind then     *)
(* concern its last step, or end the run, and the two that could contradict*)
(* each other (a step and a success) are never left behind together.       *)
(***************************************************************************)
EXTENDS Ordering, Analytics, AgentRun, NumberTheorems

--------------------------------------------------------------------------------
(* Ordering: the cart and the order of a request                             *)

\* Whoever is between its read and its write holds the lock, and has read what is there.
CartInv ==
  /\ cart \in [SKUs -> [quantity : Nat, selected : BOOLEAN]]
  /\ counted \in [SKUs -> Nat]
  /\ addPc \in [AddCalls -> {"idle", "locked", "read", "done"}]
  /\ addRead \in [AddCalls -> Nat]
  /\ \A a \in AddCalls :
       /\ addPc[a] \in {"locked", "read"} => cartLock = a
       /\ addPc[a] = "read" => addRead[a] = cart[SkuOf[a]].quantity
  /\ NoAddIsLost

\* The order that a call is about to insert is one of its own request.
OrderInv ==
  /\ orderPc \in [OrderCalls -> OrderSteps]
  /\ DOMAIN draft = OrderCalls
  /\ DOMAIN orderAnswer = OrderCalls
  /\ DOMAIN orders \subseteq OrderCalls
  /\ \A c \in OrderCalls : orderPc[c] \in {"refind", "insert"} => draft[c].request = RequestOf[c]
  /\ OneOrderPerRequest

--------------------------------------------------------------------------------
(* The cart *)

LEMMA CartInit == OrderingInit => CartInv
BY OrderingConstants DEF OrderingInit, CartInv, NoAddIsLost

\* The transaction of AddCartItem.
LEMMA CartAdd ==
  ASSUME CartInv, NEW a \in AddCalls, AddCartItem(a)
  PROVE  CartInv'
<1> USE OrderingConstants
<1>1. CASE LockCart(a)
  BY <1>1 DEF LockCart, CartInv, NoAddIsLost
<1>2. CASE ReadCartItem(a)
  BY <1>2 DEF ReadCartItem, CartInv, NoAddIsLost
<1>3. CASE WriteCartItem(a)
  <2> DEFINE k == SkuOf[a]
             sum == addRead[a] + QuantityOf[a]
  <2>1. k \in SKUs /\ sum \in Nat /\ QuantityOf[a] \in Nat
    BY DEF CartInv
  <2>2. addPc[a] = "read" /\ cartLock = a /\ addRead[a] = cart[k].quantity /\ counted[k] = cart[k].quantity
    BY <1>3, <2>1 DEF WriteCartItem, CartInv, NoAddIsLost
  <2>3. \A d \in AddCalls : d # a => addPc[d] \notin {"locked", "read"}
    BY <2>2 DEF CartInv
  <2>4. \A d \in AddCalls : addPc'[d] \notin {"locked", "read"}
    BY <1>3, <2>3 DEF WriteCartItem, CartInv
  <2>5. /\ addPc' \in [AddCalls -> {"idle", "locked", "read", "done"}]
        /\ addRead' \in [AddCalls -> Nat]
    BY <1>3 DEF WriteCartItem, CartInv
  <2>6. CASE UNCHANGED <<cart, counted>>
    BY <2>4, <2>5, <2>6 DEF CartInv, NoAddIsLost
  <2>7. CASE /\ \E s \in BOOLEAN : cart' = [cart EXCEPT ![k] = [quantity |-> sum, selected |-> s]]
             /\ counted' = [counted EXCEPT ![k] = @ + QuantityOf[a]]
    <3>1. cart' \in [SKUs -> [quantity : Nat, selected : BOOLEAN]] /\ counted' \in [SKUs -> Nat]
      BY <2>1, <2>7 DEF CartInv
    <3>2. cart'[k].quantity = sum /\ counted'[k] = sum
      BY <2>1, <2>2, <2>7 DEF CartInv
    <3>3. \A j \in SKUs : j # k => cart'[j] = cart[j] /\ counted'[j] = counted[j]
      BY <2>1, <2>7 DEF CartInv
    <3>4. NoAddIsLost'
      BY <3>2, <3>3 DEF CartInv, NoAddIsLost
    <3> QED  BY <2>4, <2>5, <3>1, <3>4 DEF CartInv
  <2> QED  BY <1>3, <2>6, <2>7 DEF WriteCartItem
<1> QED  BY <1>1, <1>2, <1>3 DEF AddCartItem

\* An edit of an item that no transaction has locked.
LEMMA CartEdit ==
  ASSUME CartInv, NEW k \in SKUs, ~ItemLocked(k), NEW q \in Nat, NEW s \in BOOLEAN,
         cart' = [cart EXCEPT ![k] = [quantity |-> q, selected |-> s]],
         counted' = [counted EXCEPT ![k] = q],
         UNCHANGED <<cartLock, addPc, addRead>>
  PROVE  CartInv'
<1>1. \A a \in AddCalls : addPc[a] = "read" => SkuOf[a] # k
  BY DEF CartInv, ItemLocked
<1>2. cart' \in [SKUs -> [quantity : Nat, selected : BOOLEAN]] /\ counted' \in [SKUs -> Nat]
  BY DEF CartInv
<1>3. cart'[k].quantity = q /\ counted'[k] = q
  BY DEF CartInv
<1>4. \A j \in SKUs : j # k => cart'[j] = cart[j] /\ counted'[j] = counted[j]
  BY DEF CartInv
<1>5. \A a \in AddCalls : addPc[a] = "read" => addRead[a] = cart'[SkuOf[a]].quantity
  BY <1>1, <1>4, OrderingConstants DEF CartInv
<1>6. NoAddIsLost'
  BY <1>3, <1>4 DEF CartInv, NoAddIsLost
<1> QED  BY <1>2, <1>5, <1>6 DEF CartInv

LEMMA CartSame ==
  ASSUME CartInv, UNCHANGED cartVars
  PROVE  CartInv'
BY DEF CartInv, cartVars, NoAddIsLost

LEMMA CartStep ==
  ASSUME CartInv, [OrderingNext]_orderingVars
  PROVE  CartInv'
<1>1. CASE UNCHANGED orderingVars
  BY <1>1, CartSame DEF orderingVars
<1>2. ASSUME NEW a \in AddCalls, AddCartItem(a)
      PROVE  CartInv'
  BY <1>2, CartAdd
<1>3. ASSUME NEW k \in SKUs, NEW q \in 1 .. MaxQuantity, NEW s \in BOOLEAN, UpdateCartItem(k, q, s)
      PROVE  CartInv'
  <2>1. q \in Nat
    BY OrderingConstants
  <2> QED  BY <1>3, <2>1, CartEdit DEF UpdateCartItem
<1>4. ASSUME NEW k \in SKUs, DeleteCartItem(k)
      PROVE  CartInv'
  BY <1>4, CartEdit DEF DeleteCartItem
<1>5. ASSUME NEW k \in SKUs, ChangeOffer(k) \/ ChangePromotions(k)
      PROVE  CartInv'
  BY <1>5, CartSame DEF ChangeOffer, ChangePromotions
<1>6. ASSUME NEW a \in addresses, DeleteAddress(a)
      PROVE  CartInv'
  BY <1>6, CartSame DEF DeleteAddress
<1>7. ASSUME NEW c \in OrderCalls, CreateOrder(c)
      PROVE  CartInv'
  BY <1>7, CartSame
  DEF CreateOrder, StartOrder, FindOrderByRequest, GetAddress, GetCart, CheckoutSKUs,
      CheckoutPromotions, RefindOrder, InsertOrder, RereadOrder
<1> QED  BY <1>1, <1>2, <1>3, <1>4, <1>5, <1>6, <1>7 DEF OrderingNext

\* Every quantity that was added to the cart is in it, for any number of concurrent
\* AddCartItem and edits (repository.go:59-136).
THEOREM NothingAddedIsLost == OrderingSpec => []NoAddIsLost
<1>1. CartInv => NoAddIsLost
  BY DEF CartInv
<1> QED  BY <1>1, CartInit, CartStep, PTL DEF OrderingSpec

--------------------------------------------------------------------------------
(* Orders *)

LEMMA OrderInit == OrderingInit => OrderInv
BY OrderingConstants DEF OrderingInit, OrderInv, OneOrderPerRequest, OrderSteps

LEMMA OrderSame ==
  ASSUME OrderInv, UNCHANGED <<orders, orderPc, draft, orderAnswer>>
  PROVE  OrderInv'
BY DEF OrderInv, OneOrderPerRequest, Requested

\* A call goes on, having put an order of its request together by the time it looks for
\* the order again.
LEMMA OrderGoesOn ==
  ASSUME OrderInv, NEW c \in OrderCalls, NEW from, NEW to \in OrderSteps,
         OrderStep(c, from, to), UNCHANGED <<orders, orderAnswer>>, DOMAIN draft' = OrderCalls,
         \A d \in OrderCalls : d # c => draft'[d] = draft[d],
         to \in {"refind", "insert"} => draft'[c].request = RequestOf[c]
  PROVE  OrderInv'
<1>1. orderPc' \in [OrderCalls -> OrderSteps]
  BY DEF OrderInv, OrderStep
<1>2. \A d \in OrderCalls : orderPc'[d] \in {"refind", "insert"} => draft'[d].request = RequestOf[d]
  BY DEF OrderInv, OrderStep
<1>3. OneOrderPerRequest'
  BY DEF OrderInv, OneOrderPerRequest, Requested
<1> QED  BY <1>1, <1>2, <1>3 DEF OrderInv

\* A call answers with the order of its request, or with an error.
LEMMA OrderAnswered ==
  ASSUME OrderInv, NEW c \in OrderCalls, NEW from, NEW x \in Requested(c) \cup OrderErrors,
         AnswerOrder(c, from, x), UNCHANGED orders
  PROVE  OrderInv'
<1>1. orderPc' \in [OrderCalls -> OrderSteps] /\ orderPc'[c] = "done"
  BY DEF OrderInv, AnswerOrder, OrderStep, OrderSteps
<1>2. \A d \in OrderCalls : orderPc'[d] \in {"refind", "insert"} => draft'[d].request = RequestOf[d]
  BY <1>1 DEF OrderInv, AnswerOrder, OrderStep
<1>d. DOMAIN draft' = OrderCalls
  BY DEF OrderInv, AnswerOrder
<1>3. x \in OrderCalls => x \in DOMAIN orders /\ orders[x].request = RequestOf[c]
  BY OrderingConstants DEF Requested
<1>4. DOMAIN orderAnswer' = OrderCalls /\ orderAnswer'[c] = x
  BY DEF OrderInv, AnswerOrder
<1>5. \A d \in OrderCalls : d # c => orderAnswer'[d] = orderAnswer[d]
  BY DEF OrderInv, AnswerOrder
<1>6. OneOrderPerRequest'
  BY <1>3, <1>4, <1>5 DEF OrderInv, OneOrderPerRequest, Requested
<1> QED  BY <1>1, <1>2, <1>d, <1>4, <1>6 DEF OrderInv

LEMMA OrderFails ==
  ASSUME OrderInv, NEW c \in OrderCalls, NEW from, RepositoryFails(c, from),
         UNCHANGED orders
  PROVE  OrderInv'
BY OrderAnswered DEF RepositoryFails, OrderErrors

LEMMA OrderFound ==
  ASSUME OrderInv, NEW c \in OrderCalls, NEW from, NEW to \in OrderSteps, Find(c, from, to),
         to = "insert" => from = "refind", to # "refind", UNCHANGED orders
  PROVE  OrderInv'
<1>1. CASE Advance(c, from, to) /\ UNCHANGED locals
  <2>1. to \in {"refind", "insert"} => draft'[c].request = RequestOf[c]
    BY <1>1 DEF OrderInv, Advance, OrderStep, locals
  <2>2. DOMAIN draft' = OrderCalls
    BY <1>1 DEF OrderInv, locals
  <2> QED  BY <1>1, <2>1, <2>2, OrderGoesOn DEF Advance, locals
<1>2. CASE \E d \in Requested(c) : AnswerOrder(c, from, d)
  BY <1>2, OrderAnswered
<1>3. CASE RepositoryFails(c, from)
  BY <1>3, OrderFails
<1> QED  BY <1>1, <1>2, <1>3 DEF Find

\* The unique key: no other call has an order of this request.
LEMMA OrderInserted ==
  ASSUME OrderInv, NEW c \in OrderCalls, InsertOrder(c)
  PROVE  OrderInv'
<1>1. CASE /\ Requested(c) = {}
           /\ Insert(c)
           /\ AnswerOrder(c, "insert", c) \/ RepositoryFails(c, "insert")
  <2>1. draft[c].request = RequestOf[c]
    BY <1>1 DEF OrderInv, AnswerOrder, RepositoryFails, OrderStep
  <2>2. DOMAIN orders' = DOMAIN orders \cup {c} /\ DOMAIN orders' \subseteq OrderCalls
    BY <1>1 DEF Insert, OrderInv
  <2>3. orders'[c].request = RequestOf[c]
    BY <1>1, <2>1 DEF Insert
  <2>4. c \notin DOMAIN orders
    BY <1>1 DEF OrderInv, OneOrderPerRequest, Requested
  <2>5. \A d \in DOMAIN orders : d # c /\ orders'[d] = orders[d]
    BY <1>1, <2>4 DEF Insert
  <2>6. \A d \in DOMAIN orders : RequestOf[d] # RequestOf[c]
    BY <1>1 DEF OrderInv, OneOrderPerRequest, Requested
  <2>7. Requested(c)' = {c}
    BY <2>2, <2>3, <2>5, <1>1 DEF Requested
  <2>8. \A d \in DOMAIN orders : Requested(d)' = Requested(d)
    BY <2>2, <2>3, <2>5, <2>6 DEF Requested
  <2>9. \A d \in DOMAIN orders' : orders'[d].request = RequestOf[d] /\ Requested(d)' = {d}
    BY <2>2, <2>3, <2>5, <2>7, <2>8 DEF OrderInv, OneOrderPerRequest
  <2>10. PICK x \in {c} \cup OrderErrors : AnswerOrder(c, "insert", x)
    BY <1>1 DEF RepositoryFails, OrderErrors
  <2>11. orderPc' \in [OrderCalls -> OrderSteps] /\ orderPc'[c] = "done"
    BY <2>10 DEF OrderInv, AnswerOrder, OrderStep, OrderSteps
  <2>12. \A d \in OrderCalls : orderPc'[d] \in {"refind", "insert"} => draft'[d].request = RequestOf[d]
    BY <1>1, <2>10, <2>11 DEF OrderInv, AnswerOrder, OrderStep
  <2>17. DOMAIN draft' = OrderCalls
    BY <2>10 DEF OrderInv, AnswerOrder
  <2>13. DOMAIN orderAnswer' = OrderCalls /\ orderAnswer'[c] = x
    BY <2>10 DEF OrderInv, AnswerOrder
  <2>14. \A d \in OrderCalls : d # c => orderAnswer'[d] = orderAnswer[d]
    BY <2>10 DEF OrderInv, AnswerOrder
  <2>15. \A d \in OrderCalls : orderAnswer'[d] \in OrderCalls =>
           /\ orderAnswer'[d] \in DOMAIN orders'
           /\ orders'[orderAnswer'[d]].request = RequestOf[d]
    <3> SUFFICES ASSUME NEW d \in OrderCalls, orderAnswer'[d] \in OrderCalls
                 PROVE  /\ orderAnswer'[d] \in DOMAIN orders'
                        /\ orders'[orderAnswer'[d]].request = RequestOf[d]
      OBVIOUS
    <3>1. CASE d = c
      BY <3>1, <2>2, <2>3, <2>13, OrderingConstants
    <3>2. CASE d # c
      BY <3>2, <2>2, <2>5, <2>14 DEF OrderInv, OneOrderPerRequest
    <3> QED  BY <3>1, <3>2
  <2>16. OneOrderPerRequest'
    BY <2>9, <2>15 DEF OneOrderPerRequest
  <2> QED  BY <1>1, <2>2, <2>11, <2>12, <2>13, <2>16, <2>17 DEF OrderInv
<1>2. CASE Advance(c, "insert", "reread") /\ UNCHANGED <<orders, draft>>
  <2>1. DOMAIN draft' = OrderCalls
    BY <1>2 DEF OrderInv
  <2> QED  BY <1>2, <2>1, OrderGoesOn DEF OrderSteps, Advance
<1>3. CASE RepositoryFails(c, "insert") /\ UNCHANGED orders
  BY <1>3, OrderFails
<1> QED  BY <1>1, <1>2, <1>3 DEF InsertOrder, locals

LEMMA OrderCreated ==
  ASSUME OrderInv, NEW c \in OrderCalls, CreateOrder(c)
  PROVE  OrderInv'
<1> USE DEF OrderSteps
<1>0. DOMAIN draft = OrderCalls
  BY DEF OrderInv
<1>1. CASE StartOrder(c)
  BY <1>0, <1>1, OrderGoesOn DEF StartOrder, Advance, locals
<1>2. CASE FindOrderByRequest(c)
  BY <1>2, OrderFound DEF FindOrderByRequest
<1>3. CASE GetAddress(c)
  <2>1. CASE Advance(c, "address", "cart") /\ UNCHANGED <<orders, draft>>
    BY <1>0, <2>1, OrderGoesOn DEF Advance
  <2>2. CASE AnswerOrder(c, "address", "NotFound") /\ UNCHANGED orders
    BY <2>2, OrderAnswered DEF OrderErrors
  <2>3. CASE RepositoryFails(c, "address") /\ UNCHANGED orders
    BY <2>3, OrderFails
  <2> QED  BY <1>3, <2>1, <2>2, <2>3 DEF GetAddress, locals
<1>4. CASE GetCart(c)
  <2>1. CASE Advance(c, "cart", "skus") /\ UNCHANGED <<orders, draft>>
    BY <1>0, <2>1, OrderGoesOn DEF Advance
  <2>2. CASE AnswerOrder(c, "cart", "InvalidArgument") /\ UNCHANGED orders
    BY <2>2, OrderAnswered DEF OrderErrors
  <2>3. CASE RepositoryFails(c, "cart") /\ UNCHANGED orders
    BY <2>3, OrderFails
  <2> QED  BY <1>4, <2>1, <2>2, <2>3 DEF GetCart
<1>5. CASE CheckoutSKUs(c)
  <2>1. CASE Advance(c, "skus", "promotions") /\ UNCHANGED <<orders, draft>>
    BY <1>0, <2>1, OrderGoesOn DEF Advance
  <2>2. CASE AnswerOrder(c, "skus", "Internal") /\ UNCHANGED orders
    BY <2>2, OrderAnswered DEF OrderErrors
  <2>3. CASE RepositoryFails(c, "skus") /\ UNCHANGED orders
    BY <2>3, OrderFails
  <2> QED  BY <1>5, <2>1, <2>2, <2>3 DEF CheckoutSKUs
<1>6. CASE CheckoutPromotions(c)
  <2> DEFINE new == [request |-> RequestOf[c], address |-> AddressOf[c],
                     items |-> OrderItems(c), total |-> Total(OrderItems(c))]
  <2>1. CASE /\ Advance(c, "promotions", "refind")
             /\ draft' = [draft EXCEPT ![c] = new]
             /\ UNCHANGED orders
    <3>1. new.request = RequestOf[c]
      OBVIOUS
    <3> HIDE DEF new
    <3>2. DOMAIN draft' = OrderCalls /\ draft'[c] = new
      BY <1>0, <2>1
    <3>3. \A d \in OrderCalls : d # c => draft'[d] = draft[d]
      BY <1>0, <2>1
    <3> QED  BY <2>1, <3>1, <3>2, <3>3, OrderGoesOn DEF Advance
  <2>2. CASE AnswerOrder(c, "promotions", "InvalidArgument") /\ UNCHANGED orders
    BY <2>2, OrderAnswered DEF OrderErrors
  <2>3. CASE RepositoryFails(c, "promotions") /\ UNCHANGED orders
    BY <2>3, OrderFails
  <2> QED  BY <1>6, <2>1, <2>2, <2>3 DEF CheckoutPromotions
<1>7. CASE RefindOrder(c)
  BY <1>7, OrderFound DEF RefindOrder
<1>8. CASE InsertOrder(c)
  BY <1>8, OrderInserted
<1>9. CASE RereadOrder(c)
  <2>1. CASE \E d \in Requested(c) : AnswerOrder(c, "reread", d)
    BY <1>9, <2>1, OrderAnswered DEF RereadOrder
  <2>2. CASE RepositoryFails(c, "reread")
    BY <1>9, <2>2, OrderFails DEF RereadOrder
  <2> QED  BY <1>9, <2>1, <2>2 DEF RereadOrder
<1> QED  BY <1>1, <1>2, <1>3, <1>4, <1>5, <1>6, <1>7, <1>8, <1>9 DEF CreateOrder

LEMMA OrderInvStep ==
  ASSUME OrderInv, [OrderingNext]_orderingVars
  PROVE  OrderInv'
<1>1. CASE UNCHANGED orderingVars
  BY <1>1, OrderSame DEF orderingVars, callVars, locals
<1>2. ASSUME NEW a \in AddCalls, AddCartItem(a)
      PROVE  OrderInv'
  BY <1>2, OrderSame DEF AddCartItem, LockCart, ReadCartItem, WriteCartItem, callVars, locals
<1>3. ASSUME NEW k \in SKUs, NEW q \in 1 .. MaxQuantity, NEW s \in BOOLEAN, UpdateCartItem(k, q, s)
      PROVE  OrderInv'
  BY <1>3, OrderSame DEF UpdateCartItem, callVars, locals
<1>4. ASSUME NEW k \in SKUs, DeleteCartItem(k) \/ ChangeOffer(k) \/ ChangePromotions(k)
      PROVE  OrderInv'
  BY <1>4, OrderSame DEF DeleteCartItem, ChangeOffer, ChangePromotions, callVars, locals
<1>5. ASSUME NEW a \in addresses, DeleteAddress(a)
      PROVE  OrderInv'
  BY <1>5, OrderSame DEF DeleteAddress, callVars, locals
<1>6. ASSUME NEW c \in OrderCalls, CreateOrder(c)
      PROVE  OrderInv'
  BY <1>6, OrderCreated
<1> QED  BY <1>1, <1>2, <1>3, <1>4, <1>5, <1>6 DEF OrderingNext

\* A request has at most one order, and every call of CreateOrder that succeeds returns
\* the order of its request (service.go:106-163, repository.go:170-256).
THEOREM RequestsHaveOneOrder == OrderingSpec => []OneOrderPerRequest
<1>1. OrderInv => OneOrderPerRequest
  BY DEF OrderInv
<1> QED  BY <1>1, OrderInit, OrderInvStep, PTL DEF OrderingSpec

--------------------------------------------------------------------------------
(* Prices *)

\* What the loop of orderItem holds after each candidate.
LoopOf(best, candidates, subtotal, seen) ==
  best = [i \in 0 .. seen |->
            IF i = 0 THEN None
            ELSE IF Replaces(candidates[i], best[i - 1], subtotal) THEN candidates[i]
                 ELSE best[i - 1]]

\* The loop ends, and leaves what it held after the last candidate.
LEMMA LoopEnds ==
  ASSUME NEW candidates \in Seq(Promotion), NEW subtotal
  PROVE  \E best : /\ LoopOf(best, candidates, subtotal, Len(candidates))
                   /\ Applied(candidates, subtotal) = best[Len(candidates)]
<1> DEFINE N == Len(candidates)
           I == {seen \in 0 .. N : \E best : LoopOf(best, candidates, subtotal, seen)}
<1>0. N \in Nat
  OBVIOUS
<1>1. 0 \in I
  <2>1. LoopOf([i \in 0 .. 0 |-> None], candidates, subtotal, 0)
    BY DEF LoopOf
  <2> QED  BY <1>0, <2>1
<1>2. ASSUME NEW seen \in 0 .. N - 1, seen \in I PROVE seen + 1 \in I
  <2>1. PICK f : LoopOf(f, candidates, subtotal, seen)
    BY <1>2
  <2> DEFINE x == IF Replaces(candidates[seen + 1], f[seen], subtotal) THEN candidates[seen + 1] ELSE f[seen]
             g == [i \in 0 .. seen + 1 |-> IF i = seen + 1 THEN x ELSE f[i]]
  <2>2. \A i \in 0 .. seen : g[i] = f[i]
    BY <1>0
  <2>3. g[seen + 1] = x /\ seen + 1 # 0 /\ (seen + 1) - 1 = seen /\ seen + 1 \in 0 .. N
    BY <1>0
  <2>4. \A i \in 0 .. seen : i # 0 => i - 1 \in 0 .. seen
    BY <1>0
  <2>5. \A i \in 0 .. seen : f[i] = IF i = 0 THEN None
                                ELSE IF Replaces(candidates[i], f[i - 1], subtotal)
                                     THEN candidates[i] ELSE f[i - 1]
    BY <2>1 DEF LoopOf
  <2>6. \A i \in 0 .. seen + 1 :
          g[i] = IF i = 0 THEN None
                 ELSE IF Replaces(candidates[i], g[i - 1], subtotal)
                      THEN candidates[i] ELSE g[i - 1]
    <3> SUFFICES ASSUME NEW i \in 0 .. seen + 1
                 PROVE  g[i] = IF i = 0 THEN None
                               ELSE IF Replaces(candidates[i], g[i - 1], subtotal)
                                    THEN candidates[i] ELSE g[i - 1]
      OBVIOUS
    <3>1. CASE i = seen + 1
      <4>1. g[seen] = f[seen]
        BY <2>2
      <4> HIDE DEF g
      <4> QED  BY <3>1, <2>3, <4>1
    <3>2. CASE i \in 0 .. seen
      <4> HIDE DEF g
      <4> QED  BY <3>2, <2>2, <2>4, <2>5
    <3> QED  BY <3>1, <3>2
  <2>7. LoopOf(g, candidates, subtotal, seen + 1)
    BY <2>6 DEF LoopOf
  <2> QED  BY <2>3, <2>7
<1>3. N \in I
  <2>1. \A seen \in 0 .. N - 1 : seen \in I => seen + 1 \in I
    BY <1>2
  <2> HIDE DEF I, N
  <2>2. \A seen \in 0 .. N : seen \in I
    BY <1>0, <1>1, <2>1, HoldsUpTo
  <2> QED  BY <1>0, <2>2
<1> DEFINE b == CHOOSE best : LoopOf(best, candidates, subtotal, N)
<1>4. LoopOf(b, candidates, subtotal, N)
  BY <1>3
<1>5. Applied(candidates, subtotal) = b[N]
  BY DEF Applied, LoopOf
<1> QED  BY <1>4, <1>5

\* Candidate p is as good as q: the higher discount, and of equal ones the lower id.
AsGood(p, q) ==
  \/ q.discount < p.discount
  \/ q.discount = p.discount /\ p.id <= q.id

\* Of the first seen candidates none that is eligible is better than candidate i.
Tops(i, candidates, subtotal, seen) ==
  /\ i \in Eligible(candidates, subtotal)
  /\ \A j \in 1 .. seen : j \in Eligible(candidates, subtotal) => AsGood(candidates[i], candidates[j])

\* The one that was taken, if any was, is the best of the first seen.
BestOfFirst(applied, candidates, subtotal, seen) ==
  \/ /\ applied = None
     /\ \A j \in 1 .. seen : j \notin Eligible(candidates, subtotal)
  \/ \E i \in 1 .. seen : applied = candidates[i] /\ Tops(i, candidates, subtotal, seen)

LEMMA AppliedIsBest ==
  ASSUME NEW candidates \in Seq(Promotion), NEW subtotal \in Nat
  PROVE  BestOfFirst(Applied(candidates, subtotal), candidates, subtotal, Len(candidates))
<1> DEFINE N == Len(candidates)
<1>0. N \in Nat
  OBVIOUS
<1>1. PICK best : /\ LoopOf(best, candidates, subtotal, N)
                  /\ Applied(candidates, subtotal) = best[N]
  BY LoopEnds
<1> DEFINE I == {seen \in 0 .. N : BestOfFirst(best[seen], candidates, subtotal, seen)}
<1>2. best[0] = None
  BY <1>0, <1>1 DEF LoopOf
<1>3. 0 \in I
  BY <1>0, <1>2 DEF BestOfFirst
<1>4. ASSUME NEW seen \in 0 .. N - 1, seen \in I PROVE seen + 1 \in I
  <2> DEFINE m == seen + 1
  <2>1. m \in 1 .. N /\ m # 0 /\ m - 1 = seen /\ 1 .. m = (1 .. seen) \cup {m}
    BY <1>0
  <2>2. best[m] = IF Replaces(candidates[m], best[seen], subtotal) THEN candidates[m] ELSE best[seen]
    BY <1>0, <1>1, <2>1 DEF LoopOf
  <2>3. \A i \in 1 .. N : candidates[i] \in Promotion /\ candidates[i] # None
    BY OrderingConstants
  <2>4. \A i \in 1 .. N : /\ candidates[i].discount \in Int /\ candidates[i].threshold \in Int
                         /\ candidates[i].id \in Int
    BY <2>3 DEF Promotion, NotMoney, NoThreshold
  <2>5. BestOfFirst(best[seen], candidates, subtotal, seen)
    BY <1>4
  <2>6. m \in Eligible(candidates, subtotal) <=>
          candidates[m].threshold <= subtotal /\ candidates[m].discount > 0
    BY <2>1 DEF Eligible
  <2> HIDE DEF m, N
  <2>7. ASSUME best[seen] = None
        PROVE  BestOfFirst(best[m], candidates, subtotal, m)
    <3>1. \A j \in 1 .. seen : j \notin Eligible(candidates, subtotal)
      <4>1. \A i \in 1 .. seen : i \in 1 .. N
        BY <1>0
      <4>2. \A i \in 1 .. seen : best[seen] # candidates[i]
        BY <2>3, <2>7, <4>1
      <4> QED  BY <2>5, <4>2 DEF BestOfFirst
    <3>2. CASE m \in Eligible(candidates, subtotal)
      <4>0. Replaces(candidates[m], None, subtotal)
        BY <2>6, <3>2 DEF Replaces
      <4>1. best[m] = candidates[m]
        BY <2>2, <2>7, <4>0
      <4>2. AsGood(candidates[m], candidates[m])
        BY <2>1, <2>4 DEF AsGood
      <4>3. Tops(m, candidates, subtotal, m)
        BY <2>1, <3>1, <3>2, <4>2 DEF Tops
      <4>4. m \in 1 .. m
        BY <2>1
      <4> QED  BY <4>1, <4>3, <4>4 DEF BestOfFirst
    <3>3. CASE m \notin Eligible(candidates, subtotal)
      <4>1. best[m] = None
        BY <2>2, <2>6, <2>7, <3>3 DEF Replaces
      <4> QED  BY <2>1, <3>1, <3>3, <4>1 DEF BestOfFirst
    <3> QED  BY <3>2, <3>3
  <2>8. ASSUME best[seen] # None
        PROVE  BestOfFirst(best[m], candidates, subtotal, m)
    <3>1. PICK i \in 1 .. seen : best[seen] = candidates[i] /\ Tops(i, candidates, subtotal, seen)
      BY <2>5, <2>8 DEF BestOfFirst
    <3>2. i \in 1 .. N /\ i \in 1 .. m /\ m \in 1 .. m
      BY <1>0, <2>1 DEF N
    <3>3. CASE Replaces(candidates[m], best[seen], subtotal)
      <4>1. m \in Eligible(candidates, subtotal) /\ best[m] = candidates[m]
        BY <2>2, <2>6, <3>3 DEF Replaces
      <4>2. \/ candidates[i].discount < candidates[m].discount
            \/ /\ candidates[i].discount = candidates[m].discount
               /\ candidates[m].id < candidates[i].id
        BY <2>8, <3>1, <3>3 DEF Replaces
      <4>3. ASSUME NEW j \in 1 .. m, j \in Eligible(candidates, subtotal)
            PROVE  AsGood(candidates[m], candidates[j])
        <5>1. CASE j = m
          BY <2>1, <2>4, <5>1 DEF AsGood
        <5>2. CASE j \in 1 .. seen
          <6>1. AsGood(candidates[i], candidates[j])
            BY <3>1, <4>3, <5>2 DEF Tops
          <6>2. j \in 1 .. N
            BY <1>0, <5>2 DEF N
          <6> QED  BY <2>1, <2>4, <3>2, <4>2, <6>1, <6>2 DEF AsGood
        <5> QED  BY <2>1, <5>1, <5>2
      <4>4. Tops(m, candidates, subtotal, m)
        BY <4>1, <4>3 DEF Tops
      <4> QED  BY <3>2, <4>1, <4>4 DEF BestOfFirst
    <3>4. CASE ~Replaces(candidates[m], best[seen], subtotal)
      <4>1. best[m] = candidates[i]
        BY <2>2, <3>1, <3>4
      <4>2. m \in Eligible(candidates, subtotal) => AsGood(candidates[i], candidates[m])
        BY <2>1, <2>4, <2>6, <3>1, <3>2, <3>4 DEF Replaces, AsGood
      <4>3. Tops(i, candidates, subtotal, m)
        BY <2>1, <3>1, <4>2 DEF Tops
      <4> QED  BY <3>2, <4>1, <4>3 DEF BestOfFirst
    <3> QED  BY <3>3, <3>4
  <2>9. BestOfFirst(best[m], candidates, subtotal, m)
    BY <2>7, <2>8
  <2> QED  BY <2>1, <2>9 DEF m, N
<1>5. N \in I
  <2>1. \A seen \in 0 .. N - 1 : seen \in I => seen + 1 \in I
    BY <1>4
  <2> HIDE DEF I, N
  <2>2. \A seen \in 0 .. N : seen \in I
    BY <1>0, <1>3, <2>1, HoldsUpTo
  <2> QED  BY <1>0, <2>2
<1> QED  BY <1>1, <1>5

\* orderItem takes the best promotion off every unit.
LEMMA ItemHasBest ==
  ASSUME NEW offer \in Offers, NEW candidates \in Promotions, NEW quantity \in Nat
  PROVE  /\ BestFor(OrderItem(offer, candidates, quantity), candidates)
         /\ OrderItem(offer, candidates, quantity).quantity = quantity
<1> DEFINE subtotal == offer.price * quantity
           item == OrderItem(offer, candidates, quantity)
           a == Applied(candidates, subtotal)
<1>1. offer.price \in Nat /\ candidates \in Seq(Promotion)
  BY OrderingConstants
<1>2. subtotal \in Nat
  BY <1>1
<1>3. item.quantity = quantity /\ item.unit = offer.price
  BY DEF OrderItem
<1>4. /\ item.promotion = IF a = None THEN 0 ELSE a.id
      /\ item.discount = IF a = None THEN 0 ELSE a.discount * quantity
  BY DEF OrderItem
<1>5. item.unit * item.quantity = subtotal
  BY <1>3
<1> HIDE DEF item, subtotal
<1>6. BestOfFirst(a, candidates, subtotal, Len(candidates))
  BY <1>1, <1>2, AppliedIsBest
<1>7. DOMAIN candidates = 1 .. Len(candidates) /\ Len(candidates) \in Nat
  BY <1>1
<1>8. \A i \in 1 .. Len(candidates) : candidates[i] # None
  BY <1>1, OrderingConstants
<1>9. BestFor(item, candidates)
  <2>1. Eligible(candidates, subtotal) \subseteq 1 .. Len(candidates)
    BY <1>7 DEF Eligible
  <2>2. CASE a = None
    <3>1. Eligible(candidates, subtotal) = {}
      BY <1>6, <1>8, <2>1, <2>2 DEF BestOfFirst
    <3> QED  BY <1>4, <1>5, <2>2, <3>1 DEF BestFor
  <2>3. CASE a # None
    <3>1. PICK i \in Eligible(candidates, subtotal) :
            /\ a = candidates[i]
            /\ \A j \in Eligible(candidates, subtotal) : AsGood(candidates[i], candidates[j])
      BY <1>6, <2>1, <2>3 DEF BestOfFirst, Tops
    <3>2. item.promotion = candidates[i].id /\ item.discount = candidates[i].discount * item.quantity
      BY <1>3, <1>4, <2>3, <3>1
    <3> QED  BY <1>5, <3>1, <3>2 DEF BestFor, AsGood
  <2> QED  BY <2>2, <2>3
<1> QED  BY <1>3, <1>9 DEF item

\* What a call has read is what it needs for an order that adds up, and what it puts
\* together is one.
DraftInv ==
  /\ offers \in [SKUs -> Offers \cup {None}]
  /\ promotions \in [SKUs -> Promotions]
  /\ DOMAIN orderPc = OrderCalls /\ DOMAIN quote = OrderCalls /\ DOMAIN draft = OrderCalls
  /\ lines \in [OrderCalls -> [SKUs -> Nat]]
  /\ \A c \in OrderCalls :
       /\ orderPc[c] \in {"skus", "promotions"} => Wanted(c) # {}
       /\ orderPc[c] = "promotions" => \A k \in Wanted(c) : quote[c][k] \in Offers
       /\ orderPc[c] \in {"refind", "insert"} => AddsUp(draft[c])
  /\ OrdersAddUp

LEMMA DraftInit == OrderingInit => DraftInv
<1> SUFFICES ASSUME OrderingInit PROVE DraftInv
  OBVIOUS
<1>1. (CHOOSE o \in Offers : o.saleable) \in Offers
  BY OrderingConstants
<1>2. (CHOOSE p \in Promotions : TRUE) \in Promotions
  BY OrderingConstants
<1> QED  BY <1>1, <1>2 DEF OrderingInit, DraftInv, OrdersAddUp, NoLines

LEMMA DraftSame ==
  ASSUME DraftInv, UNCHANGED <<orders, callVars>>,
         offers' \in [SKUs -> Offers \cup {None}], promotions' \in [SKUs -> Promotions]
  PROVE  DraftInv'
BY DEF DraftInv, OrdersAddUp, callVars, locals, Wanted

\* A call goes on with what it had.
LEMMA DraftGoesOn ==
  ASSUME DraftInv, NEW c \in OrderCalls, NEW from, NEW to, OrderStep(c, from, to),
         UNCHANGED <<orders, locals, offers, promotions>>,
         to \notin {"skus", "promotions", "refind"},
         to = "insert" => from = "refind"
  PROVE  DraftInv'
<1>1. \A d \in OrderCalls : Wanted(d)' = Wanted(d)
  BY DEF Wanted, locals
<1>2. \A d \in OrderCalls : d # c => orderPc'[d] = orderPc[d]
  BY DEF DraftInv, OrderStep
<1>3. orderPc[c] = from /\ orderPc'[c] = to /\ DOMAIN orderPc' = OrderCalls
  BY DEF DraftInv, OrderStep
<1>4. OrdersAddUp'
  BY DEF DraftInv, OrdersAddUp
<1> QED  BY <1>1, <1>2, <1>3, <1>4 DEF DraftInv, locals

\* A call returns.
LEMMA DraftAnswered ==
  ASSUME DraftInv, NEW c \in OrderCalls, NEW from, NEW x, AnswerOrder(c, from, x),
         UNCHANGED <<offers, promotions>>, OrdersAddUp'
  PROVE  DraftInv'
<1>1. \A d \in OrderCalls : d # c =>
        /\ orderPc'[d] = orderPc[d] /\ lines'[d] = lines[d]
        /\ quote'[d] = quote[d] /\ draft'[d] = draft[d] /\ Wanted(d)' = Wanted(d)
  BY DEF DraftInv, AnswerOrder, OrderStep, Wanted
<1>2. orderPc'[c] = "done" /\ DOMAIN orderPc' = OrderCalls
  BY DEF DraftInv, AnswerOrder, OrderStep
<1>3. lines' \in [OrderCalls -> [SKUs -> Nat]] /\ DOMAIN quote' = OrderCalls /\ DOMAIN draft' = OrderCalls
  BY DEF DraftInv, AnswerOrder, NoLines
<1> QED  BY <1>1, <1>2, <1>3 DEF DraftInv

LEMMA DraftFails ==
  ASSUME DraftInv, NEW c \in OrderCalls, NEW from, RepositoryFails(c, from),
         UNCHANGED <<offers, promotions>>, OrdersAddUp'
  PROVE  DraftInv'
BY DraftAnswered DEF RepositoryFails

LEMMA DraftFound ==
  ASSUME DraftInv, NEW c \in OrderCalls, NEW from, NEW to, Find(c, from, to),
         UNCHANGED <<orders, offers, promotions>>,
         to \notin {"skus", "promotions", "refind"}, to = "insert" => from = "refind"
  PROVE  DraftInv'
<1>0. OrdersAddUp'
  BY DEF DraftInv, OrdersAddUp
<1>1. CASE Advance(c, from, to) /\ UNCHANGED locals
  BY <1>1, DraftGoesOn DEF Advance
<1>2. CASE \E d \in Requested(c) : AnswerOrder(c, from, d)
  BY <1>0, <1>2, DraftAnswered
<1>3. CASE RepositoryFails(c, from)
  BY <1>0, <1>3, DraftFails
<1> QED  BY <1>1, <1>2, <1>3 DEF Find

\* GetCart reads at least one selected row.
LEMMA DraftCart ==
  ASSUME CartInv, DraftInv, NEW c \in OrderCalls, GetCart(c)
  PROVE  DraftInv'
<1>0. OrdersAddUp' /\ UNCHANGED <<offers, promotions>>
  BY DEF GetCart, world, DraftInv, OrdersAddUp
<1>1. CASE /\ Selected # NoLines
           /\ Advance(c, "cart", "skus")
           /\ lines' = [lines EXCEPT ![c] = Selected]
           /\ UNCHANGED <<quote, draft>>
  <2>1. Selected \in [SKUs -> Nat]
    BY DEF Selected, CartInv
  <2>2. \E k \in SKUs : Selected[k] > 0
    BY <1>1, <2>1 DEF NoLines
  <2>3. lines' \in [OrderCalls -> [SKUs -> Nat]] /\ lines'[c] = Selected
    BY <1>1, <2>1 DEF DraftInv
  <2>4. Wanted(c)' # {}
    BY <2>2, <2>3 DEF Wanted
  <2>5. orderPc'[c] = "skus" /\ DOMAIN orderPc' = OrderCalls
    BY <1>1 DEF DraftInv, Advance, OrderStep
  <2>6. \A d \in OrderCalls : d # c => orderPc'[d] = orderPc[d] /\ Wanted(d)' = Wanted(d)
    BY <1>1 DEF DraftInv, Advance, OrderStep, Wanted
  <2> QED  BY <1>0, <1>1, <2>3, <2>4, <2>5, <2>6 DEF DraftInv
<1>2. CASE AnswerOrder(c, "cart", "InvalidArgument")
  BY <1>0, <1>2, DraftAnswered
<1>3. CASE RepositoryFails(c, "cart")
  BY <1>0, <1>3, DraftFails
<1> QED  BY <1>1, <1>2, <1>3 DEF GetCart

\* The first query prices every line.
LEMMA DraftQuoted ==
  ASSUME DraftInv, NEW c \in OrderCalls, CheckoutSKUs(c)
  PROVE  DraftInv'
<1>0. OrdersAddUp' /\ UNCHANGED <<offers, promotions>>
  BY DEF CheckoutSKUs, world, DraftInv, OrdersAddUp
<1>1. CASE /\ \A k \in Wanted(c) : offers[k] # None
           /\ Advance(c, "skus", "promotions")
           /\ quote' = [quote EXCEPT ![c] = [k \in SKUs |-> IF k \in Wanted(c) THEN offers[k] ELSE None]]
           /\ UNCHANGED <<lines, draft>>
  <2>1. \A d \in OrderCalls : Wanted(d)' = Wanted(d)
    BY <1>1 DEF Wanted
  <2>2. quote'[c] = [k \in SKUs |-> IF k \in Wanted(c) THEN offers[k] ELSE None]
    BY <1>1 DEF DraftInv
  <2>3. \A k \in Wanted(c) : quote'[c][k] \in Offers
    BY <1>1, <2>2 DEF DraftInv, Wanted
  <2>4. orderPc[c] = "skus" /\ orderPc'[c] = "promotions" /\ DOMAIN orderPc' = OrderCalls
    BY <1>1 DEF DraftInv, Advance, OrderStep
  <2>5. \A d \in OrderCalls : d # c => orderPc'[d] = orderPc[d] /\ quote'[d] = quote[d]
    BY <1>1 DEF DraftInv, Advance, OrderStep
  <2>6. DOMAIN quote' = OrderCalls
    BY <1>1 DEF DraftInv
  <2> QED  BY <1>0, <1>1, <2>1, <2>3, <2>4, <2>5, <2>6 DEF DraftInv
<1>2. CASE AnswerOrder(c, "skus", "Internal")
  BY <1>0, <1>2, DraftAnswered
<1>3. CASE RepositoryFails(c, "skus")
  BY <1>0, <1>3, DraftFails
<1> QED  BY <1>1, <1>2, <1>3 DEF CheckoutSKUs

\* The order that is put together adds up.
LEMMA DraftIsSound ==
  ASSUME DraftInv, NEW c \in OrderCalls, orderPc[c] = "promotions", Orderable(c)
  PROVE  AddsUp([request |-> RequestOf[c], address |-> AddressOf[c],
                 items |-> OrderItems(c), total |-> Total(OrderItems(c))])
<1> DEFINE new == [request |-> RequestOf[c], address |-> AddressOf[c],
                   items |-> OrderItems(c), total |-> Total(OrderItems(c))]
           items == OrderItems(c)
<1>1. new.total = Total(new.items) /\ new.items = items
  OBVIOUS
<1>2. /\ Wanted(c) \subseteq SKUs /\ Wanted(c) # {}
      /\ \A k \in Wanted(c) : /\ quote[c][k] \in Offers /\ promotions[k] \in Promotions
                              /\ lines[c][k] \in Nat /\ lines[c][k] > 0
  BY DEF DraftInv, Wanted
<1>3. ASSUME NEW k \in Wanted(c)
      PROVE  /\ items[k] = OrderItem(quote[c][k], promotions[k], lines[c][k])
             /\ items[k].quantity = lines[c][k]
             /\ items[k].amount = items[k].unit * items[k].quantity - items[k].discount
             /\ items[k].amount >= 0
             /\ BestFor(items[k], promotions[k])
  <2>1. items[k] = OrderItem(quote[c][k], promotions[k], lines[c][k])
    BY <1>2 DEF OrderItems
  <2>2. BestFor(items[k], promotions[k]) /\ items[k].quantity = lines[c][k]
    BY <1>2, <2>1, ItemHasBest
  <2>3. items[k].amount = items[k].unit * items[k].quantity - items[k].discount
    BY <2>1 DEF OrderItem
  <2>4. items[k].amount >= 0
    BY DEF Orderable, ItemPriced, IsMoney
  <2> QED  BY <2>1, <2>2, <2>3, <2>4
<1>4. \A k \in SKUs \ Wanted(c) : items[k] = NoLine
  BY DEF OrderItems
<1>5. ASSUME NEW k \in SKUs
      PROVE  /\ items[k].amount = items[k].unit * items[k].quantity - items[k].discount
             /\ items[k].amount >= 0
             /\ items[k].quantity > 0 => \E candidates \in Promotions : BestFor(items[k], candidates)
  <2>1. CASE k \in Wanted(c)
    BY <1>2, <1>3, <2>1
  <2>2. CASE k \notin Wanted(c)
    BY <1>4, <2>2 DEF NoLine
  <2> QED  BY <2>1, <2>2
<1>6. \E k \in SKUs : items[k].quantity > 0
  BY <1>2, <1>3
<1> HIDE DEF new, items
<1>7. AddsUp(new)
  BY <1>1, <1>5, <1>6 DEF AddsUp
<1> QED  BY <1>7 DEF new

LEMMA DraftMade ==
  ASSUME DraftInv, NEW c \in OrderCalls, CheckoutPromotions(c)
  PROVE  DraftInv'
<1> DEFINE new == [request |-> RequestOf[c], address |-> AddressOf[c],
                   items |-> OrderItems(c), total |-> Total(OrderItems(c))]
<1>0. OrdersAddUp' /\ UNCHANGED <<offers, promotions>>
  BY DEF CheckoutPromotions, world, DraftInv, OrdersAddUp
<1>1. CASE /\ Orderable(c)
           /\ Advance(c, "promotions", "refind")
           /\ draft' = [draft EXCEPT ![c] = new]
           /\ UNCHANGED <<lines, quote>>
  <2>1. AddsUp(new)
    BY <1>1, DraftIsSound DEF Advance, OrderStep
  <2> HIDE DEF new
  <2>2. draft'[c] = new /\ DOMAIN draft' = OrderCalls
    BY <1>1 DEF DraftInv
  <2>3. orderPc'[c] = "refind" /\ DOMAIN orderPc' = OrderCalls
    BY <1>1 DEF DraftInv, Advance, OrderStep
  <2>4. \A d \in OrderCalls : /\ d # c => orderPc'[d] = orderPc[d] /\ draft'[d] = draft[d]
                              /\ Wanted(d)' = Wanted(d)
    BY <1>1 DEF DraftInv, Advance, OrderStep, Wanted
  <2>5. AddsUp(draft'[c])
    BY <2>1, <2>2
  <2>6. \A d \in OrderCalls : AddsUp(draft[d])' <=> AddsUp(draft'[d])
    BY DEF AddsUp
  <2> QED  BY <1>0, <1>1, <2>2, <2>3, <2>4, <2>5, <2>6 DEF DraftInv
<1>2. CASE AnswerOrder(c, "promotions", "InvalidArgument")
  BY <1>0, <1>2, DraftAnswered
<1>3. CASE RepositoryFails(c, "promotions")
  BY <1>0, <1>3, DraftFails
<1> QED  BY <1>1, <1>2, <1>3 DEF CheckoutPromotions

\* Only the order that was put together is inserted.
LEMMA DraftInserted ==
  ASSUME DraftInv, NEW c \in OrderCalls, InsertOrder(c)
  PROVE  DraftInv'
<1>0. UNCHANGED <<offers, promotions>>
  BY DEF InsertOrder, world
<1>1. CASE /\ Insert(c)
           /\ AnswerOrder(c, "insert", c) \/ RepositoryFails(c, "insert")
  <2>1. AddsUp(draft[c])
    BY <1>1 DEF DraftInv, AnswerOrder, RepositoryFails, OrderStep
  <2>2. \A d \in DOMAIN orders' : orders'[d] = draft[c] \/ (d \in DOMAIN orders /\ orders'[d] = orders[d])
    BY <1>1 DEF Insert
  <2>3. \A d \in DOMAIN orders' : AddsUp(orders'[d])
    BY <2>1, <2>2 DEF DraftInv, OrdersAddUp
  <2>4. OrdersAddUp'
    BY <2>3 DEF OrdersAddUp
  <2> QED  BY <1>0, <1>1, <2>4, DraftAnswered, DraftFails
<1>2. CASE UNCHANGED orders
  <2>1. OrdersAddUp'
    BY <1>2 DEF DraftInv, OrdersAddUp
  <2>2. CASE Advance(c, "insert", "reread") /\ UNCHANGED locals
    BY <1>0, <1>2, <2>2, DraftGoesOn DEF Advance
  <2>3. CASE RepositoryFails(c, "insert")
    BY <1>0, <2>1, <2>3, DraftFails
  <2>4. CASE AnswerOrder(c, "insert", c)
    BY <1>0, <2>1, <2>4, DraftAnswered
  <2> QED  BY <1>2, <2>2, <2>3, <2>4 DEF InsertOrder
<1> QED  BY <1>1, <1>2 DEF InsertOrder

LEMMA DraftCreated ==
  ASSUME CartInv, DraftInv, NEW c \in OrderCalls, CreateOrder(c)
  PROVE  DraftInv'
<1> USE DEF world
<1>0. UNCHANGED orders => OrdersAddUp'
  BY DEF DraftInv, OrdersAddUp
<1>1. CASE StartOrder(c)
  BY <1>1, DraftGoesOn DEF StartOrder, Advance
<1>2. CASE FindOrderByRequest(c)
  BY <1>2, DraftFound DEF FindOrderByRequest
<1>3. CASE GetAddress(c)
  <2>1. CASE Advance(c, "address", "cart") /\ UNCHANGED locals
    BY <1>3, <2>1, DraftGoesOn DEF GetAddress, Advance
  <2>2. CASE AnswerOrder(c, "address", "NotFound")
    BY <1>0, <1>3, <2>2, DraftAnswered DEF GetAddress
  <2>3. CASE RepositoryFails(c, "address")
    BY <1>0, <1>3, <2>3, DraftFails DEF GetAddress
  <2> QED  BY <1>3, <2>1, <2>2, <2>3 DEF GetAddress
<1>4. CASE RefindOrder(c)
  BY <1>4, DraftFound DEF RefindOrder
<1>5. CASE RereadOrder(c)
  <2>1. CASE \E d \in Requested(c) : AnswerOrder(c, "reread", d)
    BY <1>0, <1>5, <2>1, DraftAnswered DEF RereadOrder
  <2>2. CASE RepositoryFails(c, "reread")
    BY <1>0, <1>5, <2>2, DraftFails DEF RereadOrder
  <2> QED  BY <1>5, <2>1, <2>2 DEF RereadOrder
<1> QED
  BY <1>1, <1>2, <1>3, <1>4, <1>5, DraftCart, DraftQuoted, DraftMade, DraftInserted DEF CreateOrder

LEMMA DraftStep ==
  ASSUME CartInv, DraftInv, [OrderingNext]_orderingVars
  PROVE  DraftInv'
<1>0. offers \in [SKUs -> Offers \cup {None}] /\ promotions \in [SKUs -> Promotions]
  BY DEF DraftInv
<1>1. CASE UNCHANGED orderingVars
  BY <1>0, <1>1, DraftSame DEF orderingVars, world
<1>2. ASSUME NEW a \in AddCalls, AddCartItem(a)
      PROVE  DraftInv'
  BY <1>0, <1>2, DraftSame DEF AddCartItem, LockCart, ReadCartItem, WriteCartItem, world
<1>3. ASSUME NEW k \in SKUs, NEW q \in 1 .. MaxQuantity, NEW s \in BOOLEAN, UpdateCartItem(k, q, s)
      PROVE  DraftInv'
  BY <1>0, <1>3, DraftSame DEF UpdateCartItem
<1>4. ASSUME NEW k \in SKUs, DeleteCartItem(k)
      PROVE  DraftInv'
  BY <1>0, <1>4, DraftSame DEF DeleteCartItem
<1>5. ASSUME NEW k \in SKUs, ChangeOffer(k) \/ ChangePromotions(k)
      PROVE  DraftInv'
  BY <1>0, <1>5, DraftSame DEF ChangeOffer, ChangePromotions
<1>6. ASSUME NEW a \in addresses, DeleteAddress(a)
      PROVE  DraftInv'
  BY <1>0, <1>6, DraftSame DEF DeleteAddress
<1>7. ASSUME NEW c \in OrderCalls, CreateOrder(c)
      PROVE  DraftInv'
  BY <1>7, DraftCreated
<1> QED  BY <1>1, <1>2, <1>3, <1>4, <1>5, <1>6, <1>7 DEF OrderingNext

\* Every order adds up, and each of its lines has the best promotion of some moment,
\* for any cart, prices and promotions, however they change while the order is put
\* together (service.go:106-163, 188-281).
THEOREM EveryOrderAddsUp == OrderingSpec => []OrdersAddUp
<1>1. DraftInv => OrdersAddUp
  BY DEF DraftInv
<1> QED  BY <1>1, CartInit, CartStep, DraftInit, DraftStep, PTL DEF OrderingSpec


--------------------------------------------------------------------------------
(* Analytics                                                                 *)

InHand == {"handle", "commit", "publish", "record"}

Recorded(t, i) ==
  IF topic[t][i] = Garbage
  THEN i \in deadTopic[t] /\ (t = "behavior" => i \in deadRecords)
  ELSE topic[t][i] \in handled

\* Topics hold what their outbox published, and what is no event.
TopicsGenuine ==
  \A t \in Kinds : \A i \in 1 .. Len(topic[t]) :
    topic[t][i] \in (IF t = "review" THEN reviews ELSE BehaviorEvents) \cup {Garbage}

\* SubmitReview lets a review in only if it is in range, paid, and the first of its item.
ReviewsGenuine ==
  /\ \A s \in reviews : ReviewOf[s].rating \in Ratings /\ ReviewOf[s].order \in paid
  /\ \A s, u \in reviews : SameItem(s, u) => s = u
  /\ handled \subseteq reviews \cup BehaviorEvents

\* Where Run is says what it has in hand, and what is recorded of it.
HandInv ==
  \A w \in Consumers :
    LET t == KindOf[w] IN
    /\ at[w] \in InHand => held[w] \in 1 .. Len(topic[t])
    /\ at[w] \notin InHand => held[w] = 0
    /\ at[w] = "handle" => topic[t][held[w]] # Garbage
    /\ at[w] \in {"publish", "record"} => topic[t][held[w]] = Garbage
    /\ at[w] = "record" => held[w] \in deadTopic[t]
    /\ at[w] = "commit" => Recorded(t, held[w])

\* Nothing is left behind: not by the offset, the message in hand, or a reader that
\* goes on.
BehindInv ==
  /\ \A t \in Kinds : offset[t] <= Len(topic[t])
  /\ \A t \in Kinds : \A i \in 1 .. offset[t] : Recorded(t, i)
  /\ \A w \in Consumers : at[w] \in InHand =>
       \A i \in 1 .. held[w] : i # held[w] => Recorded(KindOf[w], i)
  /\ \A w \in Consumers : handed[w] <= Len(topic[KindOf[w]])
  /\ \A w \in Consumers : assigned[KindOf[w]] = w /\ at[w] # "ended" =>
       \A i \in 1 .. handed[w] : i # held[w] => Recorded(KindOf[w], i)

\* Finitely many reviews were handled at any time; they are what the statistics count.
CountsMatch ==
  /\ IsFiniteSet(handled \cap Submissions)
  /\ \A p \in Products :
       stats[p] = [count |-> Cardinality(HandledOf(p)), sum |-> SumOfRatings(HandledOf(p))]

AnalyticsInv == AnalyticsTypeOK /\ TopicsGenuine /\ ReviewsGenuine /\ HandInv /\ BehindInv

--------------------------------------------------------------------------------
(* The inductive invariant *)

LEMMA AnalyticsInvInit == AnalyticsInit => AnalyticsInv
<1> SUFFICES ASSUME AnalyticsInit PROVE AnalyticsInv
  OBVIOUS
<1> USE AnalyticsConstants
<1>1. AnalyticsTypeOK
  BY DEF AnalyticsInit, AnalyticsTypeOK, Kinds
<1>2. TopicsGenuine /\ ReviewsGenuine
  BY DEF AnalyticsInit, TopicsGenuine, ReviewsGenuine, Kinds
<1>3. HandInv
  BY DEF AnalyticsInit, HandInv, InHand
<1>4. BehindInv
  BY DEF AnalyticsInit, BehindInv, InHand, Kinds
<1> QED  BY <1>1, <1>2, <1>3, <1>4 DEF AnalyticsInv

\* What is recorded stays recorded, and a topic only grows.
Grows ==
  /\ \A t \in Kinds : Len(topic'[t]) \in Nat /\ Len(topic[t]) <= Len(topic'[t])
  /\ \A t \in Kinds : \A i \in 1 .. Len(topic[t]) : topic'[t][i] = topic[t][i]
  /\ \A t \in Kinds : deadTopic[t] \subseteq deadTopic'[t]
  /\ deadRecords \subseteq deadRecords'
  /\ handled \subseteq handled'

LEMMA RecordedStays ==
  ASSUME Grows, NEW t \in Kinds, NEW i \in 1 .. Len(topic[t]), Recorded(t, i)
  PROVE  Recorded(t, i)'
BY DEF Grows, Recorded

\* A step that touches no message and no reader.
LEMMA ReadersUntouched ==
  ASSUME AnalyticsInv, Grows, UNCHANGED <<offset, assigned, handed, at, held>>
  PROVE  HandInv' /\ BehindInv'
<1> USE AnalyticsConstants DEF AnalyticsInv
<1>1. \A t \in Kinds : topic[t] \in Seq(Events \cup {Garbage}) /\ Len(topic[t]) \in Nat
  BY DEF AnalyticsTypeOK
<1>2. \A t \in Kinds : \A i \in 1 .. Len(topic[t]) : Recorded(t, i) => Recorded(t, i)'
  BY RecordedStays
<1>3. HandInv'
  <2> SUFFICES ASSUME NEW w \in Consumers
               PROVE  /\ at[w] \in InHand => held[w] \in 1 .. Len(topic'[KindOf[w]])
                      /\ at[w] \notin InHand => held[w] = 0
                      /\ at[w] = "handle" => topic'[KindOf[w]][held[w]] # Garbage
                      /\ at[w] \in {"publish", "record"} => topic'[KindOf[w]][held[w]] = Garbage
                      /\ at[w] = "record" => held[w] \in deadTopic'[KindOf[w]]
                      /\ at[w] = "commit" => Recorded(KindOf[w], held[w])'
    BY DEF HandInv
  <2> DEFINE t == KindOf[w]
  <2>1. t \in Kinds
    OBVIOUS
  <2>2. Len(topic[t]) \in Nat /\ Len(topic'[t]) \in Nat /\ Len(topic'[t]) >= Len(topic[t])
    BY <2>1, <1>1 DEF Grows
  <2>3. CASE at[w] \in InHand
    <3>1. held[w] \in 1 .. Len(topic[t]) /\ topic'[t][held[w]] = topic[t][held[w]]
      BY <2>1, <2>3 DEF HandInv, Grows
    <3>2. at[w] = "commit" => Recorded(t, held[w])'
      BY <2>1, <3>1, <1>2 DEF HandInv
    <3>3. held[w] \in 1 .. Len(topic'[t])
      BY <2>2, <3>1
    <3> QED  BY <2>1, <2>3, <3>1, <3>2, <3>3 DEF HandInv, Grows
  <2>4. CASE at[w] \notin InHand
    BY <2>4 DEF HandInv, InHand
  <2> QED  BY <2>3, <2>4
<1>4. BehindInv'
  <2>1. /\ offset \in [Kinds -> Nat] /\ handed \in [Consumers -> Nat] /\ held \in [Consumers -> Nat]
        /\ \A t \in Kinds : Len(topic'[t]) \in Nat /\ Len(topic[t]) <= Len(topic'[t])
    BY DEF AnalyticsTypeOK, Grows
  <2>2. \A w \in Consumers : KindOf[w] \in Kinds
    OBVIOUS
  <2>3. ASSUME NEW t \in Kinds
        PROVE  offset[t] <= Len(topic'[t]) /\ \A i \in 1 .. offset[t] : Recorded(t, i)'
    <3>1. offset[t] \in Nat /\ offset[t] <= Len(topic[t]) /\ Len(topic[t]) \in Nat
      BY <1>1, <2>1 DEF BehindInv
    <3>2. \A i \in 1 .. offset[t] : i \in 1 .. Len(topic[t]) /\ Recorded(t, i)
      BY <3>1 DEF BehindInv
    <3> QED  BY <1>2, <2>1, <3>1, <3>2
  <2>4. ASSUME NEW w \in Consumers
        PROVE  handed[w] <= Len(topic'[KindOf[w]])
    <3>1. handed[w] \in Nat /\ handed[w] <= Len(topic[KindOf[w]]) /\ Len(topic[KindOf[w]]) \in Nat
      BY <1>1, <2>1, <2>2 DEF BehindInv
    <3> QED  BY <2>1, <2>2, <3>1
  <2>5. ASSUME NEW w \in Consumers, at[w] \in InHand, NEW i \in 1 .. held[w], i # held[w]
        PROVE  Recorded(KindOf[w], i)'
    <3> DEFINE t == KindOf[w]
    <3>1. held[w] \in 1 .. Len(topic[t]) /\ held[w] \in Nat /\ Len(topic[t]) \in Nat /\ t \in Kinds
      BY <2>1, <2>2, <2>5 DEF AnalyticsTypeOK, HandInv
    <3>2. i \in 1 .. Len(topic[t])
      BY <3>1
    <3>3. Recorded(t, i)
      BY <2>5 DEF BehindInv
    <3> QED  BY <1>2, <3>1, <3>2, <3>3
  <2>6. ASSUME NEW w \in Consumers, assigned[KindOf[w]] = w, at[w] # "ended",
               NEW i \in 1 .. handed[w], i # held[w]
        PROVE  Recorded(KindOf[w], i)'
    <3>1. handed[w] \in Nat /\ handed[w] <= Len(topic[KindOf[w]]) /\ Len(topic[KindOf[w]]) \in Nat
      BY <1>1, <2>1, <2>2 DEF BehindInv
    <3>2. i \in 1 .. Len(topic[KindOf[w]]) /\ Recorded(KindOf[w], i)
      BY <2>6, <3>1 DEF BehindInv
    <3> QED  BY <1>2, <2>2, <3>2
  <2> QED  BY <2>3, <2>4, <2>5, <2>6 DEF BehindInv
<1> QED  BY <1>3, <1>4

--------------------------------------------------------------------------------
(* The steps, one by one *)

LEMMA PayKeeps ==
  ASSUME AnalyticsInv, NEW o \in ReviewedOrders, Pay(o)
  PROVE  AnalyticsInv'
<1> USE AnalyticsConstants DEF AnalyticsInv, Pay, group, run, counts, deadVars
<1>1. AnalyticsTypeOK'
  BY DEF AnalyticsTypeOK
<1>2. TopicsGenuine' /\ ReviewsGenuine'
  BY DEF TopicsGenuine, ReviewsGenuine, SameItem
<1>3. Grows
  BY DEF Grows, AnalyticsTypeOK
<1> QED  BY <1>1, <1>2, <1>3, ReadersUntouched

LEMMA SubmitReviewKeeps ==
  ASSUME AnalyticsInv, NEW s \in Submissions, SubmitReview(s)
  PROVE  AnalyticsInv'
<1> USE AnalyticsConstants DEF AnalyticsInv, SubmitReview, group, run, counts, deadVars
<1>1. AnalyticsTypeOK'
  BY DEF AnalyticsTypeOK
<1>2. /\ ReviewOf[s].rating \in Ratings
      /\ ReviewOf[s].order \in paid
      /\ ~Reviewed(s)
  <2>1. ReviewRefused(s) \notin Refusals
    BY DEF Accepted
  <2> QED  BY <2>1 DEF ReviewRefused, Refusals
<1>3. ReviewsGenuine'
  BY <1>2 DEF ReviewsGenuine, Reviewed, SameItem
<1>4. TopicsGenuine'
  BY DEF TopicsGenuine
<1>5. Grows
  BY DEF Grows, AnalyticsTypeOK
<1> QED  BY <1>1, <1>3, <1>4, <1>5, ReadersUntouched

LEMMA DeliverKeeps ==
  ASSUME AnalyticsInv, NEW t \in Kinds, NEW x \in Published(t), Deliver(t, x)
  PROVE  AnalyticsInv'
<1> USE AnalyticsConstants DEF AnalyticsInv, Deliver, reviewVars, group, run, counts, deadVars
<1>1. x \in Events \cup {Garbage} /\ topic[t] \in Seq(Events \cup {Garbage})
  BY DEF AnalyticsTypeOK, Published, Events
<1>2. /\ topic'[t] = Append(topic[t], x)
      /\ \A u \in Kinds : u # t => topic'[u] = topic[u]
      /\ topic' \in [Kinds -> Seq(Events \cup {Garbage})]
  BY <1>1 DEF AnalyticsTypeOK
<1>3. /\ Len(topic'[t]) = Len(topic[t]) + 1
      /\ topic'[t][Len(topic[t]) + 1] = x
      /\ \A i \in 1 .. Len(topic[t]) : topic'[t][i] = topic[t][i]
  BY <1>1, <1>2
<1>4. AnalyticsTypeOK'
  <2>1. \A u \in Kinds : Len(topic[u]) \in Nat
    BY DEF AnalyticsTypeOK
  <2>2. Len(topic[t]) < MaxMessages
    <3>1. Len(topic["review"]) \in Nat /\ Len(topic["behavior"]) \in Nat /\ MaxMessages \in Nat
      BY <2>1 DEF Kinds
    <3>2. Len(topic["review"]) + Len(topic["behavior"]) < MaxMessages
      OBVIOUS
    <3>3. \A a, b, m \in Nat : a + b < m => a < m /\ b < m
      OBVIOUS
    <3>4. Len(topic["review"]) < MaxMessages /\ Len(topic["behavior"]) < MaxMessages
      BY <3>1, <3>2, <3>3
    <3> QED  BY <3>4 DEF Kinds
  <2>3. \A u \in Kinds : Len(topic'[u]) <= MaxMessages
    BY <1>2, <1>3, <2>1, <2>2 DEF AnalyticsTypeOK
  <2> QED  BY <1>2, <2>3 DEF AnalyticsTypeOK
<1>5. TopicsGenuine'
  BY <1>1, <1>2, <1>3 DEF TopicsGenuine, Published
<1>6. ReviewsGenuine'
  BY DEF ReviewsGenuine, SameItem
<1>7. Grows
  BY <1>1, <1>2, <1>3 DEF Grows, AnalyticsTypeOK
<1> QED  BY <1>4, <1>5, <1>6, <1>7, ReadersUntouched

\* A partition comes and goes; what is in hand stays there, except over a restart.
LEMMA AssignmentKeeps ==
  ASSUME AnalyticsInv,
         \/ \E w \in Consumers : AssignPartition(w) \/ RestartService(w)
         \/ \E t \in Kinds : RevokePartition(t)
  PROVE  AnalyticsInv'
<1> USE AnalyticsConstants DEF AnalyticsInv, reviewVars, group, run, counts, deadVars
<1>1. ASSUME NEW w \in Consumers, AssignPartition(w)
      PROVE  AnalyticsInv'
  <2> USE <1>1 DEF AssignPartition
  <2>1. AnalyticsTypeOK'
    BY DEF AnalyticsTypeOK
  <2>2. TopicsGenuine' /\ ReviewsGenuine'
    BY DEF TopicsGenuine, ReviewsGenuine, SameItem
  <2>3. HandInv'
    BY DEF HandInv, Recorded
  <2>4. BehindInv'
    BY DEF BehindInv, Recorded, AnalyticsTypeOK
  <2> QED  BY <2>1, <2>2, <2>3, <2>4
<1>2. ASSUME NEW w \in Consumers, RestartService(w)
      PROVE  AnalyticsInv'
  <2> USE <1>2 DEF RestartService
  <2>1. AnalyticsTypeOK'
    BY DEF AnalyticsTypeOK
  <2>2. TopicsGenuine' /\ ReviewsGenuine'
    BY DEF TopicsGenuine, ReviewsGenuine, SameItem
  <2>3. HandInv'
    BY DEF HandInv, Recorded, InHand, AnalyticsTypeOK
  <2>4. BehindInv'
    BY DEF BehindInv, Recorded, InHand, AnalyticsTypeOK
  <2> QED  BY <2>1, <2>2, <2>3, <2>4
<1>3. ASSUME NEW t \in Kinds, RevokePartition(t)
      PROVE  AnalyticsInv'
  <2> USE <1>3 DEF RevokePartition
  <2>1. AnalyticsTypeOK'
    BY DEF AnalyticsTypeOK
  <2>2. TopicsGenuine' /\ ReviewsGenuine'
    BY DEF TopicsGenuine, ReviewsGenuine, SameItem
  <2>3. HandInv'
    BY DEF HandInv, Recorded
  <2>4. BehindInv'
    BY DEF BehindInv, Recorded, AnalyticsTypeOK
  <2> QED  BY <2>1, <2>2, <2>3, <2>4
<1> QED  BY <1>1, <1>2, <1>3

\* The event in hand is one that its outbox holds; counting it keeps the records.
LEMMA EventInHand ==
  ASSUME AnalyticsInv, NEW w \in Consumers, at[w] = "handle"
  PROVE  /\ Message(w) \in reviews \cup BehaviorEvents
         /\ held[w] \in 1 .. Len(topic[KindOf[w]])
         /\ Message(w) # Garbage
<1> USE AnalyticsConstants DEF AnalyticsInv
<1>1. held[w] \in 1 .. Len(topic[KindOf[w]]) /\ Message(w) # Garbage
  BY DEF HandInv, InHand, Message
<1> QED  BY <1>1 DEF TopicsGenuine, Message

LEMMA EventRecorded ==
  ASSUME AnalyticsInv, NEW e \in reviews \cup BehaviorEvents, HandleEvent(e)
  PROVE  /\ handled \subseteq handled' /\ e \in handled'
         /\ handled' \subseteq Events /\ handled' \subseteq reviews \cup BehaviorEvents
         /\ stats' \in [Products -> [count : Nat, sum : Nat]]
<1> USE AnalyticsConstants DEF AnalyticsInv
<1>1. e \in Events
  BY DEF Events, AnalyticsTypeOK
<1>2. stats \in [Products -> [count : Nat, sum : Nat]]
  BY DEF AnalyticsTypeOK
<1>3. CASE e \in Submissions
  <2>1. e \in reviews
    BY <1>3
  <2>2. ReviewOf[e].rating \in 1 .. 5 /\ ProductOf[ReviewOf[e].sku] \in Products
    BY <1>3, <2>1 DEF ReviewsGenuine, Ratings
  <2>3. UpdateProductStats(e) \in [Products -> [count : Nat, sum : Nat]]
    BY <1>2, <1>3, <2>2 DEF UpdateProductStats
  <2> QED  BY <1>1, <1>2, <2>3 DEF HandleEvent, AnalyticsTypeOK, ReviewsGenuine
<1>4. CASE e \notin Submissions
  BY <1>1, <1>2, <1>4 DEF HandleEvent, UpdateProductStats, AnalyticsTypeOK, ReviewsGenuine
<1> QED  BY <1>3, <1>4

Advances(w, to) ==
  /\ to \in {"commit", "record", "fetch", "ended"}
  /\ at' = [at EXCEPT ![w] = to]
  /\ held' = IF to \in {"fetch", "ended"} THEN [held EXCEPT ![w] = 0] ELSE held

\* Run moves on from a message in hand: to a later stage, to the next fetch once it is
\* committed, or to its end.
LEMMA RunMovesOn ==
  ASSUME AnalyticsInv, Grows, NEW w \in Consumers, at[w] \in InHand,
         UNCHANGED <<topic, assigned, handed>>,
         NEW to, Advances(w, to),
         to = "fetch" => at[w] = "commit",
         to = "record" => topic[KindOf[w]][held[w]] = Garbage /\ held[w] \in deadTopic'[KindOf[w]],
         to = "commit" => Recorded(KindOf[w], held[w])',
         \/ offset' = offset
         \/ at[w] = "commit" /\ offset' = [offset EXCEPT ![KindOf[w]] = held[w]]
  PROVE  HandInv' /\ BehindInv'
<1> USE AnalyticsConstants DEF AnalyticsInv, Advances
<1> DEFINE t == KindOf[w]
<1>1. t \in Kinds /\ Len(topic[t]) \in Nat /\ held[w] \in 1 .. Len(topic[t])
  <2>1. t \in Kinds
    OBVIOUS
  <2>2. Len(topic[t]) \in Nat
    BY <2>1 DEF AnalyticsTypeOK
  <2>3. held[w] \in 1 .. Len(topic[t])
    BY DEF HandInv
  <2> QED  BY <2>1, <2>2, <2>3
<1>2. \A u \in Kinds : \A i \in 1 .. Len(topic[u]) : Recorded(u, i) => Recorded(u, i)'
  BY RecordedStays
<1>3. /\ at'[w] = to /\ \A v \in Consumers : v # w => at'[v] = at[v]
      /\ held'[w] = IF to \in {"fetch", "ended"} THEN 0 ELSE held[w]
      /\ \A v \in Consumers : v # w => held'[v] = held[v]
  BY DEF AnalyticsTypeOK
<1>4. HandInv'
  BY <1>1, <1>2, <1>3 DEF HandInv, InHand, Grows
<1>5. \A j \in 1 .. held[w] : j # held[w] => Recorded(t, j)'
  BY <1>1, <1>2 DEF BehindInv
<1>6. at[w] = "commit" => \A j \in 1 .. held[w] : Recorded(t, j)'
  BY <1>1, <1>2, <1>5 DEF HandInv
<1>7. ASSUME NEW u \in Kinds
      PROVE  offset'[u] <= Len(topic[u]) /\ \A i \in 1 .. offset'[u] : Recorded(u, i)'
  <2>1. offset \in [Kinds -> 0 .. MaxMessages]
    BY DEF AnalyticsTypeOK
  <2>2. CASE u # t \/ offset' = offset
    <3>1. offset'[u] = offset[u]
      BY <1>1, <2>1, <2>2
    <3> QED  BY <1>2, <2>1, <3>1 DEF BehindInv
  <2>3. CASE u = t /\ offset' # offset
    <3>1. offset'[t] = held[w] /\ at[w] = "commit"
      BY <1>1, <2>1, <2>3
    <3>2. offset'[t] <= Len(topic[t]) /\ \A i \in 1 .. offset'[t] : Recorded(t, i)'
      BY <1>1, <1>6, <3>1
    <3> QED  BY <2>3, <3>2
  <2> QED  BY <2>2, <2>3
<1>8. ASSUME NEW v \in Consumers, at'[v] \in InHand
      PROVE  \A i \in 1 .. held'[v] : i # held'[v] => Recorded(KindOf[v], i)'
  <2>1. CASE v = w
    BY <1>3, <1>5, <1>8, <2>1 DEF InHand
  <2>2. CASE v # w
    <3>1. held'[v] = held[v] /\ at[v] \in InHand /\ held[v] \in 1 .. Len(topic[KindOf[v]])
      BY <1>3, <1>8, <2>2 DEF HandInv
    <3>2. \A i \in 1 .. held[v] : i \in 1 .. Len(topic[KindOf[v]])
      BY <3>1 DEF AnalyticsTypeOK
    <3> QED  BY <1>2, <3>1, <3>2 DEF BehindInv
  <2> QED  BY <2>1, <2>2
<1>9. ASSUME NEW v \in Consumers, assigned[KindOf[v]] = v, at'[v] # "ended"
      PROVE  \A i \in 1 .. handed[v] : i # held'[v] => Recorded(KindOf[v], i)'
  <2>1. handed[v] \in Nat /\ handed[v] <= Len(topic[KindOf[v]]) /\ Len(topic[KindOf[v]]) \in Nat
    BY DEF AnalyticsTypeOK, BehindInv
  <2>2. CASE v = w
    <3>1. at[w] # "ended"
      BY DEF InHand
    <3>2. \A i \in 1 .. handed[w] : i # held[w] => Recorded(t, i)'
      BY <1>2, <1>9, <2>1, <2>2, <3>1 DEF BehindInv
    <3>3. CASE to = "fetch"
      BY <1>1, <1>6, <2>2, <3>2, <3>3
    <3>4. CASE to # "fetch"
      BY <1>3, <1>9, <2>2, <3>2, <3>4
    <3> QED  BY <3>3, <3>4
  <2>3. CASE v # w
    BY <1>2, <1>3, <1>9, <2>1, <2>3 DEF BehindInv
  <2> QED  BY <2>2, <2>3
<1>10. BehindInv'
  BY <1>7, <1>8, <1>9 DEF BehindInv
<1> QED  BY <1>4, <1>10

LEMMA HandleKeeps ==
  ASSUME AnalyticsInv, NEW w \in Consumers, Handle(w) \/ HandleFails(w)
  PROVE  AnalyticsInv'
<1> USE AnalyticsConstants DEF AnalyticsInv, reviewVars, group, deadVars, run
<1>1. at[w] = "handle"
  BY DEF Handle, HandleFails, Go
<1>2. /\ Message(w) \in reviews \cup BehaviorEvents
      /\ held[w] \in 1 .. Len(topic[KindOf[w]])
      /\ Message(w) # Garbage
  BY <1>1, EventInHand
<1>3. UNCHANGED <<paid, reviews, topic, offset, assigned, handed, deadTopic, deadRecords, restarts>>
  BY DEF Handle, HandleFails
<1>4. /\ handled \subseteq handled' /\ handled' \subseteq Events
      /\ handled' \subseteq reviews \cup BehaviorEvents
      /\ stats' \in [Products -> [count : Nat, sum : Nat]]
  BY <1>2, EventRecorded DEF Handle, HandleFails, counts, AnalyticsTypeOK, ReviewsGenuine
<1>5. \/ /\ at' = [at EXCEPT ![w] = "commit"] /\ held' = held
         /\ topic[KindOf[w]][held[w]] \in handled'
      \/ at' = [at EXCEPT ![w] = "ended"] /\ held' = [held EXCEPT ![w] = 0]
  BY <1>2, EventRecorded DEF Handle, HandleFails, Go, Message
<1>6. AnalyticsTypeOK'
  <2>1. at' \in [Consumers -> {"fetch", "handle", "commit", "publish", "record", "ended"}]
    BY <1>5 DEF AnalyticsTypeOK
  <2>2. 0 \in 0 .. MaxMessages /\ held \in [Consumers -> 0 .. MaxMessages]
    BY DEF AnalyticsTypeOK
  <2>3. held' \in [Consumers -> 0 .. MaxMessages]
    BY <1>5, <2>2
  <2> QED  BY <1>3, <1>4, <2>1, <2>3 DEF AnalyticsTypeOK
<1>7. TopicsGenuine' /\ ReviewsGenuine'
  BY <1>3, <1>4 DEF TopicsGenuine, ReviewsGenuine, SameItem
<1>8. Grows
  BY <1>3, <1>4 DEF Grows, AnalyticsTypeOK
<1>9. HandInv' /\ BehindInv'
  <2>1. CASE at' = [at EXCEPT ![w] = "commit"] /\ held' = held
    <3>1. topic[KindOf[w]][held[w]] \in handled'
      BY <1>1, <1>5, <2>1 DEF AnalyticsTypeOK
    <3>2. Recorded(KindOf[w], held[w])'
      BY <1>2, <1>3, <2>1, <3>1 DEF Recorded, Message
    <3>3. Advances(w, "commit")
      BY <2>1 DEF Advances
    <3>4. at[w] \in InHand
      BY <1>1 DEF InHand
    <3> HIDE DEF AnalyticsInv
    <3> QED  BY <1>3, <1>8, <3>2, <3>3, <3>4, RunMovesOn DEF Recorded
  <2>2. CASE at' = [at EXCEPT ![w] = "ended"] /\ held' = [held EXCEPT ![w] = 0]
    <3>1. Advances(w, "ended")
      BY <2>2 DEF Advances
    <3>2. at[w] \in InHand
      BY <1>1 DEF InHand
    <3> HIDE DEF AnalyticsInv
    <3> QED  BY <1>3, <1>8, <3>1, <3>2, RunMovesOn DEF Recorded
  <2> QED  BY <1>5, <2>1, <2>2
<1> QED  BY <1>6, <1>7, <1>9

LEMMA FetchKeeps ==
  ASSUME AnalyticsInv, NEW w \in Consumers, FetchMessage(w) \/ FetchTimesOut(w)
  PROVE  AnalyticsInv'
<1> USE AnalyticsConstants DEF AnalyticsInv, reviewVars, group, counts, deadVars, run
<1>1. CASE FetchTimesOut(w)
  <2> USE <1>1 DEF FetchTimesOut, Go
  <2>1. AnalyticsTypeOK'
    BY DEF AnalyticsTypeOK
  <2>2. TopicsGenuine' /\ ReviewsGenuine'
    BY DEF TopicsGenuine, ReviewsGenuine, SameItem
  <2>3. HandInv'
    BY DEF HandInv, Recorded, InHand, AnalyticsTypeOK
  <2>4. BehindInv'
    BY DEF BehindInv, Recorded, InHand, AnalyticsTypeOK
  <2> QED  BY <2>1, <2>2, <2>3, <2>4
<1>2. CASE FetchMessage(w)
  <2> DEFINE t == KindOf[w]
             i == handed[w] + 1
  <2> USE <1>2 DEF FetchMessage
  <2>1. t \in Kinds /\ Len(topic[t]) \in Nat /\ handed[w] \in Nat /\ i \in 1 .. Len(topic[t])
        /\ Len(topic[t]) <= MaxMessages
    BY DEF AnalyticsTypeOK
  <2>2. at[w] = "fetch" /\ held[w] = 0 /\ assigned[t] = w
    BY DEF HandInv, InHand
  <2>3. \A j \in 1 .. handed[w] : Recorded(t, j)
    BY <2>1, <2>2 DEF BehindInv
  <2>4. /\ handed' = [handed EXCEPT ![w] = i] /\ held' = [held EXCEPT ![w] = i]
        /\ at' = [at EXCEPT ![w] = IF topic[t][i] = Garbage THEN "publish" ELSE "handle"]
    OBVIOUS
  <2>5. UNCHANGED <<paid, reviews, topic, offset, assigned, handled, stats, deadTopic,
                    deadRecords, restarts>>
    OBVIOUS
  <2>6. AnalyticsTypeOK'
    <3>1. i \in 0 .. MaxMessages
      BY <2>1
    <3>2. handed' \in [Consumers -> 0 .. MaxMessages] /\ held' \in [Consumers -> 0 .. MaxMessages]
      BY <2>4, <3>1 DEF AnalyticsTypeOK
    <3>3. at' \in [Consumers -> {"fetch", "handle", "commit", "publish", "record", "ended"}]
      BY <2>4 DEF AnalyticsTypeOK
    <3> QED  BY <2>5, <3>2, <3>3 DEF AnalyticsTypeOK
  <2>7. TopicsGenuine' /\ ReviewsGenuine'
    BY <2>5 DEF TopicsGenuine, ReviewsGenuine, SameItem
  <2>8. \A u \in Kinds, j \in Nat : Recorded(u, j)' <=> Recorded(u, j)
    BY <2>5 DEF Recorded
  <2> HIDE <1>2 DEF FetchMessage, i
  <2>9. HandInv'
    BY <2>1, <2>4, <2>5, <2>8 DEF HandInv, InHand, AnalyticsTypeOK
  <2>10. BehindInv'
    <3>1. \A v \in Consumers : handed'[v] <= Len(topic'[KindOf[v]])
      BY <2>1, <2>4, <2>5 DEF BehindInv, AnalyticsTypeOK
    <3>2. \A j \in 1 .. i : j # i => Recorded(t, j)
      BY <2>1, <2>3 DEF i
    <3>3. \A v \in Consumers : at'[v] \in InHand =>
            \A j \in 1 .. held'[v] : j # held'[v] => Recorded(KindOf[v], j)'
      BY <2>4, <2>5, <2>8, <3>2 DEF BehindInv, AnalyticsTypeOK
    <3>4. \A v \in Consumers : assigned'[KindOf[v]] = v /\ at'[v] # "ended" =>
            \A j \in 1 .. handed'[v] : j # held'[v] => Recorded(KindOf[v], j)'
      BY <2>4, <2>5, <2>8, <3>2 DEF BehindInv, AnalyticsTypeOK
    <3> QED  BY <2>5, <2>8, <3>1, <3>3, <3>4 DEF BehindInv, AnalyticsTypeOK
  <2> QED  BY <2>6, <2>7, <2>9, <2>10
<1> QED  BY <1>1, <1>2

LEMMA DeadLetterKeeps ==
  ASSUME AnalyticsInv, NEW w \in Consumers, PublishDeadLetter(w) \/ RecordDeadLetter(w)
  PROVE  AnalyticsInv'
<1> USE AnalyticsConstants DEF AnalyticsInv
<1> DEFINE t == KindOf[w]
<1>1. at[w] \in {"publish", "record"}
  BY DEF PublishDeadLetter, RecordDeadLetter, Discard, Go
<1>2. /\ t \in Kinds /\ held[w] \in 1 .. Len(topic[t]) /\ topic[t][held[w]] = Garbage
      /\ held[w] \in 0 .. MaxMessages /\ Len(topic[t]) \in Nat /\ Len(topic[t]) <= MaxMessages
  BY <1>1 DEF HandInv, InHand, AnalyticsTypeOK
<1>3. held[w] \in 1 .. MaxMessages
  BY <1>2
<1>4. UNCHANGED <<paid, reviews, topic, offset, assigned, handed, handled, stats, restarts>>
  BY DEF PublishDeadLetter, RecordDeadLetter, reviewVars, group, counts
<1>5. PICK to \in {"commit", "record", "ended"} : Go(w, at[w], to)
  BY DEF PublishDeadLetter, RecordDeadLetter, Discard, Go
<1>6. /\ deadTopic' = deadTopic \/ deadTopic' = [deadTopic EXCEPT ![t] = @ \cup {held[w]}]
      /\ deadRecords' = deadRecords \/ deadRecords' = deadRecords \cup {held[w]}
  BY DEF PublishDeadLetter, RecordDeadLetter, Discard
<1>7. deadTopic' \in [Kinds -> SUBSET (1 .. MaxMessages)] /\ deadRecords' \subseteq 1 .. MaxMessages
  <2>1. deadTopic \in [Kinds -> SUBSET (1 .. MaxMessages)] /\ deadRecords \subseteq 1 .. MaxMessages
    BY DEF AnalyticsTypeOK
  <2>2. deadTopic[t] \cup {held[w]} \in SUBSET (1 .. MaxMessages)
    BY <1>2, <1>3, <2>1
  <2>3. CASE deadTopic' = [deadTopic EXCEPT ![t] = @ \cup {held[w]}]
    BY <1>2, <1>3, <1>6, <2>1, <2>2, <2>3
  <2> QED  BY <1>3, <1>6, <2>1, <2>3
<1>8. AnalyticsTypeOK'
  <2>1. 0 \in 0 .. MaxMessages
    OBVIOUS
  <2>2. at' \in [Consumers -> {"fetch", "handle", "commit", "publish", "record", "ended"}]
        /\ held' \in [Consumers -> 0 .. MaxMessages]
    BY <1>5, <2>1 DEF Go, AnalyticsTypeOK
  <2> QED  BY <1>4, <1>7, <2>2 DEF AnalyticsTypeOK
<1>9. TopicsGenuine' /\ ReviewsGenuine'
  BY <1>4 DEF TopicsGenuine, ReviewsGenuine, SameItem
<1>10. Grows
  <2>1. \A u \in Kinds : Len(topic[u]) \in Nat /\ deadTopic[u] \subseteq deadTopic'[u]
    <3>1. DOMAIN deadTopic = Kinds /\ \A u \in Kinds : Len(topic[u]) \in Nat
      BY DEF AnalyticsTypeOK
    <3>2. CASE deadTopic' = [deadTopic EXCEPT ![t] = @ \cup {held[w]}]
      BY <3>1, <3>2
    <3> QED  BY <1>6, <3>1, <3>2
  <2> QED  BY <1>4, <1>6, <2>1 DEF Grows
<1>11. to \in {"commit", "record"} => held[w] \in deadTopic'[t]
  <2>1. CASE PublishDeadLetter(w)
    BY <1>2, <1>5, <2>1 DEF PublishDeadLetter, Discard, Go, AnalyticsTypeOK
  <2>2. CASE RecordDeadLetter(w)
    BY <1>2, <1>5, <2>2 DEF RecordDeadLetter, Go, HandInv, AnalyticsTypeOK
  <2> QED  BY <2>1, <2>2
<1>12. to = "commit" /\ t = "behavior" => held[w] \in deadRecords'
  BY <1>2, <1>5 DEF PublishDeadLetter, RecordDeadLetter, Discard, Go, AnalyticsTypeOK
<1>13. Advances(w, to)
  BY <1>5 DEF Go, Advances
<1>14. to = "commit" => Recorded(t, held[w])'
  BY <1>2, <1>4, <1>11, <1>12, <1>13 DEF Advances, Recorded
<1>15. HandInv' /\ BehindInv'
  <2>1. at[w] \in InHand /\ to # "fetch"
    BY <1>1 DEF InHand
  <2> HIDE DEF AnalyticsInv
  <2> QED  BY <1>2, <1>4, <1>10, <1>11, <1>13, <1>14, <2>1, RunMovesOn DEF Recorded
<1> QED  BY <1>8, <1>9, <1>15

LEMMA OffsetKeeps ==
  ASSUME AnalyticsInv, NEW w \in Consumers, CommitMessage(w)
  PROVE  AnalyticsInv'
<1> USE AnalyticsConstants DEF AnalyticsInv
<1> DEFINE t == KindOf[w]
<1>1. at[w] = "commit" /\ UNCHANGED <<paid, reviews, topic, assigned, handed, handled, stats,
                                       deadTopic, deadRecords, restarts>>
  BY DEF CommitMessage, Go, reviewVars, counts, deadVars
<1>2. PICK to \in {"fetch", "ended"} : Go(w, "commit", to)
  BY DEF CommitMessage
<1>3. offset' = offset \/ offset' = [offset EXCEPT ![t] = held[w]]
  BY DEF CommitMessage
<1>4. AnalyticsTypeOK'
  <2>1. 0 \in 0 .. MaxMessages /\ held[w] \in 0 .. MaxMessages
    BY DEF AnalyticsTypeOK
  <2>2. at' \in [Consumers -> {"fetch", "handle", "commit", "publish", "record", "ended"}]
        /\ held' \in [Consumers -> 0 .. MaxMessages] /\ offset' \in [Kinds -> 0 .. MaxMessages]
    BY <1>2, <1>3, <2>1 DEF Go, AnalyticsTypeOK
  <2> QED  BY <1>1, <2>2 DEF AnalyticsTypeOK
<1>5. TopicsGenuine' /\ ReviewsGenuine'
  BY <1>1 DEF TopicsGenuine, ReviewsGenuine, SameItem
<1>6. Grows
  BY <1>1 DEF Grows, AnalyticsTypeOK
<1>7. Advances(w, to) /\ to # "commit" /\ to # "record"
  BY <1>2 DEF Go, Advances
<1>8. HandInv' /\ BehindInv'
  BY <1>1, <1>3, <1>6, <1>7, RunMovesOn DEF InHand
<1> QED  BY <1>4, <1>5, <1>8

LEMMA AnalyticsInvStep ==
  ASSUME AnalyticsInv, [AnalyticsNext]_analyticsVars
  PROVE  AnalyticsInv'
<1>1. CASE UNCHANGED analyticsVars
  BY <1>1 DEF analyticsVars, reviewVars, group, run, counts, deadVars, AnalyticsInv,
              AnalyticsTypeOK, TopicsGenuine, ReviewsGenuine, SameItem, HandInv, BehindInv, Recorded
<1>2. CASE AnalyticsNext
  BY <1>2, PayKeeps, SubmitReviewKeeps, DeliverKeeps, AssignmentKeeps, HandleKeeps, FetchKeeps,
     DeadLetterKeeps, OffsetKeeps DEF AnalyticsNext, Run
<1> QED  BY <1>1, <1>2

\* What holds in every reachable state: the types (the statistics stay natural numbers),
\* genuine topics and reviews, and records for all that is behind an offset or a reader.
THEOREM AnalyticsInvariant == AnalyticsSpec => []AnalyticsInv
<1>1. AnalyticsInit => AnalyticsInv
  BY AnalyticsInvInit
<1>2. AnalyticsInv /\ [AnalyticsNext]_analyticsVars => AnalyticsInv'
  BY AnalyticsInvStep
<1> QED  BY <1>1, <1>2, PTL DEF AnalyticsSpec

\* "do not commit; Kafka redelivery retries": whatever fails, is rebalanced or restarted,
\* and however late an offset is committed, the group leaves nothing behind that is not
\* recorded.
THEOREM NothingPassedOver == AnalyticsSpec => []PassedIsRecorded
<1>1. AnalyticsInv => PassedIsRecorded
  BY DEF AnalyticsInv, AnalyticsTypeOK, BehindInv, PassedIsRecorded, Recorded
<1> QED  BY <1>1, AnalyticsInvariant, PTL

--------------------------------------------------------------------------------
(* Statistics *)

LEMMA CountsInit == AnalyticsInit => CountsMatch
<1> SUFFICES ASSUME AnalyticsInit PROVE CountsMatch
  OBVIOUS
<1>1. handled \cap Submissions = {} /\ \A p \in Products : HandledOf(p) = {}
  BY DEF AnalyticsInit, HandledOf
<1>2. SumOfRatings({}) = 0
  BY SumOfNothing DEF SumOfRatings
<1> QED  BY <1>1, <1>2, FS_EmptySet DEF AnalyticsInit, CountsMatch

\* Another review in the statistics of a product.
LEMMA ReviewAdded ==
  ASSUME NEW S, IsFiniteSet(S), S \subseteq Submissions, NEW e \in Submissions, e \notin S,
         \A s \in S \cup {e} : ReviewOf[s].rating \in Ratings
  PROVE  /\ Cardinality(S \cup {e}) = Cardinality(S) + 1
         /\ SumOfRatings(S \cup {e}) = SumOfRatings(S) + ReviewOf[e].rating
<1> DEFINE f == [s \in Submissions |-> ReviewOf[s].rating]
<1>1. \A s \in S \cup {e} : f[s] \in Nat
  BY DEF Ratings
<1>2. f[e] = ReviewOf[e].rating
  OBVIOUS
<1>3. SumFunctionOnSet(f, S \cup {e}) = SumFunctionOnSet(f, S) + f[e]
  <2> HIDE DEF f
  <2> QED  BY <1>1, SumAdds
<1> QED  BY <1>2, <1>3, FS_AddElement DEF SumOfRatings

LEMMA EventCountedOnce ==
  ASSUME AnalyticsInv, CountsMatch, NEW e \in reviews \cup BehaviorEvents, HandleEvent(e)
  PROVE  CountsMatch'
<1> USE AnalyticsConstants
<1>1. stats \in [Products -> [count : Nat, sum : Nat]] /\ reviews \subseteq Submissions
  BY DEF AnalyticsInv, AnalyticsTypeOK
<1>2. CASE e \in handled \/ e \notin Submissions
  <2>1. handled' \cap Submissions = handled \cap Submissions /\ stats' = stats
    BY <1>2 DEF HandleEvent, UpdateProductStats
  <2>2. \A p \in Products : HandledOf(p)' = HandledOf(p)
    BY <2>1 DEF HandledOf
  <2> QED  BY <2>1, <2>2 DEF CountsMatch
<1>3. CASE e \notin handled /\ e \in Submissions
  <2> DEFINE q == ProductOf[ReviewOf[e].sku]
             S == handled \cap Submissions
  <2>1. q \in Products /\ e \in reviews
    BY <1>3
  <2>2. stats' = [stats EXCEPT ![q] = [count |-> @.count + 1, sum |-> @.sum + ReviewOf[e].rating]]
    BY <1>3 DEF HandleEvent, UpdateProductStats
  <2>3. handled' \cap Submissions = S \cup {e}
    BY <1>3 DEF HandleEvent
  <2>4. IsFiniteSet(S) /\ IsFiniteSet(S \cup {e})
    BY FS_AddElement DEF CountsMatch
  <2>5. \A s \in S \cup {e} : ReviewOf[s].rating \in Ratings
    BY <2>1 DEF AnalyticsInv, ReviewsGenuine
  <2>6. ASSUME NEW p \in Products
        PROVE  stats'[p] = [count |-> Cardinality(HandledOf(p)'), sum |-> SumOfRatings(HandledOf(p)')]
    <3>1. IsFiniteSet(HandledOf(p)) /\ HandledOf(p) \subseteq Submissions
      BY <2>4, FS_Subset DEF HandledOf
    <3>2. stats[p] = [count |-> Cardinality(HandledOf(p)), sum |-> SumOfRatings(HandledOf(p))]
      BY DEF CountsMatch
    <3>3. CASE p = q
      <4>1. HandledOf(p)' = HandledOf(p) \cup {e} /\ e \notin HandledOf(p)
        BY <1>3, <3>3 DEF HandledOf, HandleEvent
      <4>2. \A s \in HandledOf(p) \cup {e} : ReviewOf[s].rating \in Ratings
        BY <2>5 DEF HandledOf
      <4>3. /\ Cardinality(HandledOf(p)') = Cardinality(HandledOf(p)) + 1
            /\ SumOfRatings(HandledOf(p)') = SumOfRatings(HandledOf(p)) + ReviewOf[e].rating
        BY <1>3, <3>1, <4>1, <4>2, ReviewAdded
      <4>4. stats'[p] = [count |-> stats[p].count + 1, sum |-> stats[p].sum + ReviewOf[e].rating]
        BY <1>1, <2>1, <2>2, <3>3
      <4> QED  BY <3>2, <4>3, <4>4
    <3>4. CASE p # q
      <4>1. HandledOf(p)' = HandledOf(p)
        BY <3>4 DEF HandledOf, HandleEvent
      <4>2. stats'[p] = stats[p]
        BY <1>1, <2>1, <2>2, <3>4
      <4> QED  BY <3>2, <4>1, <4>2
    <3> QED  BY <3>3, <3>4
  <2>7. IsFiniteSet(handled' \cap Submissions)
    BY <2>3, <2>4
  <2>8. \A p \in Products : SumOfRatings(HandledOf(p))' = SumOfRatings(HandledOf(p)')
    BY DEF SumOfRatings
  <2> QED  BY <2>6, <2>7, <2>8 DEF CountsMatch
<1> QED  BY <1>2, <1>3

LEMMA CountsStep ==
  ASSUME AnalyticsInv, CountsMatch, [AnalyticsNext]_analyticsVars
  PROVE  CountsMatch'
<1>1. ASSUME NEW w \in Consumers, Handle(w) \/ HandleFails(w)
      PROVE  CountsMatch'
  <2>1. Message(w) \in reviews \cup BehaviorEvents
    BY <1>1, EventInHand DEF Handle, HandleFails, Go
  <2>2. CASE HandleEvent(Message(w))
    BY <2>1, <2>2, EventCountedOnce
  <2>3. CASE UNCHANGED counts
    BY <2>3 DEF counts, CountsMatch, HandledOf, SumOfRatings
  <2> QED  BY <1>1, <2>2, <2>3 DEF Handle, HandleFails
<1>2. CASE UNCHANGED counts
  BY <1>2 DEF counts, CountsMatch, HandledOf, SumOfRatings
<1>3. \/ UNCHANGED counts
      \/ \E w \in Consumers : Handle(w) \/ HandleFails(w)
  BY DEF AnalyticsNext, analyticsVars, Run, Pay, SubmitReview, Deliver, AssignPartition, RevokePartition,
         RestartService, FetchMessage, FetchTimesOut, PublishDeadLetter, RecordDeadLetter,
         CommitMessage
<1> QED  BY <1>1, <1>2, <1>3

\* A review is let in once per order item and only when its order is PAID; however often
\* its event is delivered, half handled or handled again, its product counts it exactly
\* once, and its rating (analytics/consumer.go:82-164, analytics/repository.go:36-91).
THEOREM StatisticsMatch == AnalyticsSpec => []StatsMatchReviews
<1>1. AnalyticsInit => CountsMatch
  BY CountsInit
<1>2. AnalyticsInv /\ CountsMatch /\ [AnalyticsNext]_analyticsVars => CountsMatch'
  BY CountsStep
<1>3. AnalyticsInv /\ CountsMatch => StatsMatchReviews
  BY AnalyticsConstants DEF AnalyticsInv, ReviewsGenuine, CountsMatch, StatsMatchReviews
<1> QED  BY <1>1, <1>2, <1>3, AnalyticsInvariant, PTL DEF AnalyticsSpec

--------------------------------------------------------------------------------
(* AgentRun                                                                  *)

Between == {"loop", "verify", "complete", "succeed"}
Appending == {"appendModel", "appendTool"}
AtWork == {"model", "markModel", "tool", "markTool", "failStep"}

\* Steps before the current one have succeeded, those after it do not exist yet.
Shape(r) ==
  /\ \A i \in StepNos : i < n[r] => steps[r][i] = "SUCCEEDED"
  /\ \A i \in StepNos : i > n[r] => steps[r][i] = "none"

\* Where the handler is says what the run and its current step are.
Phase(r) ==
  /\ pc[r] \in {"idle", "create"} => runs[r] = "none"
  /\ runs[r] = "none" => n[r] = 0
  /\ pc[r] \in Calls \ {"create"} => runs[r] = "RUNNING"
  /\ pc[r] \in Between /\ n[r] # 0 => steps[r][n[r]] = "SUCCEEDED"
  /\ pc[r] \in Appending => n[r] # 0 /\ steps[r][n[r]] = "none"
  /\ pc[r] \in AtWork => n[r] # 0 /\ steps[r][n[r]] = "RUNNING"

\* The writes that may still take effect.
LateShape(r) ==
  \A w \in late : w.run = r =>
    /\ pc[r] \in {"fail", "done", "dead"}
    /\ w.op = "create" => pc[r] = "done" /\ n[r] = 0
    /\ w.op \in {"append", "step"} => n[r] # 0 /\ w.step = n[r]
    /\ w.op = "run" => pc[r] = "done"
    /\ w.op # "create" => runs[r] # "none"
    /\ w.status = "SUCCEEDED" \/ w.op # "run" \/ w.status = "FAILED"
    /\ w.op \in {"create", "append"} => w.status = "RUNNING"

\* A run that succeeded, or may yet, has no other write left.
Succeeds(r) == \E w \in late : w.run = r /\ w.op = "run" /\ w.status = "SUCCEEDED"

SucceededLast(r) ==
  runs[r] = "SUCCEEDED" \/ Succeeds(r) =>
    /\ pc[r] = "done"
    /\ n[r] # 0 => steps[r][n[r]] = "SUCCEEDED"
    /\ \A w \in late : w.run = r => w.op \notin {"append", "step"}

Answered(r) ==
  /\ pc[r] # "done" => answer[r] = None
  /\ answer[r] = "SUCCEEDED" => runs[r] = "SUCCEEDED"
  /\ answer[r] \in {"FailedPrecondition", "InvalidArgument"} =>
       runs[r] \notin {"none", "SUCCEEDED"} /\ ~Succeeds(r)

\* Writes are interrupted by a broken connection or the end of a context; that of the run
\* interrupts writes of steps only.
Closed(r) ==
  r \notin broken /\ CallLive(r) =>
    /\ \A w \in late : w.run = r => ~RunLive(r) /\ w.op \in {"append", "step"}
    /\ pc[r] = "done" => runs[r] # "RUNNING"
    /\ RunLive(r) /\ pc[r] \in {"fail", "done"} /\ n[r] # 0 => steps[r][n[r]] # "RUNNING"

\* SKUs that may be recommended: they were saleable, and the model proposed them.
Proposed(r, K) ==
  /\ K \subseteq offered[r]
  /\ \A k \in K : \E i \in DOMAIN final[r].items : final[r].items[i].sku = k

Recommended(r) ==
  /\ pc[r] \in Calls \ {"create"} => saleable \subseteq offered[r]
  /\ pc[r] = "verify" => next[r] # 0
  /\ pc[r] \in {"verify", "complete"} => Proposed(r, verified[r])
  /\ \A w \in late : w.run = r /\ w.op = "run" =>
       Proposed(r, w.skus) /\ (w.skus # {} => w.status = "SUCCEEDED")
  /\ Proposed(r, recs[r])
  /\ recs[r] # {} => runs[r] = "SUCCEEDED"

RunInv(r) ==
  /\ Shape(r)
  /\ Phase(r)
  /\ LateShape(r)
  /\ SucceededLast(r)
  /\ Answered(r)
  /\ Closed(r)
  /\ Recommended(r)

\* A timeline that began with SUCCEEDED has seen what the run is to stay.
ViewInv(q) ==
  view[q].at # "idle" =>
    /\ view[q].run \in Runs
    /\ view[q].status = "SUCCEEDED" =>
         /\ runs[view[q].run] = "SUCCEEDED"
         /\ view[q].at \in {"recs", "shown"} => view[q].steps = steps[view[q].run]
         /\ view[q].at = "shown" => view[q].recs = recs[view[q].run]

AgentInv ==
  /\ AgentTypeOK
  /\ \A r \in Runs : RunInv(r)
  /\ \A q \in Readers : ViewInv(q)

--------------------------------------------------------------------------------
(* A run and the others *)

LEMMA AgentInvInit == AgentInit => AgentInv
<1> SUFFICES ASSUME AgentInit PROVE AgentInv
  OBVIOUS
<1> USE AgentConstants
<1>1. AgentTypeOK
  <2>1. NoView \in Views
    BY DEF NoView, Views, RunStatuses, StepStatuses
  <2>2. NoOutput \in Outputs
    BY DEF NoOutput, Outputs
  <2>3. 0 \in 0 .. MaxSteps
    OBVIOUS
  <2> QED  BY <2>1, <2>2, <2>3 DEF AgentInit, AgentTypeOK, RunStatuses, StepStatuses, Contexts
<1>2. ASSUME NEW r \in Runs
      PROVE  RunInv(r)
  BY DEF AgentInit, RunInv, Shape, Phase, LateShape, SucceededLast, Succeeds, Answered, Closed,
         Recommended, Proposed, Replies, Calls, Between, Appending, AtWork, StepNos
<1>3. \A q \in Readers : ViewInv(q)
  BY DEF AgentInit, ViewInv, NoView
<1> QED  BY <1>1, <1>2, <1>3 DEF AgentInv

\* Nothing of run r changes.
Same(r) ==
  /\ runs'[r] = runs[r] /\ steps'[r] = steps[r] /\ recs'[r] = recs[r]
  /\ ctx'[r] = ctx[r] /\ pc'[r] = pc[r] /\ n'[r] = n[r] /\ final'[r] = final[r]
  /\ next'[r] = next[r] /\ verified'[r] = verified[r] /\ answer'[r] = answer[r]
  /\ offered'[r] = offered[r]
  /\ r \in broken' <=> r \in broken
  /\ \A w : w.run = r => (w \in late' <=> w \in late)

LEMMA RunSame ==
  ASSUME NEW r \in Runs, RunInv(r), Same(r), saleable' = saleable
  PROVE  RunInv(r)'
<1>1. Succeeds(r)' <=> Succeeds(r)
  BY DEF Same, Succeeds
<1>2. Shape(r)' /\ Phase(r)' /\ Answered(r)'
  BY <1>1 DEF RunInv, Same, Shape, Phase, Answered
<1>3. LateShape(r)' /\ SucceededLast(r)' /\ Closed(r)'
  BY <1>1 DEF RunInv, Same, LateShape, SucceededLast, Closed, CallLive, RunLive
<1>4. \A K : Proposed(r, K) => Proposed(r, K)'
  BY DEF Same, Proposed
<1>5. Recommended(r)'
  BY <1>4 DEF RunInv, Same, Recommended
<1> QED  BY <1>2, <1>3, <1>5 DEF RunInv

\* What a run that succeeded shows never changes.
Frozen ==
  \A r \in Runs : runs[r] = "SUCCEEDED" =>
    runs'[r] = "SUCCEEDED" /\ steps'[r] = steps[r] /\ recs'[r] = recs[r]

LEMMA ViewsKept ==
  ASSUME \A q \in Readers : ViewInv(q), Frozen, view' = view
  PROVE  \A q \in Readers : ViewInv(q)'
BY DEF ViewInv, Frozen

\* A step of one handler leaves the other runs, and what is seen of them, alone.
OnlyRun(r) ==
  /\ \A q \in Runs : q # r => Same(q)
  /\ saleable' = saleable
  /\ view' = view

LEMMA HandlerStep ==
  ASSUME AgentInv, NEW r \in Runs, pc[r] # "done", OnlyRun(r), AgentTypeOK', RunInv(r)'
  PROVE  AgentInv'
<1>1. \A q \in Runs : RunInv(q)'
  BY RunSame DEF AgentInv, OnlyRun
<1>2. runs[r] # "SUCCEEDED"
  BY DEF AgentInv, RunInv, SucceededLast
<1>3. Frozen
  BY <1>2 DEF Frozen, OnlyRun, Same
<1>4. \A q \in Readers : ViewInv(q)'
  BY <1>3, ViewsKept DEF AgentInv, OnlyRun
<1> QED  BY <1>1, <1>4 DEF AgentInv

--------------------------------------------------------------------------------
(* Writes *)

LEMMA WriteTypes ==
  ASSUME AgentTypeOK, NEW r \in Runs, NEW s \in {"SUCCEEDED", "FAILED", "TIMEOUT"},
         NEW K \in SUBSET SKUs
  PROVE  /\ CreateWrite(r) \in Write /\ AppendWrite(r) \in Write /\ StepWrite(r, s) \in Write
         /\ RunWrite(r, s, K) \in Write
BY AgentConstants DEF AgentTypeOK, Write, CreateWrite, AppendWrite, StepWrite, RunWrite

LEMMA NotStoredEffect ==
  ASSUME AgentTypeOK, NEW r \in Runs, NEW live \in BOOLEAN, live => CallLive(r),
         NEW w \in Write, w.run = r, NEW e, NotStored(r, live, w, e)
  PROVE  /\ UNCHANGED <<sessions, runs, steps, recs>>
         /\ late' \subseteq Write /\ ctx' \in [Runs -> Contexts] /\ broken' \subseteq Runs
         /\ \A q \in Runs : q # r => /\ ctx'[q] = ctx[q]
                                     /\ q \in broken' <=> q \in broken
                                     /\ \A v : v.run = q => (v \in late' <=> v \in late)
         /\ late' = late \/ (late' = late \cup {w} /\ Matches(w))
         /\ e \in {"store", "DEADLINE_EXCEEDED"}
         /\ CallLive(r)' => CallLive(r)
         /\ RunLive(r)' => RunLive(r)
         /\ r \notin broken' => r \notin broken
         /\ CallLive(r)' /\ r \notin broken' =>
              \/ late' = late /\ (~live \/ ~Matches(w))
              \/ w.op \in {"append", "step"} /\ ~RunLive(r)'
<1> USE DEF NotStored, AgentTypeOK, store
<1>1. CASE ~live /\ e = ContextError(ctx[r]) /\ UNCHANGED <<late, ctx, broken>>
  BY <1>1 DEF CallLive, RunLive, ContextError
<1>2. CASE live /\ ~Matches(w) /\ e = "store" /\ UNCHANGED <<late, ctx, broken>>
  BY <1>2 DEF CallLive, RunLive
<1>3. CASE /\ live /\ Matches(w) /\ late' = late \cup {w} /\ e = "store"
           /\ broken' = broken \cup {r} /\ UNCHANGED ctx
  BY <1>3 DEF CallLive, RunLive
<1>4. ASSUME NEW c \in MayEnd(w), live, Matches(w), late' = late \cup {w},
             e = ContextError(c), ctx' = [ctx EXCEPT ![r] = c], UNCHANGED broken
      PROVE  /\ ctx' \in [Runs -> Contexts] /\ e \in {"store", "DEADLINE_EXCEEDED"}
             /\ ctx'[r] = c /\ (\A q \in Runs : q # r => ctx'[q] = ctx[q])
  BY <1>4 DEF Contexts, ContextError, MayEnd
<1>5. ASSUME NEW c \in MayEnd(w), live, Matches(w), late' = late \cup {w},
             e = ContextError(c), ctx' = [ctx EXCEPT ![r] = c], UNCHANGED broken
      PROVE  ~RunLive(r)' /\ (CallLive(r)' => w.op \in {"append", "step"})
  BY <1>4, <1>5 DEF CallLive, RunLive, MayEnd
<1> QED  BY <1>1, <1>2, <1>3, <1>4, <1>5

LEMMA StoredSteps ==
  ASSUME AgentTypeOK, NEW r \in Runs, NEW live, NEW w \in Write, w.run = r,
         w.op \in {"append", "step"}, w.step # 0, Stored(r, live, w)
  PROVE  /\ Matches(w) /\ live
         /\ UNCHANGED <<sessions, runs, recs, late, ctx, broken>>
         /\ steps' \in [Runs -> [StepNos -> StepStatuses]]
         /\ w.step \in StepNos /\ steps'[r][w.step] = w.status
         /\ \A i \in StepNos : i # w.step => steps'[r][i] = steps[r][i]
         /\ \A q \in Runs : q # r => steps'[q] = steps[q]
<1>1. steps' = [steps EXCEPT ![r][w.step] = w.status] /\ Matches(w) /\ live
      /\ UNCHANGED <<sessions, runs, recs, late, ctx, broken>>
  BY DEF Stored, Apply
<1>2. w.step \in StepNos /\ w.status \in StepStatuses
  BY AgentConstants DEF Write, StepNos, StepStatuses
<1>3. steps \in [Runs -> [StepNos -> StepStatuses]]
  BY DEF AgentTypeOK
<1> QED  BY <1>1, <1>2, <1>3

LEMMA StoredRun ==
  ASSUME AgentTypeOK, NEW r \in Runs, NEW live, NEW w \in Write, w.run = r, w.op \in {"run", "create"},
         w.status \in RunStatuses, Stored(r, live, w)
  PROVE  /\ Matches(w) /\ live
         /\ UNCHANGED <<steps, late, ctx, broken>>
         /\ sessions' \subseteq Sessions
         /\ runs' \in [Runs -> RunStatuses] /\ runs'[r] = w.status
         /\ recs' \in [Runs -> SUBSET SKUs] /\ recs'[r] = IF w.op = "run" THEN w.skus ELSE recs[r]
         /\ \A q \in Runs : q # r => runs'[q] = runs[q] /\ recs'[q] = recs[q]
<1>1. /\ runs' = [runs EXCEPT ![r] = w.status] /\ steps' = steps /\ Matches(w) /\ live
      /\ recs' = IF w.op = "run" THEN [recs EXCEPT ![r] = w.skus] ELSE recs
      /\ sessions' = IF w.op = "create" THEN sessions \cup {SessionOf[r]} ELSE sessions
      /\ UNCHANGED <<late, ctx, broken>>
  BY DEF Stored, Apply
<1>2. w.skus \in SUBSET SKUs /\ SessionOf[r] \in Sessions
  BY AgentConstants DEF Write
<1>3. runs \in [Runs -> RunStatuses] /\ recs \in [Runs -> SUBSET SKUs] /\ sessions \subseteq Sessions
  BY DEF AgentTypeOK
<1> QED  BY <1>1, <1>2, <1>3

--------------------------------------------------------------------------------
(* Steps that write nothing *)

\* The rows of a run stay, whatever its handler does.
RowsKept ==
  UNCHANGED <<sessions, runs, steps, recs, late, ctx, answer, saleable, view, broken, offered>>

\* Only the handler of r moves, to another call of its own.
Moves(r) ==
  /\ pc' \in [Runs -> Calls \cup {"idle", "done", "dead"}] /\ n' \in [Runs -> 0 .. MaxSteps]
  /\ err' \in [Runs -> Errors \cup {None}] /\ final' \in [Runs -> Outputs]
  /\ next' \in [Runs -> Nat] /\ verified' \in [Runs -> SUBSET SKUs]
  /\ \A q \in Runs : q # r =>
       /\ pc'[q] = pc[q] /\ n'[q] = n[q] /\ final'[q] = final[q] /\ next'[q] = next[q]
       /\ verified'[q] = verified[q]
  /\ pc[r] \in Calls \ {"create", "fail"} /\ pc'[r] \in (Calls \ {"create"}) \cup {"dead"}

\* ... and perhaps its current step.
StepMoves(r) ==
  /\ UNCHANGED <<sessions, runs, recs, late, ctx, answer, saleable, view, broken, offered>>
  /\ steps' \in [Runs -> [StepNos -> StepStatuses]]
  /\ \A q \in Runs : q # r => steps'[q] = steps[q]

LEMMA HandlerMoves ==
  ASSUME AgentInv, NEW r \in Runs, StepMoves(r), Moves(r),
         Shape(r)', Phase(r)', Recommended(r)',
         pc'[r] = "fail" /\ n'[r] # 0 => steps'[r][n'[r]] # "RUNNING"
  PROVE  AgentInv'
<1> USE DEF StepMoves
<1>1. RunInv(r) /\ AgentTypeOK
  BY DEF AgentInv
<1>2. AgentTypeOK'
  BY <1>1 DEF AgentTypeOK, Moves
<1>3. OnlyRun(r)
  BY DEF OnlyRun, Same, Moves
<1>4. pc[r] # "done" /\ pc'[r] # "done" /\ pc[r] \notin {"fail", "dead"}
  BY DEF Moves, Calls
<1>5. \A w \in late : w.run # r
  BY <1>1, <1>4 DEF RunInv, LateShape
<1>6. runs[r] # "SUCCEEDED" /\ answer[r] = None
  BY <1>1, <1>4 DEF RunInv, SucceededLast, Answered
<1>7. LateShape(r)' /\ ~Succeeds(r)'
  BY <1>5 DEF LateShape, Succeeds
<1>8. SucceededLast(r)' /\ Answered(r)'
  BY <1>4, <1>6, <1>7, AgentConstants DEF SucceededLast, Answered, Replies
<1>9. Closed(r)'
  BY <1>4, <1>5 DEF Closed, CallLive, RunLive
<1>10. RunInv(r)'
  BY <1>7, <1>8, <1>9 DEF RunInv
<1> QED  BY <1>2, <1>3, <1>4, <1>10, HandlerStep

LEMMA QuietStep ==
  ASSUME AgentInv, NEW r \in Runs, RowsKept, Moves(r),
         Shape(r)', Phase(r)', Recommended(r)',
         pc'[r] = "fail" /\ n'[r] # 0 => steps[r][n'[r]] # "RUNNING"
  PROVE  AgentInv'
<1>1. StepMoves(r)
  BY DEF StepMoves, RowsKept, AgentInv, AgentTypeOK
<1>2. steps'[r] = steps[r]
  BY DEF RowsKept
<1> QED  BY <1>1, <1>2, HandlerMoves

LEMMA StartRunKeeps ==
  ASSUME AgentInv, NEW r \in Runs, StartRun(r)
  PROVE  AgentInv'
<1> USE DEF StartRun, Goto, store, local
<1>1. RunInv(r) /\ AgentTypeOK
  BY DEF AgentInv
<1>2. /\ pc[r] = "idle" /\ pc' = [pc EXCEPT ![r] = "create"] /\ pc'[r] = "create"
      /\ \A q \in Runs : q # r => pc'[q] = pc[q]
  BY <1>1 DEF AgentTypeOK
<1>3. AgentTypeOK'
  BY <1>1, <1>2 DEF AgentTypeOK, Calls
<1>4. OnlyRun(r)
  BY <1>2 DEF OnlyRun, Same
<1>5. \A w \in late : w.run # r
  BY <1>1, <1>2 DEF RunInv, LateShape
<1>6. Shape(r)' /\ Phase(r)'
  BY <1>1, <1>2 DEF RunInv, Shape, Phase, Between, Appending, AtWork
<1>7. LateShape(r)' /\ SucceededLast(r)' /\ Answered(r)' /\ Closed(r)'
  BY <1>1, <1>2, <1>5 DEF RunInv, LateShape, SucceededLast, Succeeds, Answered, Closed, CallLive, RunLive
<1>8. Recommended(r)'
  BY <1>1, <1>2 DEF RunInv, Recommended, Proposed
<1> QED  BY <1>2, <1>3, <1>4, <1>6, <1>7, <1>8, HandlerStep DEF RunInv

LEMMA LoopKeeps ==
  ASSUME AgentInv, NEW r \in Runs, Loop(r)
  PROVE  AgentInv'
<1> USE AgentConstants DEF Loop, Goto, Fail, StepsExhausted, store
<1>1. RunInv(r) /\ AgentTypeOK
  BY DEF AgentInv
<1>2. n[r] \in 0 .. MaxSteps /\ pc[r] = "loop"
  BY <1>1 DEF AgentTypeOK
<1>3. RowsKept
  BY DEF RowsKept
<1>4. CASE n[r] >= MaxSteps
  <2>1. Moves(r) /\ pc'[r] = "fail" /\ UNCHANGED <<n, final, next, verified>>
    BY <1>1, <1>2, <1>4 DEF AgentTypeOK, Moves, Calls, Errors
  <2>2. Shape(r)' /\ Phase(r)' /\ (n[r] # 0 => steps[r][n[r]] # "RUNNING")
    BY <1>1, <1>2, <1>3, <2>1 DEF RunInv, Shape, Phase, RowsKept, Between, Appending, AtWork, Calls
  <2>3. Recommended(r)'
    BY <1>1, <1>2, <1>3, <2>1 DEF RunInv, Recommended, Proposed, RowsKept, Calls
  <2> QED  BY <1>3, <2>1, <2>2, <2>3, QuietStep
<1>5. CASE n[r] < MaxSteps
  <2>1. Moves(r) /\ pc'[r] = "appendModel" /\ n'[r] = n[r] + 1 /\ UNCHANGED <<final, next, verified>>
    <3>1. n[r] + 1 \in 0 .. MaxSteps /\ n' = [n EXCEPT ![r] = n[r] + 1]
          /\ pc' = [pc EXCEPT ![r] = "appendModel"] /\ UNCHANGED <<err, final, next, verified>>
      BY <1>2, <1>5
    <3>2. n' \in [Runs -> 0 .. MaxSteps] /\ n'[r] = n[r] + 1 /\ \A q \in Runs : q # r => n'[q] = n[q]
      BY <1>1, <3>1 DEF AgentTypeOK
    <3> QED  BY <1>1, <1>2, <3>1, <3>2 DEF AgentTypeOK, Moves, Calls
  <2>2. Shape(r)'
    BY <1>1, <1>2, <1>3, <2>1 DEF RunInv, Shape, Phase, RowsKept, Between, StepNos
  <2>3. Phase(r)'
    BY <1>1, <1>2, <1>3, <1>5, <2>1 DEF RunInv, Shape, Phase, RowsKept, Between, Appending, AtWork, Calls, StepNos
  <2>4. Recommended(r)'
    BY <1>1, <1>2, <1>3, <2>1 DEF RunInv, Recommended, Proposed, RowsKept, Calls
  <2> QED  BY <1>3, <2>1, <2>2, <2>3, <2>4, QuietStep
<1> QED  BY <1>2, <1>4, <1>5

LEMMA ModelNextKeeps ==
  ASSUME AgentInv, NEW r \in Runs, ModelNext(r) \/ ExecuteTool(r)
  PROVE  AgentInv'
<1> USE AgentConstants DEF ModelNext, ExecuteTool, Goto, store
<1>1. RunInv(r) /\ AgentTypeOK
  BY DEF AgentInv
<1>2. RowsKept /\ UNCHANGED <<n, next, verified>> /\ pc[r] \in {"model", "tool"}
  BY DEF RowsKept
<1>3. err' \in [Runs -> Errors \cup {None}]
  <2>1. ToolErrors(r) \subseteq Errors
    BY DEF ToolErrors, MapToolDependencyError, MapDependencyError, Errors
  <2>2. err' = err \/ \E e \in Errors : err' = [err EXCEPT ![r] = e]
    BY <2>1 DEF Errors
  <2>3. err \in [Runs -> Errors \cup {None}]
    BY <1>1 DEF AgentTypeOK
  <2> QED  BY <2>2, <2>3
<1>4. final' \in [Runs -> Outputs] /\ \A q \in Runs : q # r => final'[q] = final[q]
  <2>1. final' = final \/ \E out \in Outputs : final' = [final EXCEPT ![r] = out]
    OBVIOUS
  <2>2. final \in [Runs -> Outputs]
    BY <1>1 DEF AgentTypeOK
  <2> QED  BY <2>1, <2>2
<1>5. Moves(r) /\ pc'[r] \in {"markModel", "markTool", "failStep"}
  <2>1. PICK p \in {"markModel", "markTool", "failStep"} : pc' = [pc EXCEPT ![r] = p]
    OBVIOUS
  <2>2. pc' \in [Runs -> Calls \cup {"idle", "done", "dead"}] /\ pc'[r] = p
        /\ \A q \in Runs : q # r => pc'[q] = pc[q]
    BY <1>1, <2>1 DEF AgentTypeOK, Calls
  <2> QED  BY <1>1, <1>2, <1>3, <1>4, <2>2 DEF AgentTypeOK, Moves, Calls
<1>6. Shape(r)' /\ Phase(r)'
  BY <1>1, <1>2, <1>5 DEF RunInv, Shape, Phase, RowsKept, Between, Appending, AtWork, Calls
<1>7. recs[r] = {}
  BY <1>1, <1>2 DEF RunInv, Recommended, Phase, Calls
<1>8. Recommended(r)'
  <2>1. \A w \in late : w.run # r
    BY <1>1, <1>2 DEF RunInv, LateShape
  <2> QED  BY <1>1, <1>2, <1>5, <1>7, <2>1 DEF RunInv, Recommended, Proposed, RowsKept, Calls
<1> QED  BY <1>2, <1>5, <1>6, <1>8, QuietStep

LEMMA FinalTypes ==
  ASSUME AgentTypeOK, NEW r \in Runs
  PROVE  final[r].items \in Seq(Items)
<1>1. final[r] \in Outputs
  BY DEF AgentTypeOK
<1>2. final[r].items \in Answers \/ final[r].items = << >>
  BY <1>1 DEF Outputs
<1>3. << >> \in Seq(Items)
  OBVIOUS
<1>4. Answers \subseteq Seq(Items)
  BY AgentConstants
<1> QED  BY <1>2, <1>3, <1>4

LEMMA VerifyKeeps ==
  ASSUME AgentInv, NEW r \in Runs, Verify(r)
  PROVE  AgentInv'
<1> USE AgentConstants DEF Goto, Fail, store
<1>1. RunInv(r) /\ AgentTypeOK
  BY DEF AgentInv
<1>2. RowsKept /\ UNCHANGED <<n, final>> /\ pc[r] = "verify"
  BY DEF Verify, RowsKept
<1>3. /\ next[r] \in Nat /\ next[r] # 0 /\ Proposed(r, verified[r]) /\ recs[r] = {}
      /\ saleable \subseteq offered[r] /\ (n[r] # 0 => steps[r][n[r]] = "SUCCEEDED")
  BY <1>1, <1>2 DEF AgentTypeOK, RunInv, Recommended, Phase, Calls, Between
<1>4. \A w \in late : w.run # r
  BY <1>1, <1>2 DEF RunInv, LateShape
<1>5. Shape(r)' /\ (pc'[r] \in {"verify", "complete", "fail"} => Phase(r)')
  BY <1>1, <1>2 DEF RunInv, Shape, Phase, RowsKept, Between, Appending, AtWork, Calls
<1>6. CASE /\ UNCHANGED <<next, verified>>
           /\ \/ pc' = [pc EXCEPT ![r] = "complete"] /\ UNCHANGED err
              \/ \E e \in Errors : Fail(r, e)
  <2>1. Moves(r) /\ pc'[r] \in {"complete", "fail"}
    <3>1. CASE pc' = [pc EXCEPT ![r] = "complete"] /\ UNCHANGED err
      BY <1>1, <1>2, <1>6, <3>1 DEF AgentTypeOK, Moves, Calls
    <3>2. CASE \E e \in Errors : Fail(r, e)
      BY <1>1, <1>2, <1>6, <3>2 DEF AgentTypeOK, Moves, Calls
    <3> QED  BY <1>6, <3>1, <3>2
  <2>2. Recommended(r)'
    BY <1>2, <1>3, <1>4, <1>6, <2>1 DEF Recommended, Proposed, RowsKept
  <2> QED  BY <1>2, <1>3, <1>5, <2>1, <2>2, QuietStep
<1>7. CASE /\ next[r] <= Len(final[r].items)
           /\ verified' = [verified EXCEPT ![r] = Keep(r)]
           /\ next' = [next EXCEPT ![r] = @ + 1]
           /\ UNCHANGED <<pc, err>>
  <2>1. Keep(r) \in SUBSET SKUs /\ Proposed(r, Keep(r))
    <3>1. verified[r] \in SUBSET SKUs /\ saleable \subseteq SKUs /\ final[r] \in Outputs
      BY <1>1 DEF AgentTypeOK
    <3>2. final[r].items \in Seq(Items)
      BY <1>1, FinalTypes
    <3>3. next[r] \in DOMAIN final[r].items
      BY <1>3, <1>7, <3>2
    <3> QED  BY <1>3, <3>1, <3>3 DEF Keep, Saleable, Candidate, Proposed
  <2>2. /\ verified' \in [Runs -> SUBSET SKUs] /\ verified'[r] = Keep(r)
        /\ \A q \in Runs : q # r => verified'[q] = verified[q]
    BY <1>1, <1>7, <2>1 DEF AgentTypeOK
  <2>3. /\ next' \in [Runs -> Nat] /\ next'[r] # 0 /\ \A q \in Runs : q # r => next'[q] = next[q]
    BY <1>1, <1>3, <1>7 DEF AgentTypeOK
  <2>4. Moves(r)
    BY <1>1, <1>2, <1>7, <2>2, <2>3 DEF AgentTypeOK, Moves, Calls
  <2>5. Recommended(r)'
    BY <1>2, <1>3, <1>4, <1>7, <2>1, <2>2, <2>3 DEF Recommended, Proposed, RowsKept
  <2> QED  BY <1>2, <1>3, <1>5, <1>7, <2>4, <2>5, QuietStep
<1>8. \/ /\ UNCHANGED <<next, verified>>
         /\ \/ pc' = [pc EXCEPT ![r] = "complete"] /\ UNCHANGED err
            \/ \E e \in Errors : Fail(r, e)
      \/ /\ next[r] <= Len(final[r].items)
         /\ verified' = [verified EXCEPT ![r] = Keep(r)]
         /\ next' = [next EXCEPT ![r] = @ + 1]
         /\ UNCHANGED <<pc, err>>
  <2>1. final[r].items \in Seq(Items)
    BY <1>1, FinalTypes
  <2>2. CASE next[r] > Len(final[r].items)
    BY <2>2 DEF Verify, Errors
  <2>3. CASE ~(next[r] > Len(final[r].items))
    BY <1>3, <2>1, <2>3 DEF Verify, Errors
  <2> QED  BY <2>2, <2>3
<1> QED  BY <1>6, <1>7, <1>8

\* The handler dies, or one of its contexts ends.
LEMMA EndsKeep ==
  ASSUME AgentInv, NEW r \in Runs, Crash(r) \/ ContextEnds(r)
  PROVE  AgentInv'
<1> USE AgentConstants DEF Goto, store, local
<1>1. RunInv(r) /\ AgentTypeOK
  BY DEF AgentInv
<1>2. pc[r] \in Calls /\ pc[r] # "done" /\ pc[r] # "dead" /\ runs[r] # "SUCCEEDED" /\ ~Succeeds(r)
  BY <1>1 DEF Crash, ContextEnds, Calls, RunInv, SucceededLast
<1>3. UNCHANGED <<sessions, runs, steps, recs, late, n, err, final, next, verified, answer, saleable,
                  view, broken, offered>>
  BY DEF Crash, ContextEnds
<1>4. CASE Crash(r)
  <2>1. /\ UNCHANGED ctx /\ pc' = [pc EXCEPT ![r] = "dead"] /\ pc'[r] = "dead"
        /\ \A q \in Runs : q # r => pc'[q] = pc[q]
    BY <1>1, <1>4 DEF Crash, AgentTypeOK
  <2>2. AgentTypeOK'
    BY <1>1, <1>3, <2>1 DEF AgentTypeOK
  <2>3. OnlyRun(r)
    BY <1>3, <2>1 DEF OnlyRun, Same
  <2>4. Shape(r)' /\ Phase(r)'
    BY <1>1, <1>3, <2>1 DEF RunInv, Shape, Phase, Calls, Between, Appending, AtWork
  <2>5. LateShape(r)' /\ ~Succeeds(r)'
    BY <1>1, <1>2, <1>3, <2>1 DEF RunInv, LateShape, Succeeds
  <2>6. SucceededLast(r)' /\ Answered(r)' /\ Closed(r)'
    BY <1>1, <1>2, <1>3, <2>1, <2>5 DEF RunInv, SucceededLast, Answered, Closed, CallLive, RunLive
  <2>7. Recommended(r)'
    BY <1>1, <1>3, <2>1 DEF RunInv, Recommended, Proposed, Calls
  <2> QED  BY <1>2, <2>2, <2>3, <2>4, <2>5, <2>6, <2>7, HandlerStep DEF RunInv
<1>5. CASE ContextEnds(r)
  <2>1. UNCHANGED pc /\ \E c \in Contexts \ {"live"} : ctx' = [ctx EXCEPT ![r] = c]
    BY <1>5 DEF ContextEnds, Contexts
  <2>2. /\ ctx' \in [Runs -> Contexts] /\ ctx'[r] # "live"
        /\ \A q \in Runs : q # r => ctx'[q] = ctx[q]
    BY <1>1, <2>1 DEF AgentTypeOK
  <2>3. CallLive(r)
    BY <1>5 DEF ContextEnds, CallLive
  <2>4. AgentTypeOK'
    BY <1>1, <1>3, <2>1, <2>2 DEF AgentTypeOK
  <2>5. OnlyRun(r)
    BY <1>3, <2>1, <2>2 DEF OnlyRun, Same
  <2>6. Shape(r)' /\ Phase(r)' /\ LateShape(r)' /\ ~Succeeds(r)'
    BY <1>1, <1>2, <1>3, <2>1 DEF RunInv, Shape, Phase, LateShape, Succeeds
  <2>7. SucceededLast(r)' /\ Answered(r)' /\ Closed(r)'
    BY <1>1, <1>2, <1>3, <2>1, <2>2, <2>3, <2>6 DEF RunInv, SucceededLast, Answered, Closed, RunLive
  <2>8. Recommended(r)'
    BY <1>1, <1>3, <2>1 DEF RunInv, Recommended, Proposed
  <2> QED  BY <1>2, <2>4, <2>5, <2>6, <2>7, <2>8, HandlerStep DEF RunInv
<1> QED  BY <1>4, <1>5

--------------------------------------------------------------------------------
(* Steps that write *)

LEMMA CreateRunKeeps ==
  ASSUME AgentInv, NEW r \in Runs, CreateRun(r)
  PROVE  AgentInv'
<1> USE AgentConstants DEF Goto, local
<1>1. RunInv(r) /\ AgentTypeOK
  BY DEF AgentInv
<1>2. /\ pc[r] = "create" /\ pc[r] # "done" /\ runs[r] = "none" /\ n[r] = 0 /\ recs[r] = {}
      /\ \A w \in late : w.run # r
  BY <1>1 DEF CreateRun, RunInv, Phase, LateShape, Recommended
<1>3. UNCHANGED <<n, err, final, next, verified, saleable, view>>
  BY DEF CreateRun
<1>4. CreateWrite(r) \in Write /\ CallLive(r) \in BOOLEAN
  BY <1>1, WriteTypes DEF CallLive
<1> DEFINE w == CreateWrite(r)
<1>5. w.run = r /\ w.op = "create" /\ w.status = "RUNNING"
  BY DEF CreateWrite
<1>6. CASE /\ Stored(r, CallLive(r), w)
           /\ offered' = [offered EXCEPT ![r] = saleable]
           /\ pc' = [pc EXCEPT ![r] = "loop"]
           /\ UNCHANGED answer
  <2> HIDE DEF w
  <2>1. /\ UNCHANGED <<steps, late, ctx, broken>> /\ sessions' \subseteq Sessions
        /\ runs' \in [Runs -> RunStatuses] /\ runs'[r] = "RUNNING"
        /\ recs' \in [Runs -> SUBSET SKUs] /\ recs'[r] = recs[r]
        /\ \A q \in Runs : q # r => runs'[q] = runs[q] /\ recs'[q] = recs[q]
    BY <1>1, <1>4, <1>5, <1>6, StoredRun DEF w, RunStatuses
  <2>2. /\ pc'[r] = "loop" /\ offered'[r] = saleable
        /\ pc' \in [Runs -> Calls \cup {"idle", "done", "dead"}] /\ offered' \in [Runs -> SUBSET SKUs]
        /\ \A q \in Runs : q # r => pc'[q] = pc[q] /\ offered'[q] = offered[q]
    BY <1>1, <1>6 DEF AgentTypeOK, Calls
  <2>3. AgentTypeOK'
    BY <1>1, <1>3, <1>6, <2>1, <2>2 DEF AgentTypeOK
  <2>4. OnlyRun(r)
    BY <1>3, <1>6, <2>1, <2>2 DEF OnlyRun, Same
  <2>5. Shape(r)' /\ Phase(r)' /\ LateShape(r)' /\ ~Succeeds(r)'
    BY <1>1, <1>2, <1>3, <2>1, <2>2
       DEF RunInv, Shape, Phase, LateShape, Succeeds, Between, Appending, AtWork, Calls
  <2>6. SucceededLast(r)' /\ Answered(r)' /\ Closed(r)'
    BY <1>1, <1>2, <1>3, <1>6, <2>1, <2>2, <2>5 DEF RunInv, SucceededLast, Answered, Closed, Replies
  <2>7. Recommended(r)'
    BY <1>2, <1>3, <2>1, <2>2 DEF Recommended, Proposed
  <2> QED  BY <1>2, <2>3, <2>4, <2>5, <2>6, <2>7, HandlerStep DEF RunInv
<1>7. ASSUME NEW e \in Errors, NotStored(r, CallLive(r), w, e), Refuse(r, e), UNCHANGED offered
      PROVE  AgentInv'
  <2> HIDE DEF w
  <2>1. /\ UNCHANGED <<sessions, runs, steps, recs>>
        /\ late' \subseteq Write /\ ctx' \in [Runs -> Contexts] /\ broken' \subseteq Runs
        /\ \A q \in Runs : q # r => /\ ctx'[q] = ctx[q]
                                    /\ q \in broken' <=> q \in broken
                                    /\ \A v : v.run = q => (v \in late' <=> v \in late)
        /\ late' = late \/ late' = late \cup {w}
        /\ e \in {"store", "DEADLINE_EXCEEDED"}
        /\ CallLive(r)' /\ r \notin broken' => late' = late
    BY <1>1, <1>4, <1>5, <1>7, NotStoredEffect DEF w
  <2>2. PICK a \in {"Internal", "DeadlineExceeded"} : Answer(r, a)
    BY <1>7, <2>1 DEF Refuse, StatusOf
  <2>3. /\ pc'[r] = "done" /\ answer'[r] = a /\ a \in Replies
        /\ pc' \in [Runs -> Calls \cup {"idle", "done", "dead"}]
        /\ answer' \in [Runs -> Replies \cup {None}]
        /\ \A q \in Runs : q # r => pc'[q] = pc[q] /\ answer'[q] = answer[q]
    BY <1>1, <2>2 DEF Answer, AgentTypeOK, Replies
  <2>4. AgentTypeOK'
    BY <1>1, <1>3, <1>7, <2>1, <2>3 DEF AgentTypeOK
  <2>5. OnlyRun(r)
    <3>1. ASSUME NEW q \in Runs, q # r
          PROVE  Same(q)
      <4>1. \A v : v.run = q => (v \in late' <=> v \in late)
        BY <2>1, <3>1, Zenon
      <4>2. q \in broken' <=> q \in broken
        BY <2>1, <3>1, Zenon
      <4>3. runs'[q] = runs[q] /\ steps'[q] = steps[q] /\ recs'[q] = recs[q] /\ ctx'[q] = ctx[q]
            /\ pc'[q] = pc[q] /\ n'[q] = n[q] /\ final'[q] = final[q] /\ next'[q] = next[q]
            /\ verified'[q] = verified[q] /\ answer'[q] = answer[q] /\ offered'[q] = offered[q]
        BY <1>3, <1>7, <2>1, <2>3, <3>1
      <4> QED  BY <4>1, <4>2, <4>3, Zenon DEF Same
    <3> QED  BY <1>3, <3>1 DEF OnlyRun
  <2>6. \A v \in late' : v.run = r => v.op = "create" /\ v.status = "RUNNING"
    BY <1>2, <1>5, <2>1
  <2>7. Shape(r)' /\ Phase(r)' /\ LateShape(r)' /\ ~Succeeds(r)'
    BY <1>1, <1>2, <1>3, <2>1, <2>3, <2>6
       DEF RunInv, Shape, Phase, LateShape, Succeeds, Between, Appending, AtWork, Calls
  <2>8. SucceededLast(r)' /\ Answered(r)' /\ Closed(r)'
    BY <1>1, <1>2, <1>3, <2>1, <2>2, <2>3, <2>7 DEF RunInv, SucceededLast, Answered, Closed
  <2>9. Recommended(r)'
    BY <1>2, <1>3, <2>1, <2>3, <2>6 DEF Recommended, Proposed, Calls
  <2> QED  BY <1>2, <2>4, <2>5, <2>7, <2>8, <2>9, HandlerStep DEF RunInv
<1> QED  BY <1>6, <1>7 DEF CreateRun

\* A write of a step that is not known to have been made ends the run.
LEMMA StepNotStored ==
  ASSUME AgentInv, NEW r \in Runs, pc[r] \in Appending \cup AtWork,
         NEW w \in Write, w.run = r, w.op \in {"append", "step"}, w.step = n[r], Matches(w),
         w.op = "append" => w.status = "RUNNING" /\ pc[r] \in Appending,
         NEW e, NotStored(r, RunLive(r), w, e),
         pc' = [pc EXCEPT ![r] = "fail"], err' \in [Runs -> Errors \cup {None}],
         UNCHANGED <<n, final, next, verified, answer, saleable, view, offered>>
  PROVE  AgentInv'
<1> USE AgentConstants
<1>1. RunInv(r) /\ AgentTypeOK /\ RunLive(r) \in BOOLEAN
  BY DEF AgentInv, RunLive
<1>2. /\ runs[r] = "RUNNING" /\ n[r] # 0 /\ pc[r] # "done" /\ recs[r] = {} /\ answer[r] = None
      /\ pc[r] \notin {"fail", "done", "dead"} /\ \A v \in late : v.run # r
      /\ saleable \subseteq offered[r]
      /\ (pc[r] \in Appending => steps[r][n[r]] = "none")
  <2>1. pc[r] \in Calls \ {"create"} /\ pc[r] \notin {"fail", "done", "dead"}
    BY DEF Appending, AtWork, Calls
  <2> QED  BY <1>1, <2>1 DEF RunInv, Phase, LateShape, Recommended, Answered
<1>3. /\ UNCHANGED <<sessions, runs, steps, recs>>
      /\ late' \subseteq Write /\ ctx' \in [Runs -> Contexts] /\ broken' \subseteq Runs
      /\ \A q \in Runs : q # r => /\ ctx'[q] = ctx[q]
                                  /\ q \in broken' <=> q \in broken
                                  /\ \A v : v.run = q => (v \in late' <=> v \in late)
      /\ late' = late \/ late' = late \cup {w}
      /\ CallLive(r)' /\ r \notin broken' => (late' = late /\ ~RunLive(r)) \/ ~RunLive(r)'
      /\ RunLive(r)' => RunLive(r)
  <2>1. RunLive(r) => CallLive(r)
    BY DEF RunLive, CallLive
  <2> QED  BY <1>1, <2>1, NotStoredEffect
<1>4. /\ pc'[r] = "fail" /\ pc' \in [Runs -> Calls \cup {"idle", "done", "dead"}]
      /\ \A q \in Runs : q # r => pc'[q] = pc[q]
  BY <1>1 DEF AgentTypeOK, Calls
<1>5. AgentTypeOK'
  BY <1>1, <1>3, <1>4 DEF AgentTypeOK
<1>6. OnlyRun(r)
  <2>1. ASSUME NEW q \in Runs, q # r
        PROVE  Same(q)
    <3>1. \A v : v.run = q => (v \in late' <=> v \in late)
      BY <1>3, <2>1, Zenon
    <3>2. q \in broken' <=> q \in broken
      BY <1>3, <2>1, Zenon
    <3>3. runs'[q] = runs[q] /\ steps'[q] = steps[q] /\ recs'[q] = recs[q] /\ ctx'[q] = ctx[q]
          /\ pc'[q] = pc[q] /\ n'[q] = n[q] /\ final'[q] = final[q] /\ next'[q] = next[q]
          /\ verified'[q] = verified[q] /\ answer'[q] = answer[q] /\ offered'[q] = offered[q]
      BY <1>3, <1>4, <2>1
    <3> QED  BY <3>1, <3>2, <3>3, Zenon DEF Same
  <2> QED  BY <2>1 DEF OnlyRun
<1>7. \A v \in late' : v.run = r => v = w
  BY <1>2, <1>3
<1>8. Shape(r)' /\ Phase(r)'
  BY <1>1, <1>2, <1>3, <1>4 DEF RunInv, Shape, Phase, Between, Appending, AtWork
<1>9. LateShape(r)' /\ ~Succeeds(r)'
  BY <1>2, <1>3, <1>4, <1>7 DEF LateShape, Succeeds
<1>10. SucceededLast(r)' /\ Answered(r)'
  BY <1>2, <1>3, <1>4, <1>9 DEF SucceededLast, Answered, Replies
<1>11. Closed(r)'
  BY <1>2, <1>3, <1>4 DEF Closed
<1>12. Recommended(r)'
  BY <1>2, <1>3, <1>4, <1>7 DEF Recommended, Proposed
<1> QED  BY <1>2, <1>5, <1>6, <1>8, <1>9, <1>10, <1>11, <1>12, HandlerStep DEF RunInv

\* The write of a step before it is made, in the calls that make one.
LEMMA StepDue ==
  ASSUME AgentInv, NEW r \in Runs, pc[r] \in Appending \cup AtWork,
         NEW s \in {"SUCCEEDED", "FAILED", "TIMEOUT"}
  PROVE  /\ AppendWrite(r) \in Write /\ AppendWrite(r).run = r /\ AppendWrite(r).op = "append"
         /\ AppendWrite(r).step = n[r] /\ AppendWrite(r).status = "RUNNING"
         /\ StepWrite(r, s) \in Write /\ StepWrite(r, s).run = r /\ StepWrite(r, s).op = "step"
         /\ StepWrite(r, s).step = n[r] /\ StepWrite(r, s).status = s
         /\ pc[r] \in Appending => Matches(AppendWrite(r))
         /\ pc[r] \in AtWork => Matches(StepWrite(r, s))
         /\ n[r] \in StepNos /\ n[r] # 0 /\ runs[r] = "RUNNING" /\ recs[r] = {}
         /\ saleable \subseteq offered[r] /\ pc[r] \in Calls \ {"create", "fail"}
         /\ \A w \in late : w.run # r
<1>1. RunInv(r) /\ AgentTypeOK
  BY DEF AgentInv
<1>2. pc[r] \in Calls \ {"create", "fail"} /\ pc[r] \notin {"fail", "done", "dead"}
  BY DEF Appending, AtWork, Calls
<1>3. n[r] # 0 /\ runs[r] = "RUNNING" /\ recs[r] = {} /\ saleable \subseteq offered[r]
      /\ \A w \in late : w.run # r
  BY <1>1, <1>2 DEF RunInv, Phase, Recommended, LateShape
<1>4. n[r] \in StepNos
  BY <1>1, <1>3, AgentConstants DEF AgentTypeOK, StepNos
<1>5. (pc[r] \in Appending => steps[r][n[r]] = "none") /\ (pc[r] \in AtWork => steps[r][n[r]] = "RUNNING")
  BY <1>1 DEF RunInv, Phase
<1> QED  BY <1>1, <1>2, <1>3, <1>4, <1>5, WriteTypes DEF AppendWrite, StepWrite, Matches

LEMMA AppendStepStartedKeeps ==
  ASSUME AgentInv, NEW r \in Runs, AppendStepStarted(r)
  PROVE  AgentInv'
<1> USE AgentConstants DEF Goto, Fail
<1>1. RunInv(r) /\ AgentTypeOK /\ pc[r] \in Appending
  BY DEF AgentInv, AppendStepStarted, Appending
<1>2. UNCHANGED <<n, final, next, verified, answer, saleable, view, offered>>
  BY DEF AppendStepStarted
<1>3. CASE /\ Stored(r, RunLive(r), AppendWrite(r)) /\ UNCHANGED err
           /\ pc' = [pc EXCEPT ![r] = IF pc[r] = "appendModel" THEN "model" ELSE "tool"]
  <2>1. StepMoves(r) /\ steps'[r][n[r]] = "RUNNING"
        /\ \A i \in StepNos : i # n[r] => steps'[r][i] = steps[r][i]
    BY <1>1, <1>2, <1>3, StepDue, StoredSteps DEF StepMoves
  <2>2. Moves(r) /\ pc'[r] \in {"model", "tool"}
    BY <1>1, <1>2, <1>3, StepDue DEF AgentTypeOK, Moves, Calls
  <2>3. Shape(r)' /\ Phase(r)'
    BY <1>1, <1>2, <2>1, <2>2, StepDue
       DEF RunInv, Shape, Phase, StepMoves, Between, Appending, AtWork, Calls
  <2>4. Recommended(r)'
    BY <1>1, <1>2, <2>1, <2>2, StepDue DEF Recommended, Proposed, StepMoves, Calls
  <2> QED  BY <2>1, <2>2, <2>3, <2>4, HandlerMoves
<1>4. ASSUME NEW e \in Errors, NotStored(r, RunLive(r), AppendWrite(r), e), Fail(r, e)
      PROVE  AgentInv'
  <2>1. err' \in [Runs -> Errors \cup {None}]
    BY <1>1, <1>4 DEF AgentTypeOK
  <2> DEFINE w == AppendWrite(r)
  <2>2. w \in Write /\ w.run = r /\ w.op = "append" /\ w.step = n[r] /\ w.status = "RUNNING" /\ Matches(w)
    BY <1>1, StepDue
  <2>3. NotStored(r, RunLive(r), w, e) /\ pc' = [pc EXCEPT ![r] = "fail"]
    BY <1>4
  <2> HIDE DEF w
  <2> QED  BY <1>1, <1>2, <2>1, <2>2, <2>3, StepNotStored
<1> QED  BY <1>3, <1>4 DEF AppendStepStarted

\* Its current step has succeeded, and there is no other one yet.
LEMMA StepSucceeds ==
  ASSUME NEW r \in Runs, RunInv(r), StepMoves(r), n'[r] = n[r], n[r] \in StepNos,
         runs[r] = "RUNNING", pc'[r] \in Between \cup {"fail"},
         steps'[r][n[r]] = "SUCCEEDED",
         \A i \in StepNos : i # n[r] => steps'[r][i] = steps[r][i]
  PROVE  Shape(r)' /\ Phase(r)'
<1>1. Shape(r)'
  BY AgentConstants DEF RunInv, Shape, StepNos
<1>2. Phase(r)'
  BY DEF Phase, StepMoves, Between, Appending, AtWork
<1> QED  BY <1>1, <1>2

LEMMA MarkModelStepSucceededKeeps ==
  ASSUME AgentInv, NEW r \in Runs, MarkModelStepSucceeded(r)
  PROVE  AgentInv'
<1> USE AgentConstants DEF Goto, Fail
<1>1. RunInv(r) /\ AgentTypeOK /\ pc[r] = "markModel" /\ pc[r] \in AtWork
  BY DEF AgentInv, MarkModelStepSucceeded, AtWork
<1>2. UNCHANGED <<final, answer, saleable, view, offered>>
  BY DEF MarkModelStepSucceeded
<1> DEFINE w == StepWrite(r, "SUCCEEDED")
<1>3. CASE Stored(r, RunLive(r), w) /\ Dispatch(r)
  <2>1. StepMoves(r) /\ steps'[r][n[r]] = "SUCCEEDED"
        /\ \A i \in StepNos : i # n[r] => steps'[r][i] = steps[r][i]
    BY <1>1, <1>2, <1>3, StepDue, StoredSteps DEF StepMoves
  <2>2. /\ n[r] \in 1 .. MaxSteps /\ n[r] + 1 \in Nat
        /\ \/ /\ UNCHANGED n
              /\ \/ /\ next' = [next EXCEPT ![r] = 1] /\ verified' = [verified EXCEPT ![r] = {}]
                    /\ pc' = [pc EXCEPT ![r] = "verify"] /\ UNCHANGED err
                 \/ /\ UNCHANGED <<next, verified>>
                    /\ \/ \E e \in Errors : Fail(r, e)
                       \/ \E p \in {"succeed", "loop"} : pc' = [pc EXCEPT ![r] = p] /\ UNCHANGED err
           \/ /\ n[r] < MaxSteps /\ n' = [n EXCEPT ![r] = n[r] + 1] /\ n[r] + 1 \in 0 .. MaxSteps
              /\ pc' = [pc EXCEPT ![r] = "appendTool"] /\ UNCHANGED <<err, next, verified>>
    <3>1. n[r] \in 1 .. MaxSteps /\ MaxSteps \in Nat
      BY <1>1, StepDue DEF StepNos
    <3>2. CASE final[r].kind \in {"json", "malformed"} \/ final[r].kind \in {"text", "nothing"}
      BY <1>3, <3>1, <3>2 DEF Dispatch, Errors
    <3>3. CASE final[r].kind = "tool"
      BY <1>3, <3>1, <3>3 DEF Dispatch, StepsExhausted, Errors
    <3> QED  BY <1>3, <3>2, <3>3 DEF Dispatch
  <2> HIDE DEF w
  <2>3. CASE UNCHANGED n /\ next' = [next EXCEPT ![r] = 1] /\ verified' = [verified EXCEPT ![r] = {}]
             /\ pc' = [pc EXCEPT ![r] = "verify"] /\ UNCHANGED err
    <3>1. Moves(r) /\ pc'[r] = "verify" /\ next'[r] = 1 /\ verified'[r] = {}
      BY <1>1, <1>2, <2>3 DEF AgentTypeOK, Moves, Calls
    <3>2. Shape(r)' /\ Phase(r)'
      BY <1>1, <2>1, <2>3, <3>1, StepDue, StepSucceeds DEF Between
    <3>3. Recommended(r)'
      BY <1>1, <1>2, <2>1, <3>1, StepDue DEF Recommended, Proposed, StepMoves, Calls
    <3> QED  BY <2>1, <3>1, <3>2, <3>3, HandlerMoves
  <2>4. CASE /\ UNCHANGED <<n, next, verified>>
             /\ \/ \E e \in Errors : Fail(r, e)
                \/ \E p \in {"succeed", "loop"} : pc' = [pc EXCEPT ![r] = p] /\ UNCHANGED err
    <3>1. Moves(r) /\ pc'[r] \in {"fail", "succeed", "loop"}
      <4>1. ASSUME NEW e \in Errors, Fail(r, e)
            PROVE  Moves(r) /\ pc'[r] = "fail"
        BY <1>1, <1>2, <2>4, <4>1 DEF AgentTypeOK, Moves, Calls
      <4>2. ASSUME NEW p \in {"succeed", "loop"}, pc' = [pc EXCEPT ![r] = p], UNCHANGED err
            PROVE  Moves(r) /\ pc'[r] = p
        BY <1>1, <1>2, <2>4, <4>2 DEF AgentTypeOK, Moves, Calls
      <4> QED  BY <2>4, <4>1, <4>2
    <3>2. Shape(r)' /\ Phase(r)'
      BY <1>1, <2>1, <2>4, <3>1, StepDue, StepSucceeds DEF Between
    <3>3. Recommended(r)'
      BY <1>1, <1>2, <2>1, <2>4, <3>1, StepDue DEF Recommended, Proposed, StepMoves, Calls
    <3> QED  BY <2>1, <2>4, <3>1, <3>2, <3>3, HandlerMoves
  <2>5. CASE /\ n[r] < MaxSteps /\ n' = [n EXCEPT ![r] = n[r] + 1] /\ n[r] + 1 \in 0 .. MaxSteps
             /\ pc' = [pc EXCEPT ![r] = "appendTool"] /\ UNCHANGED <<err, next, verified>>
    <3>1. n' \in [Runs -> 0 .. MaxSteps] /\ n'[r] = n[r] + 1 /\ \A q \in Runs : q # r => n'[q] = n[q]
      BY <1>1, <2>5 DEF AgentTypeOK
    <3>2. Moves(r) /\ pc'[r] = "appendTool"
      BY <1>1, <1>2, <2>5, <3>1 DEF AgentTypeOK, Moves, Calls
    <3>3. Shape(r)' /\ Phase(r)'
      <4>1. n[r] \in Nat /\ n'[r] \in StepNos /\ n'[r] # 0 /\ runs'[r] = "RUNNING"
        BY <1>1, <2>1, <2>2, <2>5, <3>1, StepDue DEF StepMoves, StepNos
      <4>2. \A i \in StepNos : (i < n'[r] => steps'[r][i] = "SUCCEEDED")
                               /\ (i > n[r] => steps'[r][i] = "none")
        <5> TAKE i \in StepNos
        <5>1. i \in Nat /\ (i < n'[r] => i < n[r] \/ i = n[r])
          BY <2>2, <3>1 DEF StepNos
        <5>2. i > n[r] => i # n[r]
          BY <2>2, <5>1
        <5> QED  BY <1>1, <2>1, <5>1, <5>2 DEF RunInv, Shape
      <4>3. n'[r] > n[r] /\ \A i \in StepNos : i > n'[r] => i > n[r]
        BY <2>2, <3>1 DEF StepNos
      <4>4. steps'[r][n'[r]] = "none"
        BY <4>1, <4>2, <4>3
      <4>5. Shape(r)'
        BY <4>2, <4>3 DEF Shape
      <4>6. Phase(r)'
        BY <3>2, <4>1, <4>4 DEF Phase, Between, Appending, AtWork
      <4> QED  BY <4>5, <4>6
    <3>4. Recommended(r)'
      BY <1>1, <1>2, <2>1, <3>2, StepDue DEF Recommended, Proposed, StepMoves, Calls
    <3> QED  BY <2>1, <3>2, <3>3, <3>4, HandlerMoves
  <2> QED  BY <2>2, <2>3, <2>4, <2>5
<1>4. ASSUME NEW e \in Errors, NotStored(r, RunLive(r), w, e), Fail(r, e), UNCHANGED <<n, next, verified>>
      PROVE  AgentInv'
  <2>1. err' \in [Runs -> Errors \cup {None}]
    BY <1>1, <1>4 DEF AgentTypeOK
  <2>2. w \in Write /\ w.run = r /\ w.op = "step" /\ w.step = n[r] /\ Matches(w)
    BY <1>1, StepDue
  <2>3. NotStored(r, RunLive(r), w, e) /\ pc' = [pc EXCEPT ![r] = "fail"]
    BY <1>4
  <2> HIDE DEF w
  <2> QED  BY <1>1, <1>2, <1>4, <2>1, <2>2, <2>3, StepNotStored DEF AtWork
<1> QED  BY <1>3, <1>4 DEF MarkModelStepSucceeded

LEMMA MarkToolStepSucceededKeeps ==
  ASSUME AgentInv, NEW r \in Runs, MarkToolStepSucceeded(r)
  PROVE  AgentInv'
<1> USE AgentConstants DEF Goto, Fail
<1>1. RunInv(r) /\ AgentTypeOK /\ pc[r] = "markTool" /\ pc[r] \in AtWork
  BY DEF AgentInv, MarkToolStepSucceeded, AtWork
<1>2. UNCHANGED <<n, final, next, verified, answer, saleable, view, offered>>
  BY DEF MarkToolStepSucceeded
<1> DEFINE w == StepWrite(r, "SUCCEEDED")
<1>3. CASE Stored(r, RunLive(r), w) /\ pc' = [pc EXCEPT ![r] = "loop"] /\ UNCHANGED err
  <2>1. StepMoves(r) /\ steps'[r][n[r]] = "SUCCEEDED"
        /\ \A i \in StepNos : i # n[r] => steps'[r][i] = steps[r][i]
    BY <1>1, <1>2, <1>3, StepDue, StoredSteps DEF StepMoves
  <2>2. Moves(r) /\ pc'[r] = "loop"
    BY <1>1, <1>2, <1>3, StepDue DEF AgentTypeOK, Moves, Calls
  <2>3. Shape(r)' /\ Phase(r)'
    BY <1>1, <1>2, <2>1, <2>2, StepDue, StepSucceeds DEF Between
  <2>4. Recommended(r)'
    BY <1>1, <1>2, <2>1, <2>2, StepDue DEF Recommended, Proposed, StepMoves, Calls
  <2> QED  BY <2>1, <2>2, <2>3, <2>4, HandlerMoves
<1>4. ASSUME NEW e \in Errors, NotStored(r, RunLive(r), w, e), Fail(r, e)
      PROVE  AgentInv'
  <2>1. err' \in [Runs -> Errors \cup {None}]
    BY <1>1, <1>4 DEF AgentTypeOK
  <2>2. w \in Write /\ w.run = r /\ w.op = "step" /\ w.step = n[r] /\ Matches(w)
    BY <1>1, StepDue
  <2>3. NotStored(r, RunLive(r), w, e) /\ pc' = [pc EXCEPT ![r] = "fail"]
    BY <1>4
  <2> HIDE DEF w
  <2> QED  BY <1>1, <1>2, <1>4, <2>1, <2>2, <2>3, StepNotStored DEF AtWork
<1> QED  BY <1>3, <1>4 DEF MarkToolStepSucceeded

LEMMA MarkStepFailedKeeps ==
  ASSUME AgentInv, NEW r \in Runs, MarkStepFailed(r)
  PROVE  AgentInv'
<1> USE AgentConstants DEF Goto, local
<1>1. RunInv(r) /\ AgentTypeOK /\ pc[r] \in AtWork /\ pc' = [pc EXCEPT ![r] = "fail"]
      /\ UNCHANGED <<n, err, final, next, verified, answer, saleable, view, offered>>
  BY DEF AgentInv, MarkStepFailed, AtWork
<1>2. FailedStatus(err[r]) \in {"FAILED", "TIMEOUT"}
  BY DEF FailedStatus
<1> DEFINE w == StepWrite(r, FailedStatus(err[r]))
<1>3. /\ w \in Write /\ w.run = r /\ w.op = "step" /\ w.step = n[r] /\ w.status \in {"FAILED", "TIMEOUT"}
      /\ Matches(w)
  BY <1>1, <1>2, StepDue
<1>4. CASE Stored(r, RunLive(r), w)
  <2> HIDE DEF w
  <2>1. StepMoves(r) /\ steps'[r][n[r]] \in {"FAILED", "TIMEOUT"}
        /\ \A i \in StepNos : i # n[r] => steps'[r][i] = steps[r][i]
    BY <1>1, <1>3, <1>4, StepDue, StoredSteps DEF StepMoves
  <2>2. Moves(r) /\ pc'[r] = "fail"
    BY <1>1, <1>3, StepDue DEF AgentTypeOK, Moves, Calls
  <2>3. Shape(r)' /\ Phase(r)'
    BY <1>1, <2>1, <2>2, StepDue
       DEF RunInv, Shape, Phase, StepMoves, Between, Appending, AtWork, Calls
  <2>4. Recommended(r)'
    BY <1>1, <2>1, <2>2, StepDue DEF Recommended, Proposed, StepMoves, Calls
  <2> QED  BY <1>1, <2>1, <2>2, <2>3, <2>4, HandlerMoves
<1>5. ASSUME NEW e \in Errors, NotStored(r, RunLive(r), w, e)
      PROVE  AgentInv'
  <2>1. err' \in [Runs -> Errors \cup {None}]
    BY <1>1 DEF AgentTypeOK
  <2> HIDE DEF w
  <2> QED  BY <1>1, <1>3, <1>5, <2>1, StepNotStored
<1> QED  BY <1>4, <1>5 DEF MarkStepFailed

\* The last write of a handler ends the run, or is left behind.
LEMMA RunEnds ==
  ASSUME AgentInv, NEW r \in Runs, pc[r] \in {"complete", "succeed", "fail"},
         NEW s \in {"SUCCEEDED", "FAILED"}, s = "SUCCEEDED" <=> pc[r] # "fail",
         NEW K \in SUBSET SKUs, Proposed(r, K), K # {} => s = "SUCCEEDED",
         NEW a \in Replies, Answer(r, a),
         a \in {"FailedPrecondition", "InvalidArgument"} => s = "FAILED",
         UNCHANGED <<n, err, final, next, verified, saleable, view, offered>>,
         \/ Stored(r, CallLive(r), RunWrite(r, s, K)) /\ (a = "SUCCEEDED" => s = "SUCCEEDED")
         \/ /\ \E e \in Errors : NotStored(r, CallLive(r), RunWrite(r, s, K), e)
            /\ a # "SUCCEEDED"
  PROVE  AgentInv'
<1> USE AgentConstants
<1>1. RunInv(r) /\ AgentTypeOK /\ CallLive(r) \in BOOLEAN
  BY DEF AgentInv, CallLive
<1>2. /\ runs[r] = "RUNNING" /\ pc[r] \in Calls /\ pc[r] # "done" /\ ~Succeeds(r)
      /\ (pc[r] # "fail" => /\ \A v \in late : v.run # r
                            /\ n[r] # 0 => steps[r][n[r]] = "SUCCEEDED")
      /\ \A v \in late : v.run = r => v.op \in {"append", "step"}
      /\ recs[r] = {}
  <2>1. pc[r] \in Calls \ {"create"} /\ pc[r] # "done" /\ (pc[r] # "fail" => pc[r] \in Between /\ pc[r] # "dead")
    BY DEF Between, Calls
  <2>2. runs[r] = "RUNNING" /\ ~Succeeds(r) /\ recs[r] = {}
    BY <1>1, <2>1 DEF RunInv, Phase, SucceededLast, Recommended
  <2>3. \A v \in late : v.run = r => v.op \in {"append", "step"}
    BY <1>1, <2>1 DEF RunInv, LateShape, AgentTypeOK, Write
  <2> QED  BY <1>1, <2>1, <2>2, <2>3 DEF RunInv, Phase, LateShape
<1> DEFINE w == RunWrite(r, s, K)
<1>3. w \in Write /\ w.run = r /\ w.op = "run" /\ w.status = s /\ w.skus = K /\ Matches(w)
      /\ w.status \in RunStatuses
  BY <1>1, <1>2, WriteTypes DEF RunWrite, Matches, RunStatuses
<1>4. /\ pc'[r] = "done" /\ answer'[r] = a
      /\ pc' \in [Runs -> Calls \cup {"idle", "done", "dead"}] /\ answer' \in [Runs -> Replies \cup {None}]
      /\ \A q \in Runs : q # r => pc'[q] = pc[q] /\ answer'[q] = answer[q]
  BY <1>1 DEF Answer, Goto, AgentTypeOK, Calls
<1>5. CASE Stored(r, CallLive(r), w) /\ (a = "SUCCEEDED" => s = "SUCCEEDED")
  <2>1. \A v \in late : v.run = r => v.op = "step"
    BY <1>2, <1>3, <1>5 DEF Stored, RowLocked
  <2> HIDE DEF w
  <2>2. /\ UNCHANGED <<steps, late, ctx, broken>>
        /\ sessions' \subseteq Sessions
        /\ runs' \in [Runs -> RunStatuses] /\ runs'[r] = s
        /\ recs' \in [Runs -> SUBSET SKUs] /\ recs'[r] = K
        /\ \A q \in Runs : q # r => runs'[q] = runs[q] /\ recs'[q] = recs[q]
    BY <1>1, <1>3, <1>5, StoredRun
  <2>3. AgentTypeOK'
    BY <1>1, <1>4, <2>2 DEF AgentTypeOK
  <2>4. OnlyRun(r)
    BY <1>4, <2>2 DEF OnlyRun, Same
  <2>5. Shape(r)' /\ Phase(r)'
    BY <1>1, <1>4, <2>2 DEF RunInv, Shape, Phase, Between, Appending, AtWork, Calls
  <2>6. LateShape(r)' /\ ~Succeeds(r)'
    BY <1>1, <1>2, <1>4, <2>2 DEF RunInv, LateShape, Succeeds
  <2>7. SucceededLast(r)' /\ Answered(r)'
    BY <1>2, <1>4, <1>5, <2>2, <2>6 DEF SucceededLast, Answered
  <2>8. Closed(r)'
    <3>1. RunLive(r) /\ r \notin broken /\ CallLive(r) /\ n[r] # 0 => steps[r][n[r]] # "RUNNING"
      BY <1>1, <1>2 DEF RunInv, Closed
    <3> QED  BY <1>1, <1>2, <1>4, <2>2, <3>1 DEF RunInv, Closed, CallLive, RunLive
  <2>9. Recommended(r)'
    BY <1>2, <1>4, <2>2 DEF Recommended, Proposed, Calls
  <2> QED  BY <1>2, <2>3, <2>4, <2>5, <2>6, <2>7, <2>8, <2>9, HandlerStep DEF RunInv
<1>6. ASSUME NEW e \in Errors, NotStored(r, CallLive(r), w, e), a # "SUCCEEDED"
      PROVE  AgentInv'
  <2> HIDE DEF w
  <2>1. /\ UNCHANGED <<sessions, runs, steps, recs>>
        /\ late' \subseteq Write /\ ctx' \in [Runs -> Contexts] /\ broken' \subseteq Runs
        /\ \A q \in Runs : q # r => ctx'[q] = ctx[q]
        /\ \A q \in Runs : q # r => (q \in broken' <=> q \in broken)
        /\ \A v : \A q \in Runs : q # r /\ v.run = q => (v \in late' <=> v \in late)
        /\ late' = late \/ late' = late \cup {w}
        /\ CallLive(r)' => CallLive(r)
        /\ r \notin broken' => r \notin broken
        /\ CallLive(r)' /\ r \notin broken' => ~CallLive(r)
    BY <1>1, <1>3, <1>6, NotStoredEffect
  <2>2. AgentTypeOK'
    BY <1>1, <1>4, <2>1 DEF AgentTypeOK
  <2>3. OnlyRun(r)
    BY <1>4, <2>1 DEF OnlyRun, Same
  <2>4. Shape(r)' /\ Phase(r)'
    BY <1>1, <1>4, <2>1 DEF RunInv, Shape, Phase, Between, Appending, AtWork, Calls
  <2>5. \A v \in late' : v.run = r => v = w \/ v \in late
    BY <2>1
  <2>6. LateShape(r)'
    BY <1>1, <1>2, <1>3, <1>4, <2>1, <2>5 DEF RunInv, LateShape
  <2>7. Succeeds(r)' => s = "SUCCEEDED"
    BY <1>2, <1>3, <2>5 DEF Succeeds
  <2>8. SucceededLast(r)' /\ Answered(r)'
    BY <1>2, <1>3, <1>4, <1>6, <2>1, <2>5, <2>7 DEF SucceededLast, Answered
  <2>9. Closed(r)'
    BY <2>1 DEF Closed
  <2>10. Recommended(r)'
    BY <1>2, <1>3, <1>4, <2>1, <2>5 DEF Recommended, Proposed, Calls
  <2> QED  BY <1>2, <2>2, <2>3, <2>4, <2>6, <2>8, <2>9, <2>10, HandlerStep DEF RunInv
<1> QED  BY <1>5, <1>6

LEMMA CompletionKeeps ==
  ASSUME AgentInv, NEW r \in Runs,
         CompleteRunWithRecommendations(r) \/ MarkRunSucceeded(r) \/ MarkRunFailed(r)
  PROVE  AgentInv'
<1> USE AgentConstants DEF local
<1>1. RunInv(r) /\ AgentTypeOK /\ CallLive(r) \in BOOLEAN
  BY DEF AgentInv, CallLive
<1>2. UNCHANGED <<n, err, final, next, verified, saleable, view, offered>>
  BY DEF CompleteRunWithRecommendations, MarkRunSucceeded, MarkRunFailed
<1>3. \A K \in SUBSET SKUs, s \in {"SUCCEEDED", "FAILED"} :
        RunWrite(r, s, K) \in Write /\ RunWrite(r, s, K).run = r
  BY <1>1, WriteTypes DEF RunWrite
<1>4. ASSUME NEW K \in SUBSET SKUs, NEW e \in Errors,
             NotStored(r, CallLive(r), RunWrite(r, "SUCCEEDED", K), e), Refuse(r, e)
      PROVE  \E a \in {"Internal", "DeadlineExceeded"} : Answer(r, a)
  <2>1. e \in {"store", "DEADLINE_EXCEEDED"}
    BY <1>1, <1>3, <1>4, NotStoredEffect
  <2> QED  BY <1>4, <2>1 DEF Refuse, StatusOf
<1>5. ASSUME NEW K \in SUBSET SKUs, Proposed(r, K), pc[r] \in {"complete", "succeed"},
             \/ Stored(r, CallLive(r), RunWrite(r, "SUCCEEDED", K)) /\ Answer(r, "SUCCEEDED")
             \/ \E e \in Errors : /\ NotStored(r, CallLive(r), RunWrite(r, "SUCCEEDED", K), e)
                                  /\ Refuse(r, e)
      PROVE  AgentInv'
  <2>1. CASE Stored(r, CallLive(r), RunWrite(r, "SUCCEEDED", K)) /\ Answer(r, "SUCCEEDED")
    <3>1. "SUCCEEDED" \in Replies
      BY DEF Replies
    <3> QED  BY <1>2, <1>5, <2>1, <3>1, RunEnds
  <2>2. ASSUME NEW e \in Errors, NotStored(r, CallLive(r), RunWrite(r, "SUCCEEDED", K), e), Refuse(r, e)
        PROVE  AgentInv'
    <3>1. PICK a \in {"Internal", "DeadlineExceeded"} : Answer(r, a)
      BY <1>4, <2>2
    <3>2. a \in Replies /\ a # "SUCCEEDED" /\ a \notin {"FailedPrecondition", "InvalidArgument"}
      BY DEF Replies
    <3> QED  BY <1>2, <1>5, <2>2, <3>1, <3>2, RunEnds
  <2> QED  BY <1>5, <2>1, <2>2
<1>6. CASE CompleteRunWithRecommendations(r)
  <2>1. verified[r] \in SUBSET SKUs /\ Proposed(r, verified[r]) /\ pc[r] = "complete"
    BY <1>1, <1>6 DEF AgentTypeOK, RunInv, Recommended, CompleteRunWithRecommendations
  <2> QED  BY <1>5, <1>6, <2>1 DEF CompleteRunWithRecommendations
<1>7. CASE MarkRunSucceeded(r)
  <2>1. Proposed(r, {}) /\ {} \in SUBSET SKUs /\ pc[r] = "succeed"
    BY <1>7 DEF Proposed, MarkRunSucceeded
  <2> QED  BY <1>5, <1>7, <2>1 DEF MarkRunSucceeded
<1>8. CASE MarkRunFailed(r)
  <2>1. Proposed(r, {}) /\ {} \in SUBSET SKUs /\ pc[r] = "fail"
    BY <1>8 DEF Proposed, MarkRunFailed
  <2>2. PICK a \in Replies \ {"SUCCEEDED"} : Answer(r, a)
    BY <1>8 DEF MarkRunFailed, Refuse, StatusOf, Replies
  <2>3. \/ Stored(r, CallLive(r), RunWrite(r, "FAILED", {}))
        \/ \E e \in Errors : NotStored(r, CallLive(r), RunWrite(r, "FAILED", {}), e)
    BY <1>8 DEF MarkRunFailed
  <2> QED  BY <1>2, <2>1, <2>2, <2>3, RunEnds
<1> QED  BY <1>6, <1>7, <1>8

--------------------------------------------------------------------------------
(* The surroundings *)

\* A write that was left behind ends, with or without effect.
LEMMA LateWriteKeeps ==
  ASSUME AgentInv, NEW w \in late, LateWrite(w) \/ LateWriteDropped(w)
  PROVE  AgentInv'
<1> USE AgentConstants DEF local, store
<1> DEFINE r == w.run
<1>1. AgentTypeOK /\ r \in Runs /\ w \in Write /\ RunInv(r)
  BY DEF AgentInv, AgentTypeOK, Write
<1>2. /\ UNCHANGED <<ctx, pc, n, err, final, next, verified, answer, saleable, view, broken, offered>>
      /\ late' = late \ {w}
      /\ UNCHANGED <<sessions, runs, steps, recs>> \/ (Matches(w) /\ Apply(w))
  BY DEF LateWrite, LateWriteDropped
<1>3. /\ w.op \in {"create", "append", "step", "run"} /\ pc[r] \in {"fail", "done", "dead"}
      /\ w.op = "create" => pc[r] = "done" /\ n[r] = 0 /\ w.status = "RUNNING"
      /\ w.op \in {"append", "step"} => n[r] # 0 /\ w.step = n[r] /\ runs[r] # "none"
      /\ w.op = "run" => pc[r] = "done" /\ w.status \in {"SUCCEEDED", "FAILED"} /\ runs[r] # "none"
  <2>1. w.op \in {"create", "append", "step", "run"}
    BY <1>1 DEF Write
  <2> QED  BY <1>1, <2>1 DEF RunInv, LateShape
<1>4. n[r] \in 0 .. MaxSteps /\ (n[r] # 0 => n[r] \in StepNos)
  BY <1>1 DEF AgentTypeOK, StepNos
\* What the write does to the rows of its run.
<1>5. /\ sessions' \subseteq Sessions
      /\ runs' \in [Runs -> RunStatuses]
      /\ steps' \in [Runs -> [StepNos -> StepStatuses]]
      /\ recs' \in [Runs -> SUBSET SKUs]
      /\ \A q \in Runs : q # r => runs'[q] = runs[q] /\ steps'[q] = steps[q] /\ recs'[q] = recs[q]
      /\ \/ runs'[r] = runs[r] /\ steps'[r] = steps[r] /\ recs'[r] = recs[r]
         \/ /\ w.op = "create" /\ runs[r] = "none" /\ runs'[r] = "RUNNING"
            /\ steps'[r] = steps[r] /\ recs'[r] = recs[r]
         \/ /\ w.op = "run" /\ runs[r] = "RUNNING" /\ runs'[r] = w.status
            /\ steps'[r] = steps[r] /\ recs'[r] = w.skus
         \/ /\ w.op \in {"append", "step"} /\ runs'[r] = runs[r] /\ recs'[r] = recs[r]
            /\ steps[r][n[r]] # "SUCCEEDED" /\ \A i \in StepNos : i # n[r] => steps'[r][i] = steps[r][i]
  <2>1. /\ sessions \subseteq Sessions /\ runs \in [Runs -> RunStatuses]
        /\ steps \in [Runs -> [StepNos -> StepStatuses]] /\ recs \in [Runs -> SUBSET SKUs]
    BY <1>1 DEF AgentTypeOK
  <2>2. CASE UNCHANGED <<sessions, runs, steps, recs>>
    BY <2>1, <2>2
  <2>3. CASE Matches(w) /\ Apply(w) /\ w.op = "create"
    <3>1. /\ sessions' = sessions \cup {SessionOf[r]} /\ runs' = [runs EXCEPT ![r] = "RUNNING"]
          /\ UNCHANGED <<steps, recs>> /\ runs[r] = "none"
      BY <1>3, <2>3 DEF Apply, Matches
    <3> QED  BY <1>1, <2>1, <2>3, <3>1 DEF RunStatuses
  <2>4. CASE Matches(w) /\ Apply(w) /\ w.op = "run"
    <3>1. /\ runs' = [runs EXCEPT ![r] = w.status] /\ recs' = [recs EXCEPT ![r] = w.skus]
          /\ UNCHANGED <<steps, sessions>> /\ runs[r] = "RUNNING"
      BY <2>4 DEF Apply, Matches
    <3>2. w.status \in RunStatuses /\ w.skus \in SUBSET SKUs
      BY <1>1, <1>3, <2>4 DEF RunStatuses, Write
    <3> QED  BY <1>1, <2>1, <2>4, <3>1, <3>2
  <2>5. CASE Matches(w) /\ Apply(w) /\ w.op \in {"append", "step"}
    <3>1. /\ steps' = [steps EXCEPT ![r][n[r]] = w.status] /\ UNCHANGED <<runs, recs, sessions>>
          /\ steps[r][n[r]] \in {"none", "RUNNING"}
      BY <1>3, <2>5 DEF Apply, Matches
    <3>2. w.status \in StepStatuses /\ n[r] \in StepNos
      BY <1>1, <1>3, <1>4, <2>5 DEF StepStatuses, Write
    <3>3. /\ steps' \in [Runs -> [StepNos -> StepStatuses]]
          /\ \A q \in Runs : q # r => steps'[q] = steps[q]
          /\ \A i \in StepNos : i # n[r] => steps'[r][i] = steps[r][i]
      BY <1>1, <2>1, <3>1, <3>2
    <3> QED  BY <2>1, <2>5, <3>1, <3>3
  <2> QED  BY <1>2, <1>3, <2>2, <2>3, <2>4, <2>5
<1>6. \A v \in late' : v \in late
  BY <1>2
<1>7. AgentTypeOK'
  BY <1>1, <1>2, <1>5, <1>6 DEF AgentTypeOK
<1>8. ASSUME NEW q \in Runs, q # r
      PROVE  RunInv(q)'
  <2>1. \A v : v.run = q => (v \in late' <=> v \in late)
    BY <1>2, <1>8
  <2>2. Same(q)
    BY <1>2, <1>5, <1>8, <2>1 DEF Same
  <2> QED  BY <1>2, <2>2, RunSame DEF AgentInv
<1>9. Succeeds(r)' \/ runs'[r] = "SUCCEEDED" => Succeeds(r) \/ runs[r] = "SUCCEEDED"
  BY <1>1, <1>3, <1>5, <1>6 DEF Succeeds
<1>10. runs[r] = "SUCCEEDED" \/ Succeeds(r) => w.op \notin {"append", "step"}
  BY <1>1 DEF RunInv, SucceededLast
<1>11. Shape(r)' /\ Phase(r)'
  BY <1>1, <1>2, <1>3, <1>5
     DEF RunInv, Shape, Phase, Between, Appending, AtWork, Calls
<1>12. LateShape(r)'
  BY <1>1, <1>2, <1>3, <1>5, <1>6 DEF RunInv, LateShape
<1>13. SucceededLast(r)'
  BY <1>1, <1>2, <1>5, <1>6, <1>9, <1>10 DEF RunInv, SucceededLast
<1>14. Answered(r)'
  BY <1>1, <1>2, <1>3, <1>5, <1>9 DEF RunInv, Answered
<1>15. Closed(r)'
  <2> SUFFICES ASSUME r \notin broken, CallLive(r) PROVE Closed(r)'
    BY <1>2 DEF Closed, CallLive
  <2>1. ~RunLive(r) /\ w.op \in {"append", "step"}
    BY <1>1 DEF RunInv, Closed
  <2>2. runs'[r] = runs[r] /\ ~RunLive(r)'
    BY <1>2, <1>5, <2>1 DEF RunLive
  <2>3. /\ \A v \in late : v.run = r => v.op \in {"append", "step"}
        /\ pc[r] = "done" => runs[r] # "RUNNING"
    BY <1>1 DEF RunInv, Closed
  <2> QED  BY <1>2, <1>6, <2>2, <2>3 DEF Closed
<1>16. Recommended(r)'
  <2>1. w.op = "run" => Proposed(r, w.skus) /\ (w.skus # {} => w.status = "SUCCEEDED")
    BY <1>1 DEF RunInv, Recommended
  <2> QED  BY <1>1, <1>2, <1>3, <1>5, <1>6, <2>1 DEF RunInv, Recommended, Proposed
<1>17. Frozen
  BY <1>1, <1>5, <1>10 DEF Frozen
<1>18. \A q \in Readers : ViewInv(q)'
  BY <1>2, <1>17, ViewsKept DEF AgentInv
<1>19. \A q \in Runs : RunInv(q)'
  BY <1>8, <1>11, <1>12, <1>13, <1>14, <1>15, <1>16 DEF RunInv
<1> QED  BY <1>7, <1>18, <1>19 DEF AgentInv

LEMMA CatalogChangesKeeps ==
  ASSUME AgentInv, NEW k \in SKUs, CatalogChanges(k)
  PROVE  AgentInv'
<1> USE AgentConstants DEF local, store
<1>1. AgentTypeOK /\ \A r \in Runs : RunInv(r)
  BY DEF AgentInv
<1>2. /\ UNCHANGED <<sessions, runs, steps, recs, late, ctx, pc, n, err, final, next, verified, answer,
                     view, broken>>
      /\ saleable' \subseteq SKUs
      /\ offered' = [r \in Runs |-> IF runs[r] = "none" THEN {} ELSE offered[r] \cup saleable']
  BY <1>1 DEF CatalogChanges, AgentTypeOK
<1>3. AgentTypeOK'
  <2>1. offered' \in [Runs -> SUBSET SKUs]
    BY <1>1, <1>2 DEF AgentTypeOK
  <2> QED  BY <1>1, <1>2, <2>1 DEF AgentTypeOK
<1>4. ASSUME NEW r \in Runs
      PROVE  RunInv(r)'
  <2>1. RunInv(r) /\ (Succeeds(r)' <=> Succeeds(r))
    BY <1>1, <1>2 DEF Succeeds
  <2>2. Shape(r)' /\ Phase(r)' /\ LateShape(r)' /\ SucceededLast(r)' /\ Answered(r)' /\ Closed(r)'
    BY <1>2, <2>1
       DEF RunInv, Shape, Phase, LateShape, SucceededLast, Answered, Closed, CallLive, RunLive
  <2>3. runs[r] # "none" => offered'[r] = offered[r] \cup saleable'
    BY <1>2
  <2>4. \A K : runs[r] # "none" /\ Proposed(r, K) => Proposed(r, K)'
    BY <1>2, <2>3 DEF Proposed
  <2>5. pc[r] \in Calls \ {"create"} => runs[r] # "none"
    BY <2>1 DEF RunInv, Phase
  <2>6. /\ pc[r] \in Calls \ {"create"} => saleable' \subseteq offered'[r]
        /\ pc[r] = "verify" => next[r] # 0
        /\ pc[r] \in {"verify", "complete"} => Proposed(r, verified[r])'
    BY <1>2, <2>1, <2>3, <2>4, <2>5 DEF RunInv, Recommended, Calls
  <2>7. \A w \in late : w.run = r /\ w.op = "run" =>
          Proposed(r, w.skus)' /\ (w.skus # {} => w.status = "SUCCEEDED")
    BY <2>1, <2>4 DEF RunInv, Recommended, LateShape
  <2>8. Proposed(r, recs[r])' /\ (recs[r] # {} => runs[r] = "SUCCEEDED")
    <3>1. CASE recs[r] = {}
      BY <1>2, <3>1 DEF Proposed
    <3>2. CASE recs[r] # {}
      BY <1>2, <2>1, <2>4, <3>2 DEF RunInv, Recommended
    <3> QED  BY <3>1, <3>2
  <2>9. Recommended(r)'
    BY <1>2, <2>6, <2>7, <2>8 DEF Recommended
  <2> QED  BY <2>2, <2>9 DEF RunInv
<1>5. \A q \in Readers : ViewInv(q)'
  BY <1>2, ViewsKept DEF AgentInv, Frozen
<1> QED  BY <1>3, <1>4, <1>5 DEF AgentInv

LEMMA SessionTakenKeeps ==
  ASSUME AgentInv, NEW s \in Sessions, SessionTaken(s)
  PROVE  AgentInv'
<1> USE DEF SessionTaken, local
<1>1. AgentTypeOK'
  BY DEF AgentInv, AgentTypeOK
<1>2. \A r \in Runs : RunInv(r)'
  BY RunSame DEF AgentInv, Same
<1>3. \A q \in Readers : ViewInv(q)'
  BY ViewsKept DEF AgentInv, Frozen
<1> QED  BY <1>1, <1>2, <1>3 DEF AgentInv

LEMMA TimelineKeeps ==
  ASSUME AgentInv, NEW q \in Readers, Reader(q)
  PROVE  AgentInv'
<1> USE DEF store, local
<1>1. AgentTypeOK /\ ViewInv(q) /\ view[q] \in Views
  BY DEF AgentInv, AgentTypeOK
<1>2. UNCHANGED <<sessions, runs, steps, recs, late, ctx, pc, n, err, final, next, verified, answer,
                  saleable, broken, offered>>
  BY DEF Reader, ReadRun, ReadSteps, ListRecommendations
<1>3. \A r \in Runs : RunInv(r)'
  BY <1>2, RunSame DEF AgentInv, Same
<1>4. ASSUME NEW x \in Views, view' = [view EXCEPT ![q] = x], ViewInv(q)'
      PROVE  AgentInv'
  <2>1. AgentTypeOK'
    BY <1>1, <1>2, <1>4 DEF AgentTypeOK
  <2>2. \A p \in Readers : ViewInv(p)'
    <3>1. \A p \in Readers : p # q => view'[p] = view[p]
      BY <1>1, <1>4 DEF AgentTypeOK
    <3> QED  BY <1>2, <1>4, <3>1 DEF AgentInv, ViewInv
  <2> QED  BY <1>3, <2>1, <2>2 DEF AgentInv
<1>5. ASSUME NEW r \in Runs, ReadRun(q, r)
      PROVE  AgentInv'
  <2> DEFINE x == [NoView EXCEPT !.run = r, !.at = "steps", !.status = runs[r]]
  <2>1. x \in Views /\ x.run = r /\ x.at = "steps" /\ x.status = runs[r]
    BY <1>1 DEF NoView, Views, AgentTypeOK, StepStatuses
  <2>2. view' = [view EXCEPT ![q] = x] /\ view'[q] = x
    BY <1>1, <1>5 DEF ReadRun, AgentTypeOK
  <2>3. ViewInv(q)'
    BY <1>2, <2>1, <2>2 DEF ViewInv
  <2> QED  BY <1>4, <2>1, <2>2, <2>3
<1>6. CASE ReadSteps(q)
  <2> DEFINE x == [view[q] EXCEPT !.at = "recs", !.steps = steps[view[q].run]]
  <2>1. view[q].run \in Runs /\ view[q].at = "steps"
    BY <1>1, <1>6 DEF ReadSteps, ViewInv
  <2>2. /\ x \in Views /\ x.run = view[q].run /\ x.at = "recs" /\ x.status = view[q].status
        /\ x.steps = steps[view[q].run]
    BY <1>1, <2>1 DEF Views, AgentTypeOK
  <2>3. view' = [view EXCEPT ![q] = x] /\ view'[q] = x
    BY <1>1, <1>6 DEF ReadSteps, AgentTypeOK
  <2>4. ViewInv(q)'
    BY <1>1, <1>2, <2>1, <2>2, <2>3 DEF ViewInv
  <2> QED  BY <1>4, <2>2, <2>3, <2>4
<1>7. CASE ListRecommendations(q)
  <2> DEFINE x == [view[q] EXCEPT !.at = "shown", !.recs = recs[view[q].run]]
  <2>1. view[q].run \in Runs /\ view[q].at = "recs"
    BY <1>1, <1>7 DEF ListRecommendations, ViewInv
  <2>2. /\ x \in Views /\ x.run = view[q].run /\ x.at = "shown" /\ x.status = view[q].status
        /\ x.steps = view[q].steps /\ x.recs = recs[view[q].run]
    BY <1>1, <2>1 DEF Views, AgentTypeOK
  <2>3. view' = [view EXCEPT ![q] = x] /\ view'[q] = x
    BY <1>1, <1>7 DEF ListRecommendations, AgentTypeOK
  <2>4. ViewInv(q)'
    BY <1>1, <1>2, <2>1, <2>2, <2>3 DEF ViewInv
  <2> QED  BY <1>4, <2>2, <2>3, <2>4
<1> QED  BY <1>5, <1>6, <1>7 DEF Reader

LEMMA AgentInvStep ==
  ASSUME AgentInv, [AgentNext]_agentVars
  PROVE  AgentInv'
<1>1. CASE UNCHANGED agentVars
  <2> USE <1>1 DEF agentVars, store, local
  <2>1. AgentTypeOK'
    BY DEF AgentInv, AgentTypeOK
  <2>2. \A r \in Runs : RunInv(r)'
    BY RunSame DEF AgentInv, Same
  <2>3. \A q \in Readers : ViewInv(q)'
    BY ViewsKept DEF AgentInv, Frozen
  <2> QED  BY <2>1, <2>2, <2>3 DEF AgentInv
<1>2. ASSUME NEW r \in Runs, StartRun(r) \/ Handler(r) \/ ContextEnds(r) \/ Crash(r)
      PROVE  AgentInv'
  BY <1>2, StartRunKeeps, CreateRunKeeps, LoopKeeps, AppendStepStartedKeeps, ModelNextKeeps,
     MarkModelStepSucceededKeeps, MarkToolStepSucceededKeeps, MarkStepFailedKeeps, VerifyKeeps,
     CompletionKeeps, EndsKeep DEF Handler
<1>3. CASE AgentNext
  BY <1>2, <1>3, LateWriteKeeps, CatalogChangesKeeps, SessionTakenKeeps, TimelineKeeps DEF AgentNext
<1> QED  BY <1>1, <1>3

--------------------------------------------------------------------------------
(* What follows *)

\* In every reachable state the phase of a handler, its run's rows and the writes it has
\* left behind fit together.
THEOREM AgentInvariant == AgentSpec => []AgentInv
<1>1. AgentInit => AgentInv
  BY AgentInvInit
<1>2. AgentInv /\ [AgentNext]_agentVars => AgentInv'
  BY AgentInvStep
<1> QED  BY <1>1, <1>2, PTL DEF AgentSpec

\* The trace of a run is a prefix without gaps, and a run that SUCCEEDED has no step that
\* failed or is still RUNNING, whatever was interrupted and applied late.
THEOREM TracesAreComplete == AgentSpec => []TraceComplete
<1>1. ASSUME AgentInv, NEW r \in Runs
      PROVE  /\ \A i, j \in StepNos : i < j /\ steps[r][j] # "none" => steps[r][i] = "SUCCEEDED"
             /\ runs[r] = "SUCCEEDED" => \A i \in StepNos : steps[r][i] \in {"none", "SUCCEEDED"}
  <2>1. Shape(r) /\ SucceededLast(r) /\ n[r] \in 0 .. MaxSteps /\ MaxSteps \in Nat
    BY <1>1, AgentConstants DEF AgentInv, AgentTypeOK, RunInv
  <2>2. \A i \in StepNos : i \in Nat /\ (i < n[r] \/ i = n[r] \/ i > n[r]) /\ i # 0
    BY <2>1 DEF StepNos
  <2>3. \A i, j \in StepNos : i < j /\ ~(j > n[r]) => i < n[r]
    BY <2>1 DEF StepNos
  <2> QED  BY <2>1, <2>2, <2>3 DEF Shape, SucceededLast
<1>2. AgentInv => TraceComplete
  BY <1>1 DEF TraceComplete, StepsInOrder, SucceededIsComplete
<1> QED  BY <1>2, AgentInvariant, PTL

\* What is recommended was proposed by the model, has been saleable since the run was
\* created, and stands with the run's success in one transaction.
THEOREM OnlyVerifiedIsRecommended == AgentSpec => []RecommendationsVerified
<1>1. AgentInv => RecommendationsVerified
  BY DEF AgentInv, RunInv, Recommended, Proposed, RecommendationsVerified
<1> QED  BY <1>1, AgentInvariant, PTL

\* SUCCEEDED is answered only for a run that is, and a refusal only for one that is not
\* and never will be, although writes of the call may take effect after its answer.
THEOREM RunAnswersAreTrue == AgentSpec => []RunAnswersTruthful
<1>1. AgentInv => RunAnswersTruthful
  BY DEF AgentInv, RunInv, Answered, RunAnswersTruthful
<1> QED  BY <1>1, AgentInvariant, PTL

\* Nothing but the end of its contexts, or a broken connection, leaves a run or one of
\* its steps RUNNING.
THEOREM RunsAreLeftClosed == AgentSpec => []RunsAreClosed
<1>1. ASSUME AgentInv, NEW r \in Runs, pc[r] = "done", r \notin broken
      PROVE  /\ CallLive(r) => runs[r] # "RUNNING"
             /\ RunLive(r) => \A i \in StepNos : steps[r][i] # "RUNNING"
  <2>1. Shape(r) /\ Closed(r) /\ n[r] \in 0 .. MaxSteps /\ MaxSteps \in Nat
    BY <1>1, AgentConstants DEF AgentInv, AgentTypeOK, RunInv
  <2>2. \A i \in StepNos : i # 0 /\ (i < n[r] \/ i = n[r] \/ i > n[r])
    BY <2>1 DEF StepNos
  <2>3. RunLive(r) => CallLive(r)
    BY DEF RunLive, CallLive
  <2> QED  BY <1>1, <2>1, <2>2, <2>3 DEF Shape, Closed
<1>2. AgentInv => RunsAreClosed
  BY <1>1 DEF RunsAreClosed
<1> QED  BY <1>2, AgentInvariant, PTL

\* A timeline that shows SUCCEEDED is the whole story, although it was read in three
\* queries: what the later ones return cannot change any more.
THEOREM TimelinesAreTrue == AgentSpec => []TimelineTruthful
<1>1. AgentInv => TimelineTruthful
  BY DEF AgentInv, ViewInv, TimelineTruthful
<1> QED  BY <1>1, AgentInvariant, PTL

================================================================================
