---------------------------- MODULE MCServicesProofs ----------------------------
(***************************************************************************)
(* The types of the modules that MCServices puts side by side, and that    *)
(* each of them behaves there as it does on its own.                       *)
(***************************************************************************)
EXTENDS MCServices, OrderAgentProofs, ServicesProofs

--------------------------------------------------------------------------------
(* Side by side                                                              *)

PartsStep ==
  /\ [AgentNext]_agentVars
  /\ [OrderingNext]_orderingVars
  /\ [AnalyticsNext]_analyticsVars
  /\ [CacheNext]_cacheVars
  /\ [UsersNext]_userVars
  /\ [ChunkerNext]_chunkerVars
  /\ [RetrievalNext]_retrievalVars
  /\ [GatewayNext]_gatewayVars
  /\ [RecordsNext]_recordVars
  /\ [ContractsNext]_contractVars
  /\ [ProcessesNext]_processVars

LEMMA PartsGoAlone == [ServicesNext]_servicesVars => PartsStep
BY DEF ServicesNext, servicesVars, PartsStep

\* Each module behaves beside the others as it does on its own: what is proved of it holds of
\* every behaviour of ServicesSpec.
THEOREM PartsBehave ==
  ServicesSpec =>
    /\ AgentSpec /\ OrderingSpec /\ AnalyticsSpec /\ CacheSpec /\ UsersSpec /\ ChunkerSpec
    /\ RetrievalSpec /\ GatewaySpec /\ RecordsSpec /\ ContractsSpec /\ ProcessesSpec
<1>1. ServicesInit =>
        /\ AgentInit /\ OrderingInit /\ AnalyticsInit /\ CacheInit /\ UsersInit /\ ChunkerInit
        /\ RetrievalInit /\ GatewayInit /\ RecordsInit /\ ContractsInit /\ ProcessesInit
  BY DEF ServicesInit
<1>2. [ServicesNext]_servicesVars =>
        /\ [AgentNext]_agentVars /\ [OrderingNext]_orderingVars /\ [AnalyticsNext]_analyticsVars
        /\ [CacheNext]_cacheVars /\ [UsersNext]_userVars /\ [ChunkerNext]_chunkerVars
        /\ [RetrievalNext]_retrievalVars /\ [GatewayNext]_gatewayVars /\ [RecordsNext]_recordVars
        /\ [ContractsNext]_contractVars /\ [ProcessesNext]_processVars
  BY PartsGoAlone DEF PartsStep
<1> QED
  BY <1>1, <1>2, PTL
  DEF ServicesSpec, AgentSpec, OrderingSpec, AnalyticsSpec, CacheSpec, UsersSpec, ChunkerSpec,
      RetrievalSpec, GatewaySpec, RecordsSpec, ContractsSpec, ProcessesSpec

--------------------------------------------------------------------------------
(* Ordering                                                                  *)

CartTypes ==
  /\ cart \in [SKUs -> [quantity : 0 .. MaxQuantity, selected : BOOLEAN]]
  /\ cartLock \in AddCalls \cup {None}
  /\ addPc \in [AddCalls -> {"idle", "locked", "read", "done"}]
  /\ addRead \in [AddCalls -> 0 .. MaxQuantity]
  /\ counted \in [SKUs -> 0 .. MaxQuantity]

WorldTypes ==
  /\ addresses \subseteq {AddressOf[c] : c \in OrderCalls}
  /\ offers \in [SKUs -> Offers \cup {None}]
  /\ promotions \in [SKUs -> Promotions]
  /\ changes \in 0 .. MaxChanges

\* What a call has read and made, and the order it is about to look for and insert is one.
CallTypes(c) ==
  /\ orderPc[c] \in OrderSteps
  /\ lines[c] \in [SKUs -> 0 .. MaxQuantity]
  /\ quote[c] \in [SKUs -> Offers \cup {None}]
  /\ draft[c] \in Order \cup {None}
  /\ orderPc[c] \in {"refind", "insert"} => draft[c] \in Order
  /\ orderAnswer[c] \in OrderCalls \cup OrderErrors \cup {None}

OrderTypes ==
  /\ DOMAIN orders \subseteq OrderCalls
  /\ \A c \in DOMAIN orders : orders[c] \in Order
  /\ \A c \in OrderCalls : CallTypes(c)

OrderingTypes == CartTypes /\ WorldTypes /\ OrderTypes

LEMMA OrderingTypesInit == OrderingInit => OrderingTypes
<1> SUFFICES ASSUME OrderingInit PROVE OrderingTypes
  OBVIOUS
<1> USE OrderingConstants
<1>1. CartTypes
  BY DEF OrderingInit, CartTypes
<1>2. WorldTypes
  <2>1. (CHOOSE o \in Offers : o.saleable) \in Offers /\ (CHOOSE p \in Promotions : TRUE) \in Promotions
    OBVIOUS
  <2> QED  BY <2>1 DEF OrderingInit, WorldTypes
<1>3. OrderTypes
  BY DEF OrderingInit, OrderTypes, CallTypes, OrderSteps, NoLines, NoQuote
<1> QED  BY <1>1, <1>2, <1>3 DEF OrderingTypes

\* The sum that WriteCartItem stores is within MaxQuantity, and so is what is counted, which is
\* the same.
LEMMA CartTypesKeep ==
  ASSUME CartInv, CartTypes, [OrderingNext]_orderingVars
  PROVE  CartTypes'
<1> USE OrderingConstants
<1>1. CASE UNCHANGED cartVars
  BY <1>1 DEF CartTypes, cartVars
<1>2. ASSUME NEW a \in AddCalls, AddCartItem(a)
      PROVE  CartTypes'
  <2>1. CASE LockCart(a)
    BY <2>1 DEF LockCart, CartTypes
  <2>2. CASE ReadCartItem(a)
    <3>1. cart[SkuOf[a]].quantity \in 0 .. MaxQuantity
      BY DEF CartTypes
    <3> QED  BY <2>2, <3>1 DEF ReadCartItem, CartTypes
  <2>3. CASE WriteCartItem(a)
    <3> DEFINE k == SkuOf[a]
               sum == addRead[a] + QuantityOf[a]
    <3>1. k \in SKUs /\ sum \in Nat /\ counted[k] = addRead[a]
      BY <2>3 DEF WriteCartItem, CartInv, CartTypes, NoAddIsLost
    <3>2. CASE /\ sum <= MaxQuantity
               /\ \E s \in BOOLEAN : cart' = [cart EXCEPT ![k] = [quantity |-> sum, selected |-> s]]
               /\ counted' = [counted EXCEPT ![k] = @ + QuantityOf[a]]
      <4>1. sum \in 0 .. MaxQuantity
        BY <3>1, <3>2
      <4>2. counted' = [counted EXCEPT ![k] = sum]
        BY <3>1, <3>2
      <4> HIDE DEF sum, k
      <4>3. counted' \in [SKUs -> 0 .. MaxQuantity]
        BY <4>1, <4>2 DEF CartTypes
      <4>4. cart' \in [SKUs -> [quantity : 0 .. MaxQuantity, selected : BOOLEAN]]
        <5>1. PICK s \in BOOLEAN : cart' = [cart EXCEPT ![k] = [quantity |-> sum, selected |-> s]]
          BY <3>2
        <5>2. [quantity |-> sum, selected |-> s] \in [quantity : 0 .. MaxQuantity, selected : BOOLEAN]
          BY <4>1
        <5> QED  BY <5>1, <5>2 DEF CartTypes
      <4> QED  BY <2>3, <4>3, <4>4 DEF WriteCartItem, CartTypes
    <3>3. CASE UNCHANGED <<cart, counted>>
      BY <2>3, <3>3 DEF WriteCartItem, CartTypes
    <3> QED  BY <2>3, <3>2, <3>3 DEF WriteCartItem
  <2> QED  BY <1>2, <2>1, <2>2, <2>3 DEF AddCartItem
<1>3. ASSUME NEW k \in SKUs, NEW q \in 1 .. MaxQuantity, NEW s \in BOOLEAN, UpdateCartItem(k, q, s)
      PROVE  CartTypes'
  BY <1>3 DEF UpdateCartItem, CartTypes
<1>4. ASSUME NEW k \in SKUs, DeleteCartItem(k)
      PROVE  CartTypes'
  BY <1>4 DEF DeleteCartItem, CartTypes
<1>5. ASSUME NEW k \in SKUs, ChangeOffer(k) \/ ChangePromotions(k)
      PROVE  UNCHANGED cartVars
  BY <1>5 DEF ChangeOffer, ChangePromotions
<1>6. ASSUME NEW a, DeleteAddress(a)
      PROVE  UNCHANGED cartVars
  BY <1>6 DEF DeleteAddress
<1>7. ASSUME NEW c \in OrderCalls, CreateOrder(c)
      PROVE  UNCHANGED cartVars
  BY <1>7
  DEF CreateOrder, StartOrder, FindOrderByRequest, GetAddress, GetCart, CheckoutSKUs,
      CheckoutPromotions, RefindOrder, InsertOrder, RereadOrder
<1>8. UNCHANGED orderingVars => UNCHANGED cartVars
  BY DEF orderingVars
<1> QED  BY <1>1, <1>2, <1>3, <1>4, <1>5, <1>6, <1>7, <1>8 DEF OrderingNext

LEMMA WorldTypesKeep ==
  ASSUME WorldTypes, [OrderingNext]_orderingVars
  PROVE  WorldTypes'
<1> USE OrderingConstants
<1>1. CASE UNCHANGED world
  BY <1>1 DEF WorldTypes, world
<1>2. ASSUME NEW a \in AddCalls, AddCartItem(a)
      PROVE  UNCHANGED world
  BY <1>2 DEF AddCartItem, LockCart, ReadCartItem, WriteCartItem
<1>0. changes < MaxChanges => changes + 1 \in 0 .. MaxChanges
  BY DEF WorldTypes
<1>3. ASSUME NEW k \in SKUs, NEW q \in 1 .. MaxQuantity, NEW s \in BOOLEAN, UpdateCartItem(k, q, s)
      PROVE  WorldTypes'
  BY <1>0, <1>3 DEF UpdateCartItem, WorldTypes
<1>4. ASSUME NEW k \in SKUs, DeleteCartItem(k)
      PROVE  WorldTypes'
  BY <1>0, <1>4 DEF DeleteCartItem, WorldTypes
<1>5. ASSUME NEW k \in SKUs, ChangeOffer(k) \/ ChangePromotions(k)
      PROVE  WorldTypes'
  <2>1. CASE ChangeOffer(k)
    BY <1>0, <2>1 DEF ChangeOffer, WorldTypes
  <2>2. CASE ChangePromotions(k)
    BY <1>0, <2>2 DEF ChangePromotions, WorldTypes
  <2> QED  BY <1>5, <2>1, <2>2
<1>6. ASSUME NEW a, DeleteAddress(a)
      PROVE  WorldTypes'
  BY <1>0, <1>6 DEF DeleteAddress, WorldTypes
<1>7. ASSUME NEW c \in OrderCalls, CreateOrder(c)
      PROVE  UNCHANGED world
  BY <1>7
  DEF CreateOrder, StartOrder, FindOrderByRequest, GetAddress, GetCart, CheckoutSKUs,
      CheckoutPromotions, RefindOrder, InsertOrder, RereadOrder
<1>8. UNCHANGED orderingVars => UNCHANGED world
  BY DEF orderingVars
<1> QED  BY <1>1, <1>2, <1>3, <1>4, <1>5, <1>6, <1>7, <1>8 DEF OrderingNext

\* The other calls stay where they are.
OnlyCall(c) ==
  \A d \in OrderCalls : d # c =>
    /\ orderPc'[d] = orderPc[d] /\ lines'[d] = lines[d] /\ quote'[d] = quote[d]
    /\ draft'[d] = draft[d] /\ orderAnswer'[d] = orderAnswer[d]

\* ... and what this one reads, makes and answers is of its type.
CallGoes(c) ==
  /\ OnlyCall(c)
  /\ orderPc'[c] \in OrderSteps
  /\ lines'[c] \in [SKUs -> 0 .. MaxQuantity]
  /\ quote'[c] \in [SKUs -> Offers \cup {None}]
  /\ draft'[c] \in Order \cup {None}
  /\ orderPc'[c] \in {"refind", "insert"} => draft'[c] \in Order
  /\ orderAnswer'[c] \in OrderCalls \cup OrderErrors \cup {None}

OrdersFit == DOMAIN orders' \subseteq OrderCalls /\ \A d \in DOMAIN orders' : orders'[d] \in Order

LEMMA CallKeeps ==
  ASSUME OrderTypes, NEW c \in OrderCalls, CallGoes(c), OrdersFit
  PROVE  OrderTypes'
<1>1. \A d \in OrderCalls : d # c => CallTypes(d)'
  BY DEF CallGoes, OnlyCall, OrderTypes, CallTypes
<1>2. CallTypes(c)'
  BY DEF CallGoes, CallTypes
<1> QED  BY <1>1, <1>2 DEF OrderTypes, OrdersFit

LEMMA CallAnswers ==
  ASSUME OrderInv, DraftInv, OrderTypes, NEW c \in OrderCalls, NEW from,
         NEW x \in OrderCalls \cup OrderErrors, AnswerOrder(c, from, x), OrdersFit
  PROVE  OrderTypes'
<1>1. NoLines \in [SKUs -> 0 .. MaxQuantity] /\ NoQuote \in [SKUs -> Offers \cup {None}]
  BY OrderingConstants DEF NoLines, NoQuote
<1>2. /\ orderPc'[c] = "done" /\ lines'[c] = NoLines /\ quote'[c] = NoQuote /\ draft'[c] = None
      /\ orderAnswer'[c] = x
  BY DEF OrderInv, DraftInv, AnswerOrder, OrderStep
<1>3. OnlyCall(c)
  BY DEF OrderInv, DraftInv, AnswerOrder, OrderStep, OnlyCall
<1>4. CallGoes(c)
  BY <1>1, <1>2, <1>3 DEF CallGoes, OrderSteps
<1> QED  BY <1>4, CallKeeps

LEMMA OrderCallFails ==
  ASSUME OrderInv, DraftInv, OrderTypes, NEW c \in OrderCalls, NEW from, RepositoryFails(c, from),
         OrdersFit
  PROVE  OrderTypes'
<1>1. PICK e \in OrderErrors : AnswerOrder(c, from, e)
  BY DEF RepositoryFails, OrderErrors
<1> QED  BY <1>1, CallAnswers

LEMMA CallGoesOn ==
  ASSUME OrderInv, DraftInv, OrderTypes, NEW c \in OrderCalls, NEW from, NEW to \in OrderSteps,
         Advance(c, from, to), UNCHANGED locals,
         to \in {"refind", "insert"} => from \in {"refind", "insert"}, OrdersFit
  PROVE  OrderTypes'
<1>1. orderPc[c] = from /\ orderPc'[c] = to /\ orderAnswer' = orderAnswer
  BY DEF OrderInv, Advance, OrderStep
<1>2. CallTypes(c)
  BY DEF OrderTypes
<1>3. OnlyCall(c)
  BY DEF OrderInv, Advance, OrderStep, OnlyCall, locals
<1>4. CallGoes(c)
  BY <1>1, <1>2, <1>3 DEF CallGoes, CallTypes, locals
<1> QED  BY <1>4, CallKeeps

LEMMA CallFinds ==
  ASSUME OrderInv, DraftInv, OrderTypes, NEW c \in OrderCalls, NEW from, NEW to \in OrderSteps,
         Find(c, from, to), to \in {"refind", "insert"} => from \in {"refind", "insert"}, OrdersFit
  PROVE  OrderTypes'
<1>1. Requested(c) \subseteq OrderCalls
  BY DEF Requested, OrderInv
<1>2. CASE Advance(c, from, to) /\ UNCHANGED locals
  BY <1>2, CallGoesOn
<1>3. CASE \E d \in Requested(c) : AnswerOrder(c, from, d)
  BY <1>1, <1>3, CallAnswers
<1>4. CASE RepositoryFails(c, from)
  BY <1>4, OrderCallFails
<1> QED  BY <1>2, <1>3, <1>4 DEF Find

\* GetCart and the two queries of the catalog.
LEMMA CallReadsCart ==
  ASSUME OrderInv, DraftInv, CartTypes, OrderTypes, NEW c \in OrderCalls, GetCart(c), OrdersFit
  PROVE  OrderTypes'
<1>1. CASE /\ Advance(c, "cart", "skus")
           /\ lines' = [lines EXCEPT ![c] = Selected]
           /\ UNCHANGED <<quote, draft>>
  <2>1. Selected \in [SKUs -> 0 .. MaxQuantity]
    BY OrderingConstants DEF Selected, CartTypes
  <2>2. orderPc'[c] = "skus" /\ lines'[c] = Selected /\ orderAnswer' = orderAnswer
    BY <1>1 DEF OrderInv, DraftInv, Advance, OrderStep
  <2>3. OnlyCall(c)
    BY <1>1 DEF OrderInv, DraftInv, Advance, OrderStep, OnlyCall
  <2>4. CallGoes(c)
    BY <1>1, <2>1, <2>2, <2>3 DEF CallGoes, CallTypes, OrderTypes, OrderSteps
  <2> QED  BY <2>4, CallKeeps
<1>2. CASE AnswerOrder(c, "cart", "InvalidArgument")
  BY <1>2, CallAnswers DEF OrderErrors
<1>3. CASE RepositoryFails(c, "cart")
  BY <1>3, OrderCallFails
<1> QED  BY <1>1, <1>2, <1>3 DEF GetCart

LEMMA CallReadsOffers ==
  ASSUME OrderInv, DraftInv, OrderTypes, NEW c \in OrderCalls, CheckoutSKUs(c), OrdersFit
  PROVE  OrderTypes'
<1> DEFINE read == [k \in SKUs |-> IF k \in Wanted(c) THEN offers[k] ELSE None]
<1>1. CASE /\ Advance(c, "skus", "promotions")
           /\ quote' = [quote EXCEPT ![c] = read]
           /\ UNCHANGED <<lines, draft>>
  <2>1. read \in [SKUs -> Offers \cup {None}]
    BY DEF DraftInv
  <2> HIDE DEF read
  <2>2. orderPc'[c] = "promotions" /\ quote'[c] = read /\ orderAnswer' = orderAnswer
    BY <1>1 DEF OrderInv, DraftInv, Advance, OrderStep
  <2>3. OnlyCall(c)
    BY <1>1 DEF OrderInv, DraftInv, Advance, OrderStep, OnlyCall
  <2>4. CallGoes(c)
    BY <1>1, <2>1, <2>2, <2>3 DEF CallGoes, CallTypes, OrderTypes, OrderSteps
  <2> QED  BY <2>4, CallKeeps
<1>2. CASE AnswerOrder(c, "skus", "Internal")
  BY <1>2, CallAnswers DEF OrderErrors
<1>3. CASE RepositoryFails(c, "skus")
  BY <1>3, OrderCallFails
<1> QED  BY <1>1, <1>2, <1>3 DEF CheckoutSKUs

\* The promotion that was applied is one of those that were read.
LEMMA ItemIsLine ==
  ASSUME NEW offer \in Offers, NEW candidates \in Promotions, NEW quantity \in Nat,
         ItemPriced(OrderItem(offer, candidates, quantity))
  PROVE  OrderItem(offer, candidates, quantity) \in Line
<1> DEFINE subtotal == offer.price * quantity
           item == OrderItem(offer, candidates, quantity)
           a == Applied(candidates, subtotal)
<1>1. offer.price \in Nat /\ candidates \in Seq(Promotion)
  BY OrderingConstants
<1>2. subtotal \in Nat
  BY <1>1
<1>3. /\ item.quantity = quantity /\ item.unit = offer.price
      /\ item.promotion = IF a = None THEN 0 ELSE a.id
      /\ item.discount = IF a = None THEN 0 ELSE a.discount * quantity
      /\ item.amount = subtotal - item.discount
      /\ item = [quantity |-> item.quantity, unit |-> item.unit, promotion |-> item.promotion,
                 discount |-> item.discount, amount |-> item.amount]
  BY DEF OrderItem
<1>4. IsMoney(item.amount) /\ IsMoney(item.discount)
  BY DEF ItemPriced
<1> HIDE DEF item, subtotal, a
<1>5. BestOfFirst(a, candidates, subtotal, Len(candidates))
  BY <1>1, <1>2, AppliedIsBest DEF a
<1>6. item.promotion \in Nat /\ item.discount \in Int
  <2>1. CASE a = None
    BY <1>3, <2>1
  <2>2. CASE a # None
    <3>1. PICK i \in 1 .. Len(candidates) : a = candidates[i]
      BY <1>5, <2>2 DEF BestOfFirst
    <3>2. a \in Promotion
      BY <1>1, <3>1
    <3> QED  BY <1>3, <2>2, <3>2 DEF Promotion, NotMoney
  <2> QED  BY <2>1, <2>2
<1>7. item.amount \in Int
  BY <1>2, <1>3, <1>6
<1>8. item.discount \in Nat /\ item.amount \in Nat
  BY <1>4, <1>6, <1>7 DEF IsMoney
<1>9. item \in Line
  BY <1>1, <1>3, <1>6, <1>8 DEF Line
<1> QED  BY <1>9 DEF item

LEMMA CallMakesOrder ==
  ASSUME OrderInv, DraftInv, OrderTypes, NEW c \in OrderCalls, CheckoutPromotions(c), OrdersFit
  PROVE  OrderTypes'
<1> DEFINE items == OrderItems(c)
           new == [request |-> RequestOf[c], address |-> AddressOf[c], items |-> items,
                   total |-> Total(items)]
<1>1. CASE /\ Orderable(c)
           /\ Advance(c, "promotions", "refind")
           /\ draft' = [draft EXCEPT ![c] = new]
           /\ UNCHANGED <<lines, quote>>
  <2>1. ASSUME NEW k \in SKUs
        PROVE  items[k] \in Line
    <3>1. CASE k \in Wanted(c)
      <4>1. quote[c][k] \in Offers /\ promotions[k] \in Promotions /\ lines[c][k] \in Nat
        BY <1>1, <3>1 DEF DraftInv, Advance, OrderStep
      <4>2. items[k] = OrderItem(quote[c][k], promotions[k], lines[c][k])
        BY <3>1 DEF OrderItems
      <4>3. ItemPriced(items[k])
        BY <1>1, <3>1 DEF Orderable
      <4> QED  BY <4>1, <4>2, <4>3, ItemIsLine
    <3>2. CASE k \notin Wanted(c)
      BY <3>2 DEF OrderItems, NoLine, Line
    <3> QED  BY <3>1, <3>2
  <2>2. items \in [SKUs -> Line]
    BY <2>1 DEF OrderItems
  <2> HIDE DEF items
  <2>3. Total(items) \in Nat
    <3> DEFINE amounts == [k \in SKUs |-> items[k].amount]
    <3>1. \A k \in SKUs : amounts[k] \in Nat
      BY <2>2 DEF Line
    <3> HIDE DEF amounts
    <3>2. SumFunctionOnSet(amounts, SKUs) \in Nat
      BY <3>1, CatalogIsFinite, SumIsNat
    <3> QED  BY <3>2 DEF Total, amounts
  <2>4. new \in Order
    BY <2>2, <2>3 DEF Order
  <2> HIDE DEF new
  <2>5. orderPc'[c] = "refind" /\ draft'[c] = new /\ orderAnswer' = orderAnswer
    BY <1>1 DEF OrderInv, DraftInv, Advance, OrderStep
  <2>6. OnlyCall(c)
    BY <1>1 DEF OrderInv, DraftInv, Advance, OrderStep, OnlyCall
  <2>7. CallGoes(c)
    BY <1>1, <2>4, <2>5, <2>6 DEF CallGoes, CallTypes, OrderTypes, OrderSteps
  <2> QED  BY <2>7, CallKeeps
<1>2. CASE AnswerOrder(c, "promotions", "InvalidArgument")
  BY <1>2, CallAnswers DEF OrderErrors
<1>3. CASE RepositoryFails(c, "promotions")
  BY <1>3, OrderCallFails
<1> QED  BY <1>1, <1>2, <1>3 DEF CheckoutPromotions

LEMMA CallInserts ==
  ASSUME OrderInv, DraftInv, OrderTypes, NEW c \in OrderCalls, InsertOrder(c)
  PROVE  OrderTypes'
<1>1. CASE Insert(c) /\ (AnswerOrder(c, "insert", c) \/ RepositoryFails(c, "insert"))
  <2>1. orderPc[c] = "insert"
    BY <1>1 DEF AnswerOrder, RepositoryFails, OrderStep
  <2>2. draft[c] \in Order
    BY <2>1 DEF OrderTypes, CallTypes
  <2>3. OrdersFit
    BY <1>1, <2>2 DEF Insert, OrderTypes, OrdersFit
  <2> QED  BY <1>1, <2>3, CallAnswers, OrderCallFails
<1>2. UNCHANGED orders => OrdersFit
  BY DEF OrderTypes, OrdersFit
<1>3. CASE UNCHANGED orders /\ Advance(c, "insert", "reread") /\ UNCHANGED locals
  BY <1>2, <1>3, CallGoesOn DEF OrderSteps
<1>4. CASE UNCHANGED orders /\ RepositoryFails(c, "insert")
  BY <1>2, <1>4, OrderCallFails
<1> QED  BY <1>1, <1>3, <1>4 DEF InsertOrder

LEMMA CreateOrderKeepsTypes ==
  ASSUME OrderInv, DraftInv, CartTypes, OrderTypes, NEW c \in OrderCalls, CreateOrder(c)
  PROVE  OrderTypes'
<1>0. UNCHANGED orders => OrdersFit
  BY DEF OrderTypes, OrdersFit
<1>1. CASE StartOrder(c)
  BY <1>0, <1>1, CallGoesOn DEF StartOrder, OrderSteps
<1>2. CASE FindOrderByRequest(c)
  BY <1>0, <1>2, CallFinds DEF FindOrderByRequest, OrderSteps
<1>3. CASE GetAddress(c)
  <2>1. CASE Advance(c, "address", "cart") /\ UNCHANGED locals
    BY <1>0, <1>3, <2>1, CallGoesOn DEF GetAddress, OrderSteps
  <2>2. CASE AnswerOrder(c, "address", "NotFound")
    BY <1>0, <1>3, <2>2, CallAnswers DEF GetAddress, OrderErrors
  <2>3. CASE RepositoryFails(c, "address")
    BY <1>0, <1>3, <2>3, OrderCallFails DEF GetAddress
  <2> QED  BY <1>3, <2>1, <2>2, <2>3 DEF GetAddress
<1>4. CASE GetCart(c)
  <2>1. UNCHANGED orders
    BY <1>4 DEF GetCart
  <2> QED  BY <1>0, <1>4, <2>1, CallReadsCart
<1>5. CASE CheckoutSKUs(c)
  <2>1. UNCHANGED orders
    BY <1>5 DEF CheckoutSKUs
  <2> QED  BY <1>0, <1>5, <2>1, CallReadsOffers
<1>6. CASE CheckoutPromotions(c)
  <2>1. UNCHANGED orders
    BY <1>6 DEF CheckoutPromotions
  <2> QED  BY <1>0, <1>6, <2>1, CallMakesOrder
<1>7. CASE RefindOrder(c)
  BY <1>0, <1>7, CallFinds DEF RefindOrder, OrderSteps
<1>8. CASE RereadOrder(c)
  <2>1. Requested(c) \subseteq OrderCalls
    BY DEF Requested, OrderInv
  <2>2. CASE \E d \in Requested(c) : AnswerOrder(c, "reread", d)
    BY <1>0, <1>8, <2>1, <2>2, CallAnswers DEF RereadOrder
  <2>3. CASE RepositoryFails(c, "reread")
    BY <1>0, <1>8, <2>3, OrderCallFails DEF RereadOrder
  <2> QED  BY <1>8, <2>2, <2>3 DEF RereadOrder
<1> QED  BY <1>1, <1>2, <1>3, <1>4, <1>5, <1>6, <1>7, <1>8, CallInserts DEF CreateOrder

LEMMA OrderTypesKeep ==
  ASSUME OrderInv, DraftInv, CartTypes, OrderTypes, [OrderingNext]_orderingVars
  PROVE  OrderTypes'
<1>1. CASE UNCHANGED <<orders, callVars>>
  BY <1>1 DEF OrderTypes, CallTypes, callVars, locals
<1>2. CASE UNCHANGED orderingVars
  BY <1>1, <1>2 DEF orderingVars
<1>3. ASSUME NEW a \in AddCalls, AddCartItem(a)
      PROVE  UNCHANGED <<orders, callVars>>
  BY <1>3 DEF AddCartItem, LockCart, ReadCartItem, WriteCartItem
<1>4. ASSUME NEW k \in SKUs, NEW q, NEW s,
             UpdateCartItem(k, q, s) \/ DeleteCartItem(k) \/ ChangeOffer(k) \/ ChangePromotions(k)
      PROVE  UNCHANGED <<orders, callVars>>
  BY <1>4 DEF UpdateCartItem, DeleteCartItem, ChangeOffer, ChangePromotions
<1>5. ASSUME NEW a, DeleteAddress(a)
      PROVE  UNCHANGED <<orders, callVars>>
  BY <1>5 DEF DeleteAddress
<1> QED  BY <1>1, <1>2, <1>3, <1>4, <1>5, CreateOrderKeepsTypes DEF OrderingNext

\* A cart's quantities stay within MaxQuantity and an order's amounts are natural numbers, whatever
\* is added, changed and ordered at the same time.
THEOREM OrderingTyping == OrderingSpec => []OrderingTypeOK
<1>1. OrderingInit => CartInv /\ OrderInv /\ DraftInv /\ OrderingTypes
  BY CartInit, OrderInit, DraftInit, OrderingTypesInit
<1>2. CartInv /\ OrderInv /\ DraftInv /\ OrderingTypes /\ [OrderingNext]_orderingVars
        => (CartInv /\ OrderInv /\ DraftInv /\ OrderingTypes)'
  BY CartStep, OrderInvStep, DraftStep, CartTypesKeep, WorldTypesKeep, OrderTypesKeep DEF OrderingTypes
<1>3. OrderingTypes => OrderingTypeOK
  BY DEF OrderingTypes, CartTypes, WorldTypes, OrderTypes, CallTypes, OrderingTypeOK
<1> QED  BY <1>1, <1>2, <1>3, PTL DEF OrderingSpec

--------------------------------------------------------------------------------
(* Chunker                                                                   *)

\* The text that chunker.go is given is made of its kinds of line.
THEOREM ChunkerTyping == ChunkerSpec => []ChunkerTypeOK
<1>1. ChunkerInit => ChunkerTypeOK
  BY ChunkerConstants DEF ChunkerInit, ChunkerTypeOK
<1>2. ChunkerTypeOK /\ [ChunkerNext]_chunkerVars => ChunkerTypeOK'
  <2> SUFFICES ASSUME ChunkerTypeOK, [ChunkerNext]_chunkerVars PROVE ChunkerTypeOK'
    OBVIOUS
  <2>1. ASSUME NEW line \in TextLine, Len(text) < MaxLines, text' = Append(text, line)
        PROVE  ChunkerTypeOK'
    <3>1. text' \in Seq(TextLine) /\ Len(text') = Len(text) + 1 /\ Len(text) \in Nat
      BY <2>1 DEF ChunkerTypeOK
    <3> QED  BY <2>1, <3>1, ChunkerConstants DEF ChunkerTypeOK
  <2>2. CASE UNCHANGED chunkerVars
    BY <2>2 DEF ChunkerTypeOK, chunkerVars
  <2> QED  BY <2>1, <2>2 DEF ChunkerNext
<1> QED  BY <1>1, <1>2, PTL DEF ChunkerSpec

--------------------------------------------------------------------------------
(* Retrieval                                                                 *)

SearchTypes ==
  /\ ready \subseteq KnowledgeDocuments
  /\ shown \subseteq ready
  /\ inMilvus \subseteq KnowledgeDocuments
  /\ wanted \in [Searches -> [types : SUBSET DocTypes, topK : TopKs]]
  /\ hits \in [Searches -> SUBSET AllChunks]
  /\ snippets \in [Searches -> (SUBSET AllChunks) \cup {NoReadyKnowledge}]

LEMMA NothingIsWanted == Nothing \in [types : SUBSET DocTypes, topK : TopKs]
<1>1. (CHOOSE k \in TopKs : TRUE) \in TopKs
  BY RetrievalConstants
<1> QED  BY <1>1 DEF Nothing

LEMMA SearchTypesEnd ==
  ASSUME SearchTypes, NEW s \in Searches,
         NEW result \in (SUBSET AllChunks) \cup {NoReadyKnowledge},
         SearchEnds(s, result), UNCHANGED knowledgeRows
  PROVE  SearchTypes'
BY NothingIsWanted DEF SearchTypes, SearchEnds, knowledgeRows

LEMMA SearchTypesKeep ==
  ASSUME RetrievalInv, SearchTypes, [RetrievalNext]_retrievalVars
  PROVE  SearchTypes'
<1>1. CASE UNCHANGED retrievalVars
  BY <1>1 DEF SearchTypes, retrievalVars
<1>2. ASSUME NEW d \in KnowledgeDocuments, UpsertVectors(d) \/ BecomeCurrent(d)
      PROVE  SearchTypes'
  BY <1>2 DEF SearchTypes, UpsertVectors, BecomeCurrent, Store!Embed, Store!Publish, searchVars
<1>3. ASSUME NEW s \in Searches, SearchStep(s)
      PROVE  SearchTypes'
  <2>1. ASSUME NEW types \in SUBSET DocTypes, NEW k \in TopKs, Search(s, types, k)
        PROVE  SearchTypes'
    BY <2>1 DEF SearchTypes, Search, knowledgeRows
  <2>2. CASE ListCurrentReadyDocuments(s)
    <3>1. CASE SearchEnds(s, NoReadyKnowledge)
      <4>1. NoReadyKnowledge \in (SUBSET AllChunks) \cup {NoReadyKnowledge}
        OBVIOUS
      <4>2. UNCHANGED knowledgeRows
        BY <2>2 DEF ListCurrentReadyDocuments
      <4> QED  BY <3>1, <4>1, <4>2, SearchTypesEnd
    <3>2. CASE UNCHANGED <<wanted, hits, snippets>>
      BY <2>2, <3>2 DEF ListCurrentReadyDocuments, SearchTypes, knowledgeRows
    <3> QED  BY <2>2, <3>1, <3>2 DEF ListCurrentReadyDocuments
  <2>3. CASE EmbedQuery(s)
    BY <2>3 DEF EmbedQuery, SearchTypes, knowledgeRows
  <2>4. CASE VectorSearch(s)
    <3>1. PICK found \in NearestChunks(s) : hits' = [hits EXCEPT ![s] = found]
      BY <2>4 DEF VectorSearch
    <3>2. VectorFilter(s) \subseteq KnowledgeDocuments
      BY DEF VectorFilter, SearchTypes
    <3>3. found \subseteq AllChunks
      BY <3>1, <3>2 DEF NearestChunks, AllChunks
    <3> QED  BY <2>4, <3>1, <3>3 DEF VectorSearch, SearchTypes, knowledgeRows
  <2>5. CASE HydrateKnowledgeSnippets(s)
    <3>1. {chunk \in hits[s] : Hydrated(chunk)} \in SUBSET AllChunks
      BY DEF SearchTypes
    <3> QED  BY <2>5, <3>1, SearchTypesEnd DEF HydrateKnowledgeSnippets
  <2>6. CASE SearchFails(s)
    BY <2>6, SearchTypesEnd DEF SearchFails
  <2> QED  BY <1>3, <2>1, <2>2, <2>3, <2>4, <2>5, <2>6 DEF SearchStep
<1> QED  BY <1>1, <1>2, <1>3 DEF RetrievalNext

\* A search of retrieval_service.go asks Milvus for a topK it may ask for, and answers with
\* chunks of documents there are or with no ready knowledge; only a ready document is shown.
THEOREM RetrievalTyping == RetrievalSpec => []RetrievalTypeOK
<1>1. RetrievalInit => RetrievalInv /\ SearchTypes
  BY RetrievalInvInit, NothingIsWanted DEF RetrievalInit, Store!Init, SearchTypes
<1>2. RetrievalInv /\ SearchTypes /\ [RetrievalNext]_retrievalVars => (RetrievalInv /\ SearchTypes)'
  BY RetrievalInvStep, SearchTypesKeep
<1>3. RetrievalInv /\ SearchTypes => RetrievalTypeOK
  BY DEF RetrievalInv, SearchTypes, RetrievalTypeOK
<1> QED  BY <1>1, <1>2, <1>3, PTL DEF RetrievalSpec

--------------------------------------------------------------------------------
(* OrderRecords                                                              *)

\* An order is stored by a CreateOrder that ran, at a statement of that call, and never without it.
THEOREM RecordsTyping == RecordsSpec => []RecordsTypeOK
<1>1. RecordsInv => RecordsTypeOK
  BY DEF RecordsInv, CreationInv, RecordsTypeOK
<1> QED  BY <1>1, RecordsInvariant, PTL

--------------------------------------------------------------------------------
(* EventContracts                                                            *)

DocumentEvents == {"knowledge.document.ingest", "knowledge.chunk.embed"}

DocumentStatuses == {"PENDING", "PROCESSING", "READY", "FAILED"}

\* A document that was uploaded stays as it came in, and no event is about a document that
\* was not.
DocumentTypes ==
  \/ /\ knownDocument \in [input : UploadInputs, status : DocumentStatuses]
     /\ normalizeUpload(knownDocument.input)
  \/ knownDocument = None /\ \A e \in underway : e.topic \notin DocumentEvents

ContractTypes ==
  /\ reviewedItem \in BOOLEAN
  /\ orderPaid \in BOOLEAN
  /\ retryCalls \in 0 .. MaxRetryCalls
  /\ \A e \in underway \cup refused : e.topic \in Topics
  /\ DocumentTypes

LEMMA EventTopics ==
  /\ confirmationPayload.topic = "inventory.reservation.confirm"
  /\ newIngestEvent.topic = "knowledge.document.ingest"
  /\ newChunkEmbedEvent.topic = "knowledge.chunk.embed"
  /\ \A input : reviewSubmittedPayload(input).topic = "review.events"
  /\ \A payload : behaviorMessage(payload).topic = "behavior.events"
BY DEF confirmationPayload, newIngestEvent, newChunkEmbedEvent, reviewSubmittedPayload, behaviorMessage

\* An event that is not about a document.
LEMMA CommitKeepsTypes ==
  ASSUME ContractTypes, NEW e, e.topic \in Topics \ DocumentEvents, CommitEvent(e),
         UNCHANGED <<knownDocument, retryCalls>>, reviewedItem' \in BOOLEAN, orderPaid' \in BOOLEAN
  PROVE  ContractTypes'
BY DEF ContractTypes, DocumentTypes, CommitEvent

\* An event that was consumed.
LEMMA ConsumedKeepsTypes ==
  ASSUME ContractTypes, NEW e \in underway, Accept(e) \/ RefuseEvent(e),
         UNCHANGED <<knownDocument, retryCalls, reviewedItem, orderPaid>>
  PROVE  ContractTypes'
BY DEF ContractTypes, DocumentTypes, Accept, RefuseEvent

LEMMA StatusChanges ==
  ASSUME knownDocument \in [input : UploadInputs, status : DocumentStatuses],
         normalizeUpload(knownDocument.input),
         NEW status \in DocumentStatuses, knownDocument' = [knownDocument EXCEPT !.status = status]
  PROVE  DocumentTypes'
<1>1. /\ knownDocument' \in [input : UploadInputs, status : DocumentStatuses]
      /\ knownDocument'.input = knownDocument.input
  OBVIOUS
<1> QED  BY <1>1 DEF DocumentTypes

LEMMA ContractTypesKeep ==
  ASSUME ContractTypes, [ContractsNext]_contractVars
  PROVE  ContractTypes'
<1> USE ContractsAssumption
<1>0. DocumentEvents \subseteq Topics
  BY DEF DocumentEvents, Topics
<1>1. CASE UNCHANGED contractVars
  BY <1>1 DEF ContractTypes, DocumentTypes, contractVars
<1>2. CASE SettlePayment
  <2>1. confirmationPayload.topic \in Topics \ DocumentEvents
    BY EventTopics DEF Topics, DocumentEvents
  <2> QED  BY <1>2, <2>1, CommitKeepsTypes DEF SettlePayment, ContractTypes
<1>3. ASSUME NEW input \in SubmitReviewInputs, ReviewItem(input) PROVE ContractTypes'
  <2>1. reviewSubmittedPayload(input).topic \in Topics \ DocumentEvents
    BY EventTopics DEF Topics, DocumentEvents
  <2> QED  BY <1>3, <2>1, CommitKeepsTypes DEF ReviewItem, ContractTypes
<1>4. ASSUME NEW payload \in BehaviorPayloads, Observe(payload) PROVE ContractTypes'
  <2>1. behaviorMessage(payload).topic \in Topics \ DocumentEvents
    BY EventTopics DEF Topics, DocumentEvents
  <2> QED  BY <1>4, <2>1, CommitKeepsTypes DEF Observe, ContractTypes
<1>5. ASSUME NEW input \in UploadInputs, Upload(input) PROVE ContractTypes'
  <2>1. DocumentTypes'
    <3>1. knownDocument' = [input |-> input, status |-> "PENDING"] /\ normalizeUpload(input)
      BY <1>5 DEF Upload
    <3>2. /\ knownDocument' \in [input : UploadInputs, status : DocumentStatuses]
          /\ knownDocument'.input = input
      BY <3>1 DEF DocumentStatuses
    <3> QED  BY <3>1, <3>2 DEF DocumentTypes
  <2> QED  BY <1>5, <2>1, EventTopics DEF Upload, CommitEvent, ContractTypes, Topics
<1>6. CASE RetryDocument
  <2>1. DocumentTypes'
    BY <1>6, StatusChanges DEF RetryDocument, ContractTypes, DocumentTypes, DocumentStatuses
  <2>2. retryCalls' \in 0 .. MaxRetryCalls
    BY <1>6 DEF RetryDocument, ContractTypes
  <2> QED  BY <1>6, <2>1, <2>2, EventTopics DEF RetryDocument, CommitEvent, ContractTypes, Topics
<1>7. ASSUME NEW e \in underway,
             ConsumeReview(e) \/ ConsumeConfirmation(e) \/ ConsumeBehavior(e)
      PROVE  ContractTypes'
  BY <1>7, ConsumedKeepsTypes DEF ConsumeReview, ConsumeConfirmation, ConsumeBehavior
<1>8. ASSUME NEW e \in underway, HandleDocumentIngest(e) \/ HandleChunkEmbed(e)
      PROVE  ContractTypes'
  <2>1. /\ knownDocument \in [input : UploadInputs, status : DocumentStatuses]
        /\ normalizeUpload(knownDocument.input)
    BY <1>8 DEF HandleDocumentIngest, HandleChunkEmbed, ContractTypes, DocumentTypes, DocumentEvents
  <2>2. CASE UNCHANGED knownDocument /\ (Accept(e) \/ RefuseEvent(e))
    BY <1>8, <2>2, ConsumedKeepsTypes DEF HandleDocumentIngest, HandleChunkEmbed
  <2>3. ASSUME NEW status \in DocumentStatuses,
               knownDocument' = [knownDocument EXCEPT !.status = status],
               underway' \subseteq underway \cup {newChunkEmbedEvent}, UNCHANGED refused
        PROVE  ContractTypes'
    <3>1. DocumentTypes'
      BY <2>1, <2>3, StatusChanges
    <3> QED  BY <1>8, <2>3, <3>1, EventTopics
        DEF HandleDocumentIngest, HandleChunkEmbed, ContractTypes, Topics
  <2>4. CASE HandleDocumentIngest(e)
    BY <2>2, <2>3, <2>4 DEF HandleDocumentIngest, IngestDocument, Accept, DocumentStatuses
  <2>5. CASE HandleChunkEmbed(e)
    BY <2>2, <2>3, <2>5 DEF HandleChunkEmbed, Accept, DocumentStatuses
  <2> QED  BY <1>8, <2>4, <2>5
<1> QED  BY <1>1, <1>2, <1>3, <1>4, <1>5, <1>6, <1>7, <1>8 DEF ContractsNext

\* An event is published to a topic there is, and a document stays the upload that
\* normalizeUpload let in.
THEOREM ContractsTyping == ContractsSpec => []ContractsTypeOK
<1>1. ContractsInit => ContractTypes
  <2> SUFFICES ASSUME ContractsInit PROVE ContractTypes
    OBVIOUS
  <2>1. DocumentTypes
    BY DEF ContractsInit, DocumentTypes
  <2>2. retryCalls \in 0 .. MaxRetryCalls
    BY ContractsAssumption DEF ContractsInit
  <2> QED  BY <2>1, <2>2 DEF ContractsInit, ContractTypes
<1>2. ContractTypes /\ [ContractsNext]_contractVars => ContractTypes'
  BY ContractTypesKeep
<1>3. ContractTypes => ContractsTypeOK
  <2> SUFFICES ASSUME ContractTypes, knownDocument # None
               PROVE  /\ normalizeUpload([knownDocument.input EXCEPT !.user_id = 1])
                      /\ knownDocument.status \in DocumentStatuses
    BY DEF ContractTypes, ContractsTypeOK, DocumentStatuses
  <2>1. /\ knownDocument \in [input : UploadInputs, status : DocumentStatuses]
        /\ normalizeUpload(knownDocument.input)
    BY DEF ContractTypes, DocumentTypes
  <2> DEFINE input == [knownDocument.input EXCEPT !.user_id = 1]
  <2>2. knownDocument.input \in UploadInputs
    BY <2>1
  <2>3. /\ input.user_id = 1 /\ input.product_id = knownDocument.input.product_id
        /\ input.doc_type = knownDocument.input.doc_type
        /\ input.file_name = knownDocument.input.file_name
        /\ input.content_type = knownDocument.input.content_type
        /\ input.size = knownDocument.input.size
    BY <2>2 DEF UploadInputs
  <2> HIDE DEF input
  <2>4. /\ knownDocument.input.product_id # 0 /\ validDocType(knownDocument.input.doc_type)
        /\ sanitizeFileName(knownDocument.input.file_name) \in 1 .. 255
        /\ knownDocument.input.content_type \notin {" ", "long"}
        /\ knownDocument.input.size \in 1 .. MaxFileBytes
    BY <2>1 DEF normalizeUpload
  <2>5. validDocType(input.doc_type) /\ sanitizeFileName(input.file_name) \in 1 .. 255
    BY <2>3, <2>4
  <2>7. input.user_id # 0
    BY <2>3
  <2>9. input.product_id # 0
    BY <2>3, <2>4
  <2>8. input.content_type \notin {" ", "long"} /\ input.size \in 1 .. MaxFileBytes
    BY <2>3, <2>4
  <2>6. normalizeUpload(input)
    BY <2>5, <2>7, <2>8, <2>9 DEF normalizeUpload
  <2> QED  BY <2>1, <2>6 DEF input
<1> QED  BY <1>1, <1>2, <1>3, PTL DEF ContractsSpec

--------------------------------------------------------------------------------
(* Processes                                                                 *)

BootTypes ==
  /\ program \in {None} \cup DOMAIN Main
  /\ environment \in Environments
  /\ \A i \in 1 .. Len(open) : open[i] \notin Checks

LEMMA AllGoodIsPossible == AllGood \in Environments
<1>1. "MYSQL_DSN" \in Required /\ "good" \in Values("MYSQL_DSN")
  BY DEF Required, Values
<1>2. "MYSQL_DSN" \in DOMAIN AllGood /\ [AllGood EXCEPT !["MYSQL_DSN"] = "good"] = AllGood
  BY <1>1 DEF AllGood
<1> QED  BY <1>1, <1>2 DEF Environments

LEMMA BootTypesKeep ==
  ASSUME ProcessTypes, BootTypes, [ProcessesNext]_processVars
  PROVE  BootTypes'
<1>0. open \in Seq(AllSteps)
  BY DEF ProcessTypes
<1>1. CASE UNCHANGED <<program, environment, open>>
  BY <1>1 DEF BootTypes
<1>2. CASE Boot
  BY <1>2 DEF Boot, BootTypes
<1>3. CASE Vanish
  BY <1>3 DEF Vanish, BootTypes
<1>4. ASSUME UNCHANGED <<program, environment>>, open' = Append(open, NextStep), NextStep \notin Checks,
             NextStep \in AllSteps
      PROVE  BootTypes'
  <2>1. Len(open') = Len(open) + 1 /\ Len(open) \in Nat /\ open'[Len(open) + 1] = NextStep
    BY <1>0, <1>4
  <2>2. \A i \in 1 .. Len(open) : open'[i] = open[i]
    BY <1>0, <1>4
  <2>3. \A i \in 1 .. Len(open') : i = Len(open) + 1 \/ i \in 1 .. Len(open)
    BY <2>1
  <2> QED  BY <1>4, <2>1, <2>2, <2>3 DEF BootTypes
<1>5. CASE OpenNext
  BY <1>4, <1>5, StepDone DEF OpenNext
<1>6. CASE StartWorkers
  <2>1. WorkerContexts \cap Checks = {}
    BY DEF WorkerContexts, Checks
  <2> QED  BY <1>4, <1>6, <2>1, StepDone DEF StartWorkers, AtStep
<1>7. CASE CloseLast
  <2> DEFINE last == Len(open) - 1
  <2>1. /\ open' = SubSeq(open, 1, last) /\ last \in Nat /\ last <= Len(open)
        /\ \A i \in 1 .. last : i \in 1 .. Len(open)
    BY <1>0, <1>7 DEF CloseLast
  <2> HIDE DEF last
  <2>2. Len(open') = last /\ \A i \in 1 .. last : open'[i] = open[i]
    BY <1>0, <2>1
  <2> QED  BY <1>7, <2>1, <2>2 DEF CloseLast, BootTypes
<1>8. Check \/ Skip \/ Serve \/ StartReturns \/ UNCHANGED processVars => UNCHANGED <<program, environment, open>>
  BY DEF Check, Skip, Serve, StartReturns, processVars
<1>9. Fatal \/ MainReturns \/ Kill => Vanish
  BY DEF Fatal, MainReturns, Kill
<1>10. ASSUME NEW w \in WorkersOf(program), WorkerFails(w) \/ RunAgain(w) \/ WorkerStops(w)
       PROVE  UNCHANGED <<program, environment, open>>
  BY <1>10 DEF WorkerFails, RunAgain, WorkerStops
<1> QED  BY <1>1, <1>2, <1>3, <1>5, <1>6, <1>7, <1>8, <1>9, <1>10 DEF ProcessesNext

\* A program of main.go is at a statement of its own, and what it has opened or started is
\* something it can open or start.
THEOREM ProcessesTyping == ProcessesSpec => []ProcessesTypeOK
<1>1. ProcessesInit => ProcessesInv /\ BootTypes
  BY ProcessesInvInit, AllGoodIsPossible DEF ProcessesInit, BootTypes
<1>2. ProcessesInv /\ BootTypes /\ [ProcessesNext]_processVars => (ProcessesInv /\ BootTypes)'
  BY ProcessesInvStep, BootTypesKeep DEF ProcessesInv
<1>3. ProcessesInv /\ BootTypes => ProcessesTypeOK
  <2> SUFFICES ASSUME ProcessesInv, BootTypes PROVE ProcessesTypeOK
    OBVIOUS
  <2>1. program = None => phase = "down"
    BY NoneIsNoProgram DEF ProcessesInv, ProcessTypes
  <2>2. tuned = None \/ (tuned[1] \in DOMAIN Workers /\ tuned[2] \in Settings)
    BY DEF ProcessesInv, TunedInv
  <2>3. ASSUME program # None
        PROVE  /\ reached \in 0 .. Len(Main[program])
               /\ Opened \subseteq Steps(program) \ Checks
    <3>1. program \in DOMAIN Main
      BY <2>3 DEF BootTypes
    <3>2. Len(Main[program]) \in Nat /\ DOMAIN Main[program] = 1 .. Len(Main[program])
      BY <3>1, MainsAreLists
    <3>3. reached \in 0 .. Len(Main[program])
      BY <3>2 DEF ProcessesInv, ProcessTypes
    <3>4. DOMAIN open = 1 .. Len(open)
      BY DEF ProcessesInv, ProcessTypes
    <3>5. ASSUME NEW k \in 1 .. Len(open) PROVE open[k] \in Steps(program) \ Checks
      <4>1. PICK i \in 1 .. reached : open[k] = Main[program][i]
        BY DEF ProcessesInv, OpenInv
      <4>2. i \in DOMAIN Main[program]
        BY <3>2, <3>3
      <4> QED  BY <4>1, <4>2 DEF Steps, BootTypes
    <3> QED  BY <3>3, <3>4, <3>5 DEF Opened
  <2> QED  BY <2>1, <2>2, <2>3 DEF ProcessesInv, ProcessTypes, BootTypes, ProcessesTypeOK
<1> QED  BY <1>1, <1>2, <1>3, PTL DEF ProcessesSpec

--------------------------------------------------------------------------------
(* CatalogCache                                                              *)

\* What the variables hold, beyond CacheTypes.  A task that is not over may be retried once
\* more; an update that is committed is so once.
UpdateRanges ==
  /\ \A i, j \in 1 .. CacheVersion : committed[i] = committed[j] => i = j
  /\ updating \in [Updates -> {"idle", "tx", "delete", "done"}]
  /\ toDelete \in [Updates -> SUBSET CacheKeys]
  /\ updateAge \in [Updates -> 0 .. TxTime + 1]
  /\ slowUpdates \subseteq Updates

EntryRanges ==
  /\ entry \in [CacheKeys -> (0 .. CacheVersion) \cup {NoEntry, Unreadable}]
  /\ slowEntry \subseteq CacheKeys
  /\ reading \in [CacheReaders -> {"idle", "drop", "load", "set"}]
  /\ loaded \in [CacheReaders -> 0 .. CacheVersion]
  /\ readAge \in [CacheReaders -> 0 .. ReadTime + 1]

TaskRecord == [status : {"none", "PENDING", "RUNNING", "DONE", "DEAD"},
               holder : CacheWorkers \cup {None}, retries : 0 .. TaskRetries]

TaskRanges ==
  /\ task \in [Tasks -> TaskRecord]
  /\ \A t \in Tasks : task[t].status \in {"PENDING", "RUNNING"} => task[t].retries < TaskRetries
  /\ leased \subseteq Tasks
  /\ due \in [Tasks -> 0 .. MaxDue]
  /\ working \in [CacheWorkers -> {"idle", "delete", "done", "failed"}]
  /\ inBatch \in [CacheWorkers -> SUBSET Tasks]

CacheRanges == UpdateRanges /\ EntryRanges /\ TaskRanges

LEMMA CacheRangesInit == CacheInit => CacheRanges
<1> SUFFICES ASSUME CacheInit PROVE CacheRanges
  OBVIOUS
<1> USE CacheConstants
<1>1. CacheVersion = 0
  BY DEF CacheInit, CacheVersion
<1>2. UpdateRanges
  BY <1>1 DEF CacheInit, UpdateRanges
<1>3. EntryRanges
  BY <1>1 DEF CacheInit, EntryRanges
<1>4. 0 \in 0 .. MaxDue /\ NoTask \in TaskRecord
  BY DEF MaxDue, NoTask, TaskRecord
<1>5. TaskRanges
  BY <1>4 DEF CacheInit, TaskRanges, NoTask
<1> QED  BY <1>2, <1>3, <1>5 DEF CacheRanges

--------------------------------------------------------------------------------

\* The delays of the loop, by the number of the try.
DelaysOf(f, retries) ==
  f = [i \in 1 .. retries |->
         IF i = 1 THEN RetryBase
         ELSE IF 2 * f[i - 1] >= RetryMax THEN RetryMax ELSE 2 * f[i - 1]]

\* However often a task is retried, it waits RetryMax at the longest, and not less than
\* something.
LEMMA RetryDelayBounded ==
  ASSUME NEW retries \in Nat \ {0}
  PROVE  RetryDelay(retries) \in 1 .. RetryMax
<1> USE CacheConstants
<1> DEFINE D == 1 .. RetryMax
           last == retries - 1
           step == [p \in D \X (1 .. last) |-> IF 2 * p[1] >= RetryMax THEN RetryMax ELSE 2 * p[1]]
<1>1. last \in Nat /\ last + 1 = retries
  OBVIOUS
<1>2. RetryBase \in D /\ step \in [D \X (1 .. last) -> D]
  OBVIOUS
<1>3. \A d \in D, i \in 1 .. last : step[<<d, i>>] = IF 2 * d >= RetryMax THEN RetryMax ELSE 2 * d
  OBVIOUS
<1> HIDE DEF step, D, last
<1>4. PICK g \in [0 .. last -> D] : IsRun(g, last, RetryBase, step)
  BY <1>1, <1>2, LoopDefined
<1> DEFINE f == [i \in 1 .. retries |-> g[i - 1]]
<1>5. DelaysOf(f, retries)
  <2>1. ASSUME NEW i \in 1 .. retries
        PROVE  f[i] = IF i = 1 THEN RetryBase
                      ELSE IF 2 * f[i - 1] >= RetryMax THEN RetryMax ELSE 2 * f[i - 1]
    <3>1. CASE i = 1
      BY <1>4, <3>1 DEF IsRun
    <3>2. CASE i # 1
      <4>1. /\ i - 1 \in 1 .. last /\ i - 1 \in 1 .. retries /\ (i - 1) - 1 \in 0 .. last
        BY <1>1, <3>2
      <4>2. g[i - 1] = step[<<g[(i - 1) - 1], i - 1>>]
        BY <1>4, <4>1 DEF IsRun
      <4>3. g[(i - 1) - 1] \in D
        BY <1>4, <4>1
      <4> QED  BY <1>3, <3>2, <4>1, <4>2, <4>3
    <3> QED  BY <3>1, <3>2
  <2> HIDE DEF f
  <2>2. f = [i \in 1 .. retries |-> f[i]]
    BY DEF f
  <2> QED  BY <2>1, <2>2 DEF DelaysOf
<1> DEFINE delay == CHOOSE h : DelaysOf(h, retries)
<1>6. DelaysOf(delay, retries)
  <2> HIDE DEF f
  <2> QED  BY <1>5
<1>7. RetryDelay(retries) = delay[retries]
  BY DEF RetryDelay, DelaysOf
<1> HIDE DEF delay, f
<1>8. \A i \in 1 .. retries : delay[i] = IF i = 1 THEN RetryBase
                      ELSE IF 2 * delay[i - 1] >= RetryMax THEN RetryMax ELSE 2 * delay[i - 1]
  BY <1>6 DEF DelaysOf
<1> DEFINE I == {m \in 0 .. last : delay[m + 1] \in D}
<1>9. 0 \in I
  BY <1>1, <1>2, <1>8
<1>10. ASSUME NEW m \in 0 .. last - 1, m \in I PROVE m + 1 \in I
  <2>1. /\ (m + 1) + 1 \in 1 .. retries /\ (m + 1) + 1 # 1 /\ ((m + 1) + 1) - 1 = m + 1
        /\ m + 1 \in 0 .. last
    BY <1>1
  <2>2. delay[(m + 1) + 1] = IF 2 * delay[m + 1] >= RetryMax THEN RetryMax ELSE 2 * delay[m + 1]
    BY <1>8, <2>1
  <2>3. delay[m + 1] \in D
    BY <1>10
  <2>4. delay[(m + 1) + 1] \in D
    BY <2>2, <2>3 DEF D
  <2> QED  BY <2>1, <2>4
<1>11. \A m \in 0 .. last : m \in I
  <2>1. \A m \in 0 .. last - 1 : m \in I => m + 1 \in I
    BY <1>10
  <2> HIDE DEF I
  <2> QED  BY <1>1, <1>9, <2>1, HoldsUpTo
<1>12. last \in I
  <2> HIDE DEF I
  <2> QED  BY <1>1, <1>11
<1> QED  BY <1>1, <1>7, <1>12 DEF D

--------------------------------------------------------------------------------

LEMMA UpdateRangesKeep ==
  ASSUME CacheTypes, CommittedOnce, UpdateRanges, [CacheNext]_cacheVars
  PROVE  UpdateRanges'
<1> USE CacheConstants
<1>1. CASE UNCHANGED <<committed, updateVars>>
  BY <1>1 DEF UpdateRanges, CacheVersion, updateVars
<1>2. UNCHANGED cacheVars => UNCHANGED <<committed, updateVars>>
  BY DEF cacheVars, updateVars
<1>3. ASSUME NEW q \in CacheReaders, GetProduct(q)
      PROVE  UNCHANGED <<committed, updateVars>>
  BY <1>3 DEF GetProduct, CacheGet, CacheDrop, LoadProduct, CacheSet
<1>4. ASSUME NEW w \in CacheWorkers, CacheWorker(w)
      PROVE  UNCHANGED <<committed, updateVars>>
  BY <1>4 DEF CacheWorker, ClaimDue, DeleteKey, MarkDone, MarkFailure, MarkTask, EndBatch
<1>5. ASSUME NEW t \in Tasks, LeaseEnds(t)
      PROVE  UNCHANGED <<committed, updateVars>>
  BY <1>5 DEF LeaseEnds
<1>6. ASSUME NEW k \in CacheKeys, EntryExpires(k)
      PROVE  UNCHANGED <<committed, updateVars>>
  BY <1>6 DEF EntryExpires
<1>7. CASE CacheTick
  BY <1>7 DEF CacheTick, Later, UpdateRanges, CacheVersion
<1>8. ASSUME NEW u \in Updates, Update(u)
      PROVE  UpdateRanges'
  <2>1. CASE BeginUpdate(u)
    BY <2>1 DEF BeginUpdate, UpdateRanges, CacheVersion
  <2>2. CASE CommitUpdate(u)
    <3>1. /\ committed' = Append(committed, u) /\ updating[u] = "tx"
          /\ committed \in Seq(Updates)
      BY <2>2 DEF CommitUpdate, CacheTypes
    <3>2. /\ CacheVersion \in Nat /\ CacheVersion' = CacheVersion + 1
          /\ committed'[CacheVersion + 1] = u
          /\ \A i \in 1 .. CacheVersion : committed'[i] = committed[i]
      BY <3>1 DEF CacheVersion
    <3>3. \A i \in 1 .. CacheVersion : committed[i] # u
      BY <3>1 DEF CommittedOnce
    <3>4. \A i \in 1 .. CacheVersion' : i = CacheVersion + 1 \/ i \in 1 .. CacheVersion
      BY <3>2
    <3>5. \A i, j \in 1 .. CacheVersion' : committed'[i] = committed'[j] => i = j
      BY <3>2, <3>3, <3>4 DEF UpdateRanges
    <3>6. KeysOf[u] \in SUBSET CacheKeys
      OBVIOUS
    <3>7. /\ updating' \in [Updates -> {"idle", "tx", "delete", "done"}]
          /\ toDelete' \in [Updates -> SUBSET CacheKeys]
      BY <2>2, <3>6 DEF CommitUpdate, UpdateRanges
    <3>8. updateAge' = updateAge /\ slowUpdates' \subseteq Updates
      BY <2>2 DEF CommitUpdate, UpdateRanges
    <3> QED  BY <3>5, <3>7, <3>8 DEF UpdateRanges
  <2>3. CASE UpdateFails(u)
    BY <2>3 DEF UpdateFails, UpdateRanges, CacheVersion
  <2>4. ASSUME NEW k \in CacheKeys, FirstDelete(u, k)
        PROVE  UpdateRanges'
    BY <2>4 DEF FirstDelete, UpdateRanges, CacheVersion
  <2> QED  BY <1>8, <2>1, <2>2, <2>3, <2>4 DEF Update
<1> QED  BY <1>1, <1>2, <1>3, <1>4, <1>5, <1>6, <1>7, <1>8 DEF CacheNext

\* What a reader loads is a version that there is, and it remains one.
LEMMA EntryRangesKeep ==
  ASSUME CacheTypes, EntryRanges, [CacheNext]_cacheVars
  PROVE  EntryRanges'
<1> USE CacheConstants
<1>0. CacheVersion \in Nat
  BY DEF CacheTypes, CacheVersion
<1>1. CASE UNCHANGED <<committed, cached, readerVars>>
  BY <1>1 DEF EntryRanges, CacheVersion, cached, readerVars
<1>2. UNCHANGED cacheVars => UNCHANGED <<committed, cached, readerVars>>
  BY DEF cacheVars, cached, readerVars
<1>3. ASSUME NEW k, Clear(k) \/ UNCHANGED cached, UNCHANGED <<committed, readerVars>>
      PROVE  EntryRanges'
  BY <1>0, <1>3 DEF Clear, EntryRanges, CacheVersion, NoEntry, cached, readerVars
<1>4. ASSUME NEW q \in CacheReaders, GetProduct(q)
      PROVE  EntryRanges'
  <2>1. CASE CacheGet(q)
    BY <2>1 DEF CacheGet, Read, EntryRanges, CacheVersion, cached
  <2>2. CASE CacheDrop(q)
    BY <1>0, <2>2 DEF CacheDrop, Read, Clear, EntryRanges, CacheVersion, NoEntry, cached
  <2>3. CASE LoadProduct(q)
    <3>1. CacheVersion' = CacheVersion /\ CacheVersion \in 0 .. CacheVersion
      BY <1>0, <2>3 DEF LoadProduct, CacheVersion
    <3>2. reading' \in [CacheReaders -> {"idle", "drop", "load", "set"}]
      BY <2>3 DEF LoadProduct, Read, EntryRanges
    <3>3. loaded' \in [CacheReaders -> 0 .. CacheVersion] /\ readAge' \in [CacheReaders -> 0 .. ReadTime + 1]
      BY <2>3, <3>1 DEF LoadProduct, EntryRanges
    <3> QED  BY <2>3, <3>1, <3>2, <3>3 DEF LoadProduct, EntryRanges, cached
  <2>4. CASE CacheSet(q)
    <3>1. loaded[q] \in (0 .. CacheVersion) \cup {NoEntry, Unreadable}
      BY DEF EntryRanges
    <3>2. CacheVersion' = CacheVersion
      BY <2>4 DEF CacheSet, CacheVersion
    <3>3. entry' \in [CacheKeys -> (0 .. CacheVersion) \cup {NoEntry, Unreadable}]
      BY <2>4, <3>1 DEF CacheSet, EntryRanges, cached
    <3>4. slowEntry' \subseteq CacheKeys
      BY <2>4 DEF CacheSet, EntryRanges, cached
    <3>5. reading' \in [CacheReaders -> {"idle", "drop", "load", "set"}]
      BY <2>4 DEF CacheSet, Read, EntryRanges
    <3> QED  BY <2>4, <3>2, <3>3, <3>4, <3>5 DEF CacheSet, EntryRanges
  <2> QED  BY <1>4, <2>1, <2>2, <2>3, <2>4 DEF GetProduct
<1>5. ASSUME NEW u \in Updates, Update(u)
      PROVE  EntryRanges'
  <2>1. CASE BeginUpdate(u)
    BY <1>1, <2>1 DEF BeginUpdate
  <2>2. CASE CommitUpdate(u)
    <3>1. CacheVersion' = CacheVersion + 1
      BY <2>2 DEF CommitUpdate, CacheTypes, CacheVersion
    <3>2. 0 .. CacheVersion \subseteq 0 .. CacheVersion'
      BY <1>0, <3>1
    <3> QED  BY <2>2, <3>2 DEF CommitUpdate, EntryRanges, cached, readerVars
  <2>3. CASE UpdateFails(u)
    BY <1>1, <2>3 DEF UpdateFails
  <2>4. ASSUME NEW k \in CacheKeys, FirstDelete(u, k)
        PROVE  EntryRanges'
    BY <1>3, <2>4 DEF FirstDelete
  <2> QED  BY <1>5, <2>1, <2>2, <2>3, <2>4 DEF Update
<1>6. ASSUME NEW w \in CacheWorkers, CacheWorker(w)
      PROVE  EntryRanges'
  <2>1. CASE DeleteKey(w)
    BY <1>3, <2>1 DEF DeleteKey
  <2> QED  BY <1>1, <1>6, <2>1 DEF CacheWorker, ClaimDue, MarkDone, MarkFailure, MarkTask, EndBatch
<1>7. ASSUME NEW t \in Tasks, LeaseEnds(t)
      PROVE  EntryRanges'
  BY <1>1, <1>7 DEF LeaseEnds
<1>8. ASSUME NEW k \in CacheKeys, EntryExpires(k)
      PROVE  EntryRanges'
  BY <1>3, <1>8 DEF EntryExpires
<1>9. CASE CacheTick
  BY <1>9 DEF CacheTick, Later, EntryRanges, CacheVersion, cached
<1> QED  BY <1>1, <1>2, <1>4, <1>5, <1>6, <1>7, <1>8, <1>9 DEF CacheNext

\* A task is claimed, or a try of it ends; the first is counted when it fails.
LEMMA TaskRangesWork ==
  ASSUME TaskRanges, NEW w \in CacheWorkers, CacheWorker(w)
  PROVE  TaskRanges'
<1> USE CacheConstants
<1>1. CASE ClaimDue(w)
  <2>1. PICK b \in SUBSET {t \in Tasks : DueTask(t)} :
          /\ inBatch' = [inBatch EXCEPT ![w] = b]
          /\ task' = [t \in Tasks |->
                IF t \in b THEN [task[t] EXCEPT !.status = "RUNNING", !.holder = w] ELSE task[t]]
          /\ leased' = leased \cup b
    BY <1>1 DEF ClaimDue
  <2>2. ASSUME NEW t \in Tasks
        PROVE  /\ task'[t] \in TaskRecord
               /\ task'[t].status \in {"PENDING", "RUNNING"} => task'[t].retries < TaskRetries
    <3>1. task[t] \in TaskRecord
      BY DEF TaskRanges
    <3>2. CASE t \in b
      <4>1. task[t].status \in {"PENDING", "RUNNING"}
        BY <3>2 DEF DueTask
      <4>2. task'[t] = [task[t] EXCEPT !.status = "RUNNING", !.holder = w]
        BY <2>1, <3>2
      <4>3. task'[t] \in TaskRecord /\ task'[t].retries = task[t].retries
        BY <3>1, <4>2 DEF TaskRecord
      <4> QED  BY <4>1, <4>3 DEF TaskRanges
    <3>3. CASE t \notin b
      BY <2>1, <3>1, <3>3 DEF TaskRanges
    <3> QED  BY <3>2, <3>3
  <2>3. task' \in [Tasks -> TaskRecord]
    BY <2>1, <2>2
  <2>4. leased' \subseteq Tasks /\ inBatch' \in [CacheWorkers -> SUBSET Tasks]
    BY <2>1 DEF TaskRanges
  <2>5. due' = due /\ working' \in [CacheWorkers -> {"idle", "delete", "done", "failed"}]
    BY <1>1 DEF ClaimDue, TaskRanges
  <2> QED  BY <2>2, <2>3, <2>4, <2>5 DEF TaskRanges
<1>2. CASE DeleteKey(w)
  BY <1>2 DEF DeleteKey, TaskRanges, taskVars
<1>3. ASSUME NEW t, NEW status \in {"PENDING", "DONE", "DEAD"}, NEW retries,
             MarkTask(w, t, status, retries),
             t \in Tasks => retries \in 0 .. TaskRetries,
             t \in Tasks /\ status = "PENDING" => retries < TaskRetries,
             due' \in [Tasks -> 0 .. MaxDue]
      PROVE  TaskRanges'
  <2>1. task' = [task EXCEPT ![t] = [status |-> status, holder |-> None, retries |-> retries]]
    BY <1>3 DEF MarkTask
  <2>2. t \in Tasks => [status |-> status, holder |-> None, retries |-> retries] \in TaskRecord
    BY <1>3 DEF TaskRecord
  <2>3. task' \in [Tasks -> TaskRecord]
    BY <2>1, <2>2 DEF TaskRanges
  <2>4. ASSUME NEW s \in Tasks, task'[s].status \in {"PENDING", "RUNNING"}
        PROVE  task'[s].retries < TaskRetries
    <3>1. CASE s = t
      <4>1. task'[s] = [status |-> status, holder |-> None, retries |-> retries]
        BY <2>1, <3>1 DEF TaskRanges
      <4> QED  BY <1>3, <2>4, <3>1, <4>1
    <3>2. CASE s # t
      BY <2>1, <2>4, <3>2 DEF TaskRanges
    <3> QED  BY <3>1, <3>2
  <2>5. leased' \subseteq Tasks
    BY <1>3 DEF MarkTask, TaskRanges
  <2>6. /\ inBatch' \in [CacheWorkers -> SUBSET Tasks]
        /\ working' \in [CacheWorkers -> {"idle", "delete", "done", "failed"}]
    BY <1>3 DEF MarkTask, NextOrIdle, TaskRanges
  <2> QED  BY <1>3, <2>3, <2>4, <2>5, <2>6 DEF TaskRanges
<1>4. CASE MarkDone(w)
  <2> DEFINE t == NextTask(w)
  <2>1. MarkTask(w, t, "DONE", task[t].retries) /\ due' = due
    BY <1>4 DEF MarkDone
  <2> HIDE DEF t
  <2>2. t \in Tasks => task[t].retries \in 0 .. TaskRetries
    BY DEF TaskRanges, TaskRecord
  <2>3. due' \in [Tasks -> 0 .. MaxDue]
    BY <2>1 DEF TaskRanges
  <2> QED  BY <1>3, <2>1, <2>2, <2>3
<1>5. CASE MarkFailure(w)
  <2> DEFINE t == NextTask(w)
             retries == task[t].retries + 1
  <2>1. \/ /\ retries < TaskRetries
           /\ MarkTask(w, t, "PENDING", retries)
           /\ due' = [due EXCEPT ![t] = RetryDelay(retries)]
        \/ /\ retries >= TaskRetries
           /\ MarkTask(w, t, "DEAD", retries)
           /\ UNCHANGED due
    BY <1>5 DEF MarkFailure
  <2> HIDE DEF t
  <2>2. t \in Tasks => retries \in 1 .. TaskRetries
    <3>1. task[t].status = "RUNNING"
      BY <2>1 DEF MarkTask, OwnsTask
    <3>2. t \in Tasks => task[t] \in TaskRecord /\ task[t].retries < TaskRetries
      BY <3>1 DEF TaskRanges
    <3> QED  BY <3>2 DEF TaskRecord
  <2> HIDE DEF retries
  <2>3. ASSUME t \in Tasks PROVE RetryDelay(retries) \in 0 .. MaxDue
    <3>1. retries \in Nat \ {0}
      BY <2>2, <2>3
    <3>2. RetryDelay(retries) \in 1 .. RetryMax
      BY <3>1, RetryDelayBounded
    <3> QED  BY <3>2 DEF MaxDue
  <2>4. due' \in [Tasks -> 0 .. MaxDue]
    BY <2>1, <2>3 DEF TaskRanges
  <2>5. t \in Tasks => retries \in 0 .. TaskRetries
    BY <2>2
  <2> QED  BY <1>3, <2>1, <2>4, <2>5
<1>6. CASE EndBatch(w)
  BY <1>6 DEF EndBatch, TaskRanges, taskVars
<1> QED  BY <1>1, <1>2, <1>4, <1>5, <1>6 DEF CacheWorker

LEMMA TaskRangesKeep ==
  ASSUME UpdateRanges, TaskRanges, [CacheNext]_cacheVars
  PROVE  TaskRanges'
<1> USE CacheConstants
<1>1. CASE UNCHANGED <<taskVars, workerVars>>
  BY <1>1 DEF TaskRanges, taskVars, workerVars
<1>2. UNCHANGED cacheVars => UNCHANGED <<taskVars, workerVars>>
  BY DEF cacheVars, taskVars, workerVars
<1>3. ASSUME NEW q \in CacheReaders, GetProduct(q)
      PROVE  UNCHANGED <<taskVars, workerVars>>
  BY <1>3 DEF GetProduct, CacheGet, CacheDrop, LoadProduct, CacheSet
<1>4. ASSUME NEW u \in Updates, Update(u)
      PROVE  TaskRanges'
  <2>1. CASE CommitUpdate(u)
    <3>1. ExecuteAt(u) \in 0 .. MaxDue
      BY DEF ExecuteAt, MaxDue, UpdateRanges
    <3> DEFINE new == [NoTask EXCEPT !.status = "PENDING"]
    <3>2. new \in TaskRecord /\ new.retries < TaskRetries
      BY DEF NoTask, TaskRecord
    <3> HIDE DEF new
    <3>3. task' = [t \in Tasks |-> IF t \in TasksOf(u) THEN new ELSE task[t]]
      BY <2>1 DEF CommitUpdate, new
    <3>4. due' \in [Tasks -> 0 .. MaxDue]
      BY <2>1, <3>1 DEF CommitUpdate, TaskRanges
    <3>5. task' \in [Tasks -> TaskRecord]
      BY <3>2, <3>3 DEF TaskRanges
    <3>6. \A t \in Tasks : task'[t].status \in {"PENDING", "RUNNING"} => task'[t].retries < TaskRetries
      BY <3>2, <3>3 DEF TaskRanges
    <3> QED  BY <2>1, <3>4, <3>5, <3>6 DEF CommitUpdate, TaskRanges, workerVars
  <2> QED  BY <1>1, <1>4, <2>1 DEF Update, BeginUpdate, UpdateFails, FirstDelete
<1>5. ASSUME NEW t \in Tasks, LeaseEnds(t)
      PROVE  TaskRanges'
  BY <1>5 DEF LeaseEnds, TaskRanges, workerVars
<1>6. ASSUME NEW k \in CacheKeys, EntryExpires(k)
      PROVE  UNCHANGED <<taskVars, workerVars>>
  BY <1>6 DEF EntryExpires
<1>7. CASE CacheTick
  <2>1. \A left \in 0 .. MaxDue : Sooner(left) \in 0 .. MaxDue
    BY DEF Sooner, MaxDue
  <2>2. due' \in [Tasks -> 0 .. MaxDue]
    BY <1>7, <2>1 DEF CacheTick, TaskRanges
  <2> QED  BY <1>7, <2>2 DEF CacheTick, TaskRanges, workerVars
<1> QED  BY <1>1, <1>2, <1>3, <1>4, <1>5, <1>6, <1>7, TaskRangesWork DEF CacheNext

\* The updates of a product that are committed are not more than there are.
LEMMA CommittedAreFew ==
  ASSUME CacheTypes, UpdateRanges
  PROVE  Len(committed) <= Cardinality(Updates)
<1> DEFINE howMany == Len(committed)
<1>1. howMany \in Nat /\ committed \in [1 .. howMany -> Updates]
  BY DEF CacheTypes
<1>2. \A i, j \in 1 .. howMany : committed[i] = committed[j] => i = j
  BY DEF UpdateRanges, CacheVersion
<1> HIDE DEF howMany
<1>3. committed \in Injection(1 .. howMany, Updates)
  BY <1>1, <1>2 DEF Injection, IsInjective
<1>4. Cardinality(1 .. howMany) <= Cardinality(Updates)
  BY <1>3, CacheConstants, FS_Injection
<1>5. Cardinality(1 .. howMany) = howMany
  BY <1>1, FS_Interval
<1> QED  BY <1>4, <1>5 DEF howMany

\* A task's tries and delays keep to their bounds, and a cached detail is that of a version
\* there is.
THEOREM CacheTyping == CacheSpec => []CacheTypeOK
<1>1. CacheInit => CacheInv /\ CacheRanges
  BY CacheInvInit, CacheRangesInit
<1>2. CacheInv /\ CacheRanges /\ [CacheNext]_cacheVars => (CacheInv /\ CacheRanges)'
  BY CacheInvStep, UpdateRangesKeep, EntryRangesKeep, TaskRangesKeep DEF CacheInv, CacheRanges
<1>3. CacheInv /\ CacheRanges => CacheTypeOK
  BY CommittedAreFew
  DEF CacheInv, CacheTypes, CacheRanges, UpdateRanges, EntryRanges, TaskRanges, TaskRecord, CacheTypeOK
<1> QED  BY <1>1, <1>2, <1>3, PTL DEF CacheSpec

--------------------------------------------------------------------------------
(* Users                                                                     *)

AccountTypes ==
  /\ profile \in [Owners -> 0 .. MaxProfile]
  /\ ranged \in [Owners -> AddressCalls \cup {None}]
  /\ nextId \in 1 .. MaxAddressId + 1
  /\ asked \in [AddressCalls -> AddressRequests \cup {None}]
  /\ demoted \subseteq Owners

\* A statement that changes neither a request nor an id.
Plain == UNCHANGED <<profile, nextId, asked, demoted>>

LEMMA RangesKeep ==
  ASSUME AccountTypes, Plain,
         ranged' \in [Owners -> AddressCalls \cup {None}]
  PROVE  AccountTypes'
BY DEF AccountTypes, Plain

LEMMA AccountTypesEnd ==
  ASSUME AccountTypes, NEW c \in AddressCalls, Unlocked(c), Ended(c),
         UNCHANGED <<profile, nextId>>, demoted' \subseteq Owners
  PROVE  AccountTypes'
BY DEF AccountTypes, Unlocked, Ended

LEMMA AccountTypesKeep ==
  ASSUME UsersInv, UsersInv', AccountTypes, [UsersNext]_userVars
  PROVE  AccountTypes'
<1> USE UsersConstants
<1>1. CASE UNCHANGED userVars
  BY <1>1 DEF AccountTypes, userVars, addressRows, addressCalls
<1>2. ASSUME NEW u \in Owners, CreateUserWithProfile(u) \/ UpdateProfile(u)
      PROVE  AccountTypes'
  <2>1. profile' \in [Owners -> 0 .. MaxProfile]
    BY <1>2 DEF AccountTypes, CreateUserWithProfile, UpdateProfile
  <2>2. UNCHANGED <<ranged, nextId, asked, demoted>>
    BY <1>2 DEF CreateUserWithProfile, UpdateProfile, addressRows, addressCalls
  <2> QED  BY <2>1, <2>2 DEF AccountTypes
<1>3. ASSUME NEW c \in AddressCalls, AddressStep(c)
      PROVE  AccountTypes'
  <2>1. ASSUME NEW r \in AddressRequests, BeginAddressCall(c, r)
        PROVE  AccountTypes'
    BY <2>1 DEF BeginAddressCall, AccountTypes, addressRows
  <2>2. asking[c] # "idle" => User(c) \in Owners
    BY DEF UsersInv, UserTypes, User, AddressRequests
  <2>3. CASE InsertAddress(c)
    <3>1. asking'[c] = "count" /\ DOMAIN asked' = AddressCalls
      BY <2>3 DEF InsertAddress, Proceed, UsersInv, UserTypes
    <3>2. asked'[c] \in AddressRequests
      BY <3>1 DEF UsersInv, UserTypes
    <3>3. asked' \in [AddressCalls -> AddressRequests \cup {None}]
      BY <2>3, <3>1, <3>2 DEF InsertAddress, AccountTypes
    <3>4. nextId' \in 1 .. MaxAddressId + 1
      BY <2>3 DEF InsertAddress, AddressIds
    <3> QED  BY <2>3, <3>3, <3>4 DEF InsertAddress, AccountTypes
  <2>4. CASE \/ CountAddresses(c) \/ SetDefault(c) \/ UpdateAddress(c)
             \/ ReadAddress(c) \/ DeleteOwnAddress(c)
    <3>1. Plain /\ UNCHANGED ranged
      BY <2>4
      DEF CountAddresses, SetDefault, UpdateAddress, ReadAddress, DeleteOwnAddress, addressRows, Plain
    <3> QED  BY <3>1, RangesKeep DEF AccountTypes
  <2>5. CASE ClearDefault(c) \/ ClearOthers(c) \/ PromoteLowest(c)
    <3>1. Plain /\ ranged' = [ranged EXCEPT ![User(c)] = c]
      BY <2>5 DEF ClearDefault, ClearOthers, PromoteLowest, WriteAll, Plain
    <3> QED  BY <3>1, RangesKeep DEF AccountTypes
  <2>6. CASE CommitAddresses(c)
    <3>1. demoted' \subseteq Owners
      BY <2>2, <2>6 DEF CommitAddresses, AccountTypes
    <3> QED  BY <2>6, <3>1, AccountTypesEnd DEF CommitAddresses
  <2>7. CASE RollBack(c)
    <3>1. demoted' \subseteq Owners
      BY <2>7 DEF RollBack, AccountTypes
    <3> QED  BY <2>7, <3>1, AccountTypesEnd DEF RollBack
  <2> QED  BY <1>3, <2>1, <2>3, <2>4, <2>5, <2>6, <2>7 DEF AddressStep
<1> QED  BY <1>1, <1>2, <1>3 DEF UsersNext

\* A call of address.go has a request and locks only what it may; no id is given out beyond
\* the last, no profile counted beyond its bound.
THEOREM UsersTyping == UsersSpec => []UsersTypeOK
<1>1. UsersInit => AccountTypes
  BY UsersConstants DEF UsersInit, AccountTypes
<1>2. UsersInv /\ UsersInv' /\ AccountTypes /\ [UsersNext]_userVars => AccountTypes'
  BY AccountTypesKeep
<1>3. UsersInv /\ AccountTypes => UsersTypeOK
  BY DEF UsersInv, UserTypes, AccountTypes, UsersTypeOK
<1> QED  BY <1>1, <1>2, <1>3, UsersInvariant, PTL DEF UsersSpec

--------------------------------------------------------------------------------
(* All of them                                                               *)

\* Every variable of every service module keeps to its type, whatever its handlers and workers
\* do and in whatever order: what a call or a task holds is there, counters keep to their
\* bounds, and no program counter leaves its statements.
THEOREM ServicesTyping == ServicesSpec => []ServicesTypeOK
<1>1. AgentInv => AgentTypeOK
  BY DEF AgentInv
<1>2. AnalyticsInv => AnalyticsTypeOK
  BY DEF AnalyticsInv
<1>3. GatewayInv => GatewayTypeOK
  BY DEF GatewayInv
<1>4. /\ AgentTypeOK /\ OrderingTypeOK /\ AnalyticsTypeOK /\ CacheTypeOK /\ UsersTypeOK
      /\ ChunkerTypeOK /\ RetrievalTypeOK /\ GatewayTypeOK /\ RecordsTypeOK
      /\ ContractsTypeOK /\ ProcessesTypeOK
      => ServicesTypeOK
  BY DEF ServicesTypeOK
<1> QED
  BY <1>1, <1>2, <1>3, <1>4, PartsBehave, AgentInvariant, AnalyticsInvariant, GatewayInvariant,
     OrderingTyping, CacheTyping, UsersTyping, ChunkerTyping, RetrievalTyping, RecordsTyping,
     ContractsTyping, ProcessesTyping, PTL

================================================================================
