------------------------------- MODULE Ordering -------------------------------
(***************************************************************************)
(* order-service: the cart of a user and the orders placed from it.        *)
(*                                                                         *)
(* CreateOrder is a chain of reads in three databases (the order of its    *)
(* request, the address, the cart, prices, promotions) that no transaction *)
(* holds together; only the insertion at its end is one.  Calls with one   *)
(* request_id, and all that changes a cart or the catalog, run between any *)
(* two of its reads.                                                       *)
(*                                                                         *)
(* Every query names the user of the token, so one user is enough.  A cart *)
(* row is named by its SKU, quantity 0 is no row; an order by the call that*)
(* made its order_no.  Money is in cents.  A commit whose answer is lost   *)
(* has taken effect or not; that it does so later is the same as a call    *)
(* that is slow, because nobody waits for its answer.                      *)
(*                                                                         *)
(* External: user-service (an address exists or not), product-service (the *)
(* two queries of GetCheckoutSKUs).  Left out: titles, specs, snapshots of *)
(* promotions that were not applied, JSON documents, payment (PaymentSaga).*)
(***************************************************************************)
EXTENDS Integers, Sequences, FiniteSets, Functions, SharedNames

CONSTANTS
  OrderCalls,      \* calls of CreateOrder
  RequestOf,       \* ... their request_id
  AddressOf,       \* ... and address_id
  AddCalls,        \* calls of AddCartItem
  SkuOf,           \* ... their sku_id
  QuantityOf,      \* ... and quantity
  MaxQuantity,     \* math.MaxUint32
  MaxMoney,        \* decimal12_2MaxCents
  Offers,          \* what a SKU may cost: [price, saleable]
  Promotions,      \* what may be promoted: sequences of [id, threshold, discount]
  MaxChanges       \* bounds what the surroundings change: cart edits, catalog, addresses

OrderErrors == {"InvalidArgument", "NotFound", "DependencyTimeout", "Internal"}

NotMoney == -1     \* a NULL or unreadable amount
NoThreshold == -2  \* threshold_amount is NULL

Promotion == [id : Nat \ {0}, threshold : Nat \cup {NotMoney, NoThreshold},
              discount : Nat \cup {NotMoney}]

ASSUME OrderingConstants ==
  /\ SkuOf \in [AddCalls -> SKUs]
  /\ QuantityOf \in [AddCalls -> Nat \ {0}]
  /\ MaxQuantity \in Nat \ {0}
  /\ \A a \in AddCalls : QuantityOf[a] <= MaxQuantity
  /\ MaxMoney \in Nat
  /\ Offers \subseteq [price : 0 .. MaxMoney, saleable : BOOLEAN]
  /\ \E offer \in Offers : offer.saleable
  /\ Promotions \subseteq Seq(Promotion)
  /\ Promotions # {}
  /\ None \notin Promotion
  /\ MaxChanges \in Nat
  /\ OrderCalls \cap (OrderErrors \cup {None}) = {}
  /\ None \notin AddCalls

\* The catalog is a table: Total adds over all of it.
ASSUME CatalogIsFinite == IsFiniteSet(SKUs)

VARIABLES
  cart,        \* cart_items: quantity and selected, by SKU
  cartLock,    \* the AddCartItem whose transaction holds the cart row
  addPc,       \* where a call of AddCartItem is
  addRead,     \* the quantity it has read
  counted,     \* what the cart should hold: the sum of the committed changes
  addresses,   \* user-service: the addresses of the user
  offers,      \* product-service: None for a SKU that is not ACTIVE
  promotions,  \* ... and the ACTIVE promotions of its product
  changes,
  orders,      \* orders with their order_items, by the call that inserted them
  orderPc,     \* where a call of CreateOrder is
  lines,       \* the selected rows it has read
  quote,       \* the offers it has read
  draft,       \* the order it is about to insert
  orderAnswer  \* the order it returned, or an error

cartVars == <<cart, cartLock, addPc, addRead, counted>>
world == <<addresses, offers, promotions, changes>>
locals == <<lines, quote, draft>>
callVars == <<orderPc, locals, orderAnswer>>
orderingVars == <<cartVars, world, orders, callVars>>

OrderSteps == {"idle", "find", "address", "cart", "skus", "promotions", "refind", "insert",
               "reread", "done"}

NoLines == [k \in SKUs |-> 0]
NoQuote == [k \in SKUs |-> None]

Line == [quantity : Nat, unit : Nat, promotion : Nat, discount : Nat, amount : Nat]
NoLine == [quantity |-> 0, unit |-> 0, promotion |-> 0, discount |-> 0, amount |-> 0]
Order == [request : {RequestOf[c] : c \in OrderCalls}, address : {AddressOf[c] : c \in OrderCalls},
          items : [SKUs -> Line], total : Nat]

OrderingTypeOK ==
  /\ cart \in [SKUs -> [quantity : 0 .. MaxQuantity, selected : BOOLEAN]]
  /\ cartLock \in AddCalls \cup {None}
  /\ addPc \in [AddCalls -> {"idle", "locked", "read", "done"}]
  /\ addRead \in [AddCalls -> 0 .. MaxQuantity]
  /\ counted \in [SKUs -> 0 .. MaxQuantity]
  /\ addresses \subseteq {AddressOf[c] : c \in OrderCalls}
  /\ offers \in [SKUs -> Offers \cup {None}]
  /\ promotions \in [SKUs -> Promotions]
  /\ changes \in 0 .. MaxChanges
  /\ DOMAIN orders \subseteq OrderCalls
  /\ \A c \in DOMAIN orders : orders[c] \in Order
  /\ \A c \in OrderCalls :
       /\ orderPc[c] \in OrderSteps
       /\ lines[c] \in [SKUs -> 0 .. MaxQuantity]
       /\ quote[c] \in [SKUs -> Offers \cup {None}]
       /\ draft[c] \in Order \cup {None}
       /\ orderAnswer[c] \in OrderCalls \cup OrderErrors \cup {None}

OrderingInit ==
  /\ cart = [k \in SKUs |-> [quantity |-> 0, selected |-> FALSE]]
  /\ cartLock = None
  /\ addPc = [a \in AddCalls |-> "idle"]
  /\ addRead = [a \in AddCalls |-> 0]
  /\ counted = [k \in SKUs |-> 0]
  /\ addresses = {AddressOf[c] : c \in OrderCalls}
  /\ offers = [k \in SKUs |-> CHOOSE o \in Offers : o.saleable]
  /\ promotions = [k \in SKUs |-> CHOOSE p \in Promotions : TRUE]
  /\ changes = 0
  /\ orders = [c \in {} |-> None]
  /\ orderPc = [c \in OrderCalls |-> "idle"]
  /\ lines = [c \in OrderCalls |-> NoLines]
  /\ quote = [c \in OrderCalls |-> NoQuote]
  /\ draft = [c \in OrderCalls |-> None]
  /\ orderAnswer = [c \in OrderCalls |-> None]

--------------------------------------------------------------------------------
(* The cart.                                                                  *)

\* Variants named ...Bug carry a slip such code invites; they show which property
\* notices it.  The cart row is upserted but not locked.
LockCartBug(a) ==
  /\ addPc[a] = "idle"
  /\ addPc' = [addPc EXCEPT ![a] = "locked"]
  /\ UNCHANGED <<cart, cartLock, addRead, counted, world, orders, callVars>>

\* insertCart: the upsert locks the cart row until the transaction ends.
LockCart(a) ==
  /\ addPc[a] = "idle"
  /\ cartLock = None
  /\ cartLock' = a
  /\ addPc' = [addPc EXCEPT ![a] = "locked"]
  /\ UNCHANGED <<cart, addRead, counted, world, orders, callVars>>

\* queryCartItemForUpdate
ReadCartItem(a) ==
  /\ addPc[a] = "locked"
  /\ addRead' = [addRead EXCEPT ![a] = cart[SkuOf[a]].quantity]
  /\ addPc' = [addPc EXCEPT ![a] = "read"]
  /\ UNCHANGED <<cart, cartLock, counted, world, orders, callVars>>

\* The transaction ends: the sum is refused, the row is written, or all is rolled back.
WriteCartItem(a) ==
  LET sum == addRead[a] + QuantityOf[a] IN
  /\ addPc[a] = "read"
  /\ \/ /\ sum <= MaxQuantity
        /\ \E s \in BOOLEAN : cart' = [cart EXCEPT ![SkuOf[a]] = [quantity |-> sum, selected |-> s]]
        /\ counted' = [counted EXCEPT ![SkuOf[a]] = @ + QuantityOf[a]]
     \/ UNCHANGED <<cart, counted>>
  /\ cartLock' = IF cartLock = a THEN None ELSE cartLock
  /\ addPc' = [addPc EXCEPT ![a] = "done"]
  /\ addRead' = [addRead EXCEPT ![a] = 0]
  /\ UNCHANGED <<world, orders, callVars>>

\* An item that a transaction has read FOR UPDATE is locked.
ItemLocked(k) == \E a \in AddCalls : addPc[a] = "read" /\ cartLock = a /\ SkuOf[a] = k

\* UpdateCartItem: one statement; a row that is not there, or that it leaves as it is,
\* is NotFound.
UpdateCartItem(k, q, s) ==
  /\ changes < MaxChanges
  /\ ~ItemLocked(k)
  /\ cart[k].quantity > 0
  /\ cart' = [cart EXCEPT ![k] = [quantity |-> q, selected |-> s]]
  /\ counted' = [counted EXCEPT ![k] = q]
  /\ changes' = changes + 1
  /\ UNCHANGED <<cartLock, addPc, addRead, addresses, offers, promotions, orders, callVars>>

DeleteCartItem(k) ==
  /\ changes < MaxChanges
  /\ ~ItemLocked(k)
  /\ cart[k].quantity > 0
  /\ cart' = [cart EXCEPT ![k] = [quantity |-> 0, selected |-> FALSE]]
  /\ counted' = [counted EXCEPT ![k] = 0]
  /\ changes' = changes + 1
  /\ UNCHANGED <<cartLock, addPc, addRead, addresses, offers, promotions, orders, callVars>>

--------------------------------------------------------------------------------
(* The surroundings of an order.                                              *)

DeleteAddress(a) ==
  /\ changes < MaxChanges
  /\ addresses' = addresses \ {a}
  /\ changes' = changes + 1
  /\ UNCHANGED <<cartVars, offers, promotions, orders, callVars>>

ChangeOffer(k) ==
  /\ changes < MaxChanges
  /\ \E o \in (Offers \cup {None}) \ {offers[k]} : offers' = [offers EXCEPT ![k] = o]
  /\ changes' = changes + 1
  /\ UNCHANGED <<cartVars, addresses, promotions, orders, callVars>>

\* A promotion starts, ends or is edited.
ChangePromotions(k) ==
  /\ changes < MaxChanges
  /\ \E p \in Promotions \ {promotions[k]} : promotions' = [promotions EXCEPT ![k] = p]
  /\ changes' = changes + 1
  /\ UNCHANGED <<cartVars, addresses, offers, orders, callVars>>

--------------------------------------------------------------------------------
(* Prices.                                                                    *)

\* The loop of orderItem: does a promotion take the place of the one applied so far?
Replaces(p, applied, subtotal) ==
  /\ p.threshold <= subtotal
  /\ p.discount > 0
  /\ \/ applied = None
     \/ p.discount > applied.discount
     \/ p.discount = applied.discount /\ p.id < applied.id

\* The last promotion that applies is taken, not the best.
AppliedBug(candidates, subtotal) ==
  LET best[i \in 0 .. Len(candidates)] ==
        IF i = 0 THEN None
        ELSE IF Replaces(candidates[i], None, subtotal) THEN candidates[i] ELSE best[i - 1]
  IN best[Len(candidates)]

Applied(candidates, subtotal) ==
  LET best[i \in 0 .. Len(candidates)] ==
        IF i = 0 THEN None
        ELSE IF Replaces(candidates[i], best[i - 1], subtotal) THEN candidates[i] ELSE best[i - 1]
  IN best[Len(candidates)]

\* An amount that does not parse refuses the item, whether or not it would apply.
PromotionsParse(candidates) ==
  \A i \in DOMAIN candidates :
    candidates[i].discount # NotMoney /\ candidates[i].threshold # NotMoney

\* The discount of a promotion is taken off every unit.
OrderItem(offer, candidates, quantity) ==
  LET applied == Applied(candidates, offer.price * quantity)
      discount == IF applied = None THEN 0 ELSE applied.discount * quantity
  IN [quantity |-> quantity, unit |-> offer.price,
      promotion |-> IF applied = None THEN 0 ELSE applied.id,
      discount |-> discount, amount |-> offer.price * quantity - discount]

\* moneyString
IsMoney(cents) == 0 <= cents /\ cents <= MaxMoney

ItemPriced(item) == IsMoney(item.amount) /\ IsMoney(item.discount)

Total(items) == SumFunctionOnSet([k \in SKUs |-> items[k].amount], SKUs)

--------------------------------------------------------------------------------
(* CreateOrder.                                                               *)

OrderStep(c, from, to) == orderPc[c] = from /\ orderPc' = [orderPc EXCEPT ![c] = to]

\* The call goes on with what it has read ...
Advance(c, from, to) == OrderStep(c, from, to) /\ UNCHANGED orderAnswer

\* ... or returns, and its local variables go with it.
AnswerOrder(c, from, a) ==
  /\ OrderStep(c, from, "done")
  /\ orderAnswer' = [orderAnswer EXCEPT ![c] = a]
  /\ lines' = [lines EXCEPT ![c] = NoLines]
  /\ quote' = [quote EXCEPT ![c] = NoQuote]
  /\ draft' = [draft EXCEPT ![c] = None]

\* repositoryError, resourceError and dependencyError
RepositoryFails(c, from) == \E e \in {"DependencyTimeout", "Internal"} : AnswerOrder(c, from, e)

StartOrder(c) ==
  /\ Advance(c, "idle", "find")
  /\ UNCHANGED <<cartVars, world, orders, locals>>

Requested(c) == {d \in DOMAIN orders : orders[d].request = RequestOf[c]}

\* FindOrderByRequest: an order of the same request is the answer, whatever the address
\* and the cart are now.
Find(c, from, to) ==
  \/ Requested(c) = {} /\ Advance(c, from, to) /\ UNCHANGED locals
  \/ \E d \in Requested(c) : AnswerOrder(c, from, d)
  \/ RepositoryFails(c, from)

FindOrderByRequest(c) ==
  /\ Find(c, "find", "address")
  /\ UNCHANGED <<cartVars, world, orders>>

GetAddress(c) ==
  /\ \/ AddressOf[c] \in addresses /\ Advance(c, "address", "cart") /\ UNCHANGED locals
     \/ AddressOf[c] \notin addresses /\ AnswerOrder(c, "address", "NotFound")
     \/ RepositoryFails(c, "address")
  /\ UNCHANGED <<cartVars, world, orders>>

Selected == [k \in SKUs |-> IF cart[k].selected THEN cart[k].quantity ELSE 0]

GetCart(c) ==
  /\ \/ /\ Selected # NoLines
        /\ Advance(c, "cart", "skus")
        /\ lines' = [lines EXCEPT ![c] = Selected]
        /\ UNCHANGED <<quote, draft>>
     \/ Selected = NoLines /\ AnswerOrder(c, "cart", "InvalidArgument")
     \/ RepositoryFails(c, "cart")
  /\ UNCHANGED <<cartVars, world, orders>>

Wanted(c) == {k \in SKUs : lines[c][k] > 0}

\* The first query of GetCheckoutSKUs.  A SKU that is not ACTIVE makes it NotFound,
\* which dependencyError turns into Internal.
CheckoutSKUs(c) ==
  /\ \/ /\ \A k \in Wanted(c) : offers[k] # None
        /\ Advance(c, "skus", "promotions")
        /\ quote' = [quote EXCEPT ![c] = [k \in SKUs |-> IF k \in Wanted(c) THEN offers[k] ELSE None]]
        /\ UNCHANGED <<lines, draft>>
     \/ (\E k \in Wanted(c) : offers[k] = None) /\ AnswerOrder(c, "skus", "Internal")
     \/ RepositoryFails(c, "skus")
  /\ UNCHANGED <<cartVars, world, orders>>

OrderItems(c) ==
  [k \in SKUs |-> IF k \in Wanted(c) THEN OrderItem(quote[c][k], promotions[k], lines[c][k])
                  ELSE NoLine]

Orderable(c) ==
  /\ \A k \in Wanted(c) :
       quote[c][k].saleable /\ PromotionsParse(promotions[k]) /\ ItemPriced(OrderItems(c)[k])
  /\ IsMoney(Total(OrderItems(c)))

\* The second query; then the order is put together.
CheckoutPromotions(c) ==
  /\ orderPc[c] = "promotions"
  /\ \/ /\ Orderable(c)
        /\ Advance(c, "promotions", "refind")
        /\ draft' = [draft EXCEPT ![c] = [request |-> RequestOf[c], address |-> AddressOf[c],
                                          items |-> OrderItems(c), total |-> Total(OrderItems(c))]]
        /\ UNCHANGED <<lines, quote>>
     \/ ~Orderable(c) /\ AnswerOrder(c, "promotions", "InvalidArgument")
     \/ RepositoryFails(c, "promotions")
  /\ UNCHANGED <<cartVars, world, orders>>

\* MySQLRepository.CreateOrder looks for the order again.
RefindOrder(c) ==
  /\ Find(c, "refind", "insert")
  /\ UNCHANGED <<cartVars, world, orders>>

Insert(c) == orders' = [d \in DOMAIN orders \cup {c} |-> IF d = c THEN draft[c] ELSE orders[d]]

\* An error of the transaction is overlooked: the call returns an order that is not there.
InsertOrderBug(c) ==
  /\ \/ /\ Requested(c) = {}
        /\ Insert(c)
     \/ UNCHANGED orders
  /\ AnswerOrder(c, "insert", c)
  /\ UNCHANGED <<cartVars, world>>

\* The transaction: the unique key (user_id, request_id) lets one order of a request in.
\* A commit that fails may have taken effect.
InsertOrder(c) ==
  /\ \/ /\ Requested(c) = {}
        /\ Insert(c)
        /\ AnswerOrder(c, "insert", c) \/ RepositoryFails(c, "insert")
     \/ /\ Requested(c) # {}
        /\ Advance(c, "insert", "reread")
        /\ UNCHANGED <<orders, locals>>
     \/ RepositoryFails(c, "insert") /\ UNCHANGED orders
  /\ UNCHANGED <<cartVars, world>>

\* A duplicate: the transaction is rolled back and the other order returned.
RereadOrder(c) ==
  /\ \/ \E d \in Requested(c) : AnswerOrder(c, "reread", d)
     \/ RepositoryFails(c, "reread")
  /\ UNCHANGED <<cartVars, world, orders>>

--------------------------------------------------------------------------------

AddCartItem(a) == LockCart(a) \/ ReadCartItem(a) \/ WriteCartItem(a)

CreateOrder(c) ==
  \/ StartOrder(c)
  \/ FindOrderByRequest(c)
  \/ GetAddress(c)
  \/ GetCart(c)
  \/ CheckoutSKUs(c)
  \/ CheckoutPromotions(c)
  \/ RefindOrder(c)
  \/ InsertOrder(c)
  \/ RereadOrder(c)

OrderingNext ==
  \/ \E a \in AddCalls : AddCartItem(a)
  \/ \E k \in SKUs :
       \/ \E q \in 1 .. MaxQuantity, s \in BOOLEAN : UpdateCartItem(k, q, s)
       \/ DeleteCartItem(k)
       \/ ChangeOffer(k)
       \/ ChangePromotions(k)
  \/ \E a \in addresses : DeleteAddress(a)
  \/ \E c \in OrderCalls : CreateOrder(c)

OrderingSpec == OrderingInit /\ [][OrderingNext]_orderingVars

--------------------------------------------------------------------------------
(* Properties                                                                *)

\* What was added to the cart is in it: two AddCartItem of one SKU do not overwrite each
\* other's quantity, and a change that comes between the read and the write of a third
\* waits for it.
NoAddIsLost == \A k \in SKUs : cart[k].quantity = counted[k]

\* One request makes one order, however often it is tried at the same time or again,
\* and every call that succeeds returns the order of its request.
OneOrderPerRequest ==
  \A c \in OrderCalls :
    /\ c \in DOMAIN orders => orders[c].request = RequestOf[c] /\ Requested(c) = {c}
    /\ orderAnswer[c] \in OrderCalls =>
         /\ orderAnswer[c] \in DOMAIN orders
         /\ orders[orderAnswer[c]].request = RequestOf[c]

\* The promotion of an order line is, of those that were read, one with the highest
\* discount among those whose threshold the line reaches, and the one with the lowest
\* id of these.
Eligible(candidates, subtotal) ==
  {i \in DOMAIN candidates : candidates[i].threshold <= subtotal /\ candidates[i].discount > 0}

BestFor(item, candidates) ==
  LET E == Eligible(candidates, item.unit * item.quantity) IN
  IF E = {} THEN item.promotion = 0 /\ item.discount = 0
  ELSE \E i \in E :
         /\ item.promotion = candidates[i].id
         /\ item.discount = candidates[i].discount * item.quantity
         /\ \A j \in E : \/ candidates[j].discount < candidates[i].discount
                         \/ /\ candidates[j].discount = candidates[i].discount
                            /\ candidates[i].id <= candidates[j].id

\* An order adds up, and each of its lines has the best promotion of some moment; no
\* line has a negative amount, whatever its discount.
AddsUp(order) ==
  /\ order.total = Total(order.items)
  /\ \E k \in SKUs : order.items[k].quantity > 0
  /\ \A k \in SKUs :
       LET item == order.items[k] IN
       /\ item.amount = item.unit * item.quantity - item.discount
       /\ item.amount >= 0
       /\ item.quantity > 0 => \E candidates \in Promotions : BestFor(item, candidates)

OrdersAddUp == \A c \in DOMAIN orders : AddsUp(orders[c])

================================================================================
