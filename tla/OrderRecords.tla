------------------------------ MODULE OrderRecords ------------------------------
(***************************************************************************)
(* What order-service stores of an order and reads again: the snapshot of  *)
(* an address of user-service and of promotions of product-service.        *)
(*                                                                         *)
(* Three programs check these values, each in its own way, and the reader  *)
(* again.  A row that the reader refuses fails ListOrders for good, and    *)
(* with it every order of its user.                                        *)
(*                                                                         *)
(* An order has one item.  How promotions are chosen and amounts add up is *)
(* Ordering; a text or an amount is here what the checks make of it.       *)
(* Whoever keeps the catalog may change it at any time, so that each query *)
(* finds any price and any rules the schema has room for.                  *)
(***************************************************************************)
EXTENDS Integers, Sequences, SharedNames

CONSTANT MaxOrders  \* bound on the orders of the user

ASSUME OrderRecordsAssumption == MaxOrders \in Nat

--------------------------------------------------------------------------------
(* Addresses: at most one field of what comes in is not a text that fits.     *)

AddressFields ==
  {"ReceiverName", "ReceiverPhone", "Province", "City", "District", "Detail"}

AddressInputs ==
  {[f \in AddressFields |-> IF f = odd THEN text ELSE "text"] :
     odd \in AddressFields, text \in {"text", "blank", "too long"}}

validateAddress(input) == \A f \in AddressFields : input[f] \notin {"blank", "too long"}

\* The columns are as long as user-service's.
validStoredAddress(stored) == \A f \in AddressFields : stored[f] # "blank"

--------------------------------------------------------------------------------
(* Promotions.  Both tables keep two decimals; NULL, "" on the wire, is None.  *)

parseMoney(amount) == amount \in {"money", "zero"}

PromotionRules ==
  [id : {1, 2}, type : {"type", ""},
   threshold : {"money", "negative", None}, discount : {"money", "zero", "negative"}]

RuleLists ==
  {<<>>} \cup {<<p>> : p \in PromotionRules}
         \cup {<<p, [id |-> 2, type |-> "type", threshold |-> None, discount |-> "money"]>> :
                 p \in {q \in PromotionRules : q.id = 1}}

validPromotion(p) ==
  /\ p.type # ""
  /\ p.threshold # None => parseMoney(p.threshold)
  /\ p.discount # None => parseMoney(p.discount)

\* Only the applied one is looked at.
marshalPromotionsBug(candidates) == TRUE

\* No promotions are written as an empty list, never as null.
marshalPromotions(candidates) == \A i \in DOMAIN candidates : validPromotion(candidates[i])

unmarshalPromotions(document) == \A i \in DOMAIN document : validPromotion(document[i])

appliedPromotionMatches(applied, candidates) ==
  applied # None => \E i \in DOMAIN candidates : candidates[i] = applied

\* orderItem applies one that takes something off, or none (Ordering says which).
Appliable(candidates) ==
  {None} \cup {candidates[i] : i \in {j \in DOMAIN candidates : candidates[j].discount = "money"}}

--------------------------------------------------------------------------------
(* Rows and what they are read as.                                            *)

scanOrder(row) == validStoredAddress(row.shipping)

loadOrderItems(row) ==
  /\ unmarshalPromotions(row.candidates)
  /\ row.applied # None => validPromotion(row.applied)
  /\ appliedPromotionMatches(row.applied, row.candidates)

ListOrders(rows) ==
  IF \A i \in DOMAIN rows : scanOrder(rows[i]) /\ loadOrderItems(rows[i])
    THEN [failed |-> FALSE, orders |-> rows] ELSE [failed |-> TRUE, orders |-> <<>>]

--------------------------------------------------------------------------------

VARIABLES
  savedAddress, \* the user's address, or None
  creation,     \* the call of CreateOrder, and what it has read
  orderRows,    \* orders and order_items
  created       \* ... and what CreateOrder returned for each

recordVars == <<savedAddress, creation, orderRows, created>>

NoCreation == [pc |-> "none", shipping |-> None, candidates |-> <<>>, applied |-> None]

RecordsTypeOK ==
  /\ savedAddress \in AddressInputs \cup {None}
  /\ creation.pc \in {"none", "products", "promotions", "item", "insert"}
  /\ creation.shipping \in AddressInputs \cup {None}
  /\ creation.candidates \in RuleLists
  /\ creation.applied \in PromotionRules \cup {None}
  /\ Len(orderRows) <= MaxOrders
  /\ DOMAIN created = DOMAIN orderRows

RecordsInit ==
  /\ savedAddress = None
  /\ creation = NoCreation
  /\ orderRows = <<>>
  /\ created = <<>>

--------------------------------------------------------------------------------
(* user-service                                                              *)

\* CreateMyAddress, UpdateMyAddress.
SaveAddress(input) ==
  /\ validateAddress(input)
  /\ savedAddress' = input
  /\ UNCHANGED <<creation, orderRows, created>>

DeleteMyAddress ==
  /\ savedAddress # None
  /\ savedAddress' = None
  /\ UNCHANGED <<creation, orderRows, created>>

--------------------------------------------------------------------------------
(* CreateOrder of order-service                                              *)

Reach(pc, call) ==
  /\ creation' = [call EXCEPT !.pc = pc]
  /\ UNCHANGED <<savedAddress, orderRows, created>>

\* A failing or refused step: nothing is stored.
GiveUpOrder ==
  /\ creation' = NoCreation
  /\ UNCHANGED <<savedAddress, orderRows, created>>

GetMyAddressSnapshot ==
  /\ creation.pc = "none"
  /\ Len(orderRows) < MaxOrders
  /\ savedAddress # None
  /\ Reach("products", [creation EXCEPT !.shipping = savedAddress])

\* One price that does not parse, or one SKU that is not on sale, fails the call.
GetCheckoutSKUs ==
  /\ creation.pc = "products"
  /\ \/ Reach("promotions", creation)
     \/ GiveUpOrder

GetPromotions ==
  /\ creation.pc = "promotions"
  /\ \E list \in RuleLists : Reach("item", [creation EXCEPT !.candidates = list])

\* A threshold counts only when it is there.  Amounts out of range are refused, too.
PriceItem ==
  /\ creation.pc = "item"
  /\ \/ /\ \A i \in DOMAIN creation.candidates :
             /\ parseMoney(creation.candidates[i].discount)
             /\ \/ creation.candidates[i].threshold = None
                \/ parseMoney(creation.candidates[i].threshold)
        /\ \E p \in Appliable(creation.candidates) :
             Reach("insert", [creation EXCEPT !.applied = p])
     \/ GiveUpOrder

StoreOrder ==
  /\ creation.pc = "insert"
  /\ IF /\ marshalPromotions(creation.candidates)
        /\ creation.applied # None => validPromotion(creation.applied)
        /\ appliedPromotionMatches(creation.applied, creation.candidates)
       THEN LET row == [shipping |-> creation.shipping, candidates |-> creation.candidates,
                        applied |-> creation.applied]
            IN  /\ orderRows' = Append(orderRows, row)
                /\ created' = Append(created, row)
                /\ creation' = NoCreation
                /\ UNCHANGED savedAddress
       ELSE GiveUpOrder

--------------------------------------------------------------------------------

RecordsNext ==
  \/ \E input \in AddressInputs : SaveAddress(input)
  \/ DeleteMyAddress
  \/ GetMyAddressSnapshot \/ GetCheckoutSKUs \/ GetPromotions \/ PriceItem \/ StoreOrder

RecordsSpec == RecordsInit /\ [][RecordsNext]_recordVars

--------------------------------------------------------------------------------
(* Properties                                                                *)

\* Whatever addresses came in, and however the catalog changes during CreateOrder: an
\* order that was stored can be read, and is read as it was returned.  What ListOrders
\* and a repeated CreateOrder refuse, one of the three programs has refused before.
OrdersCanBeRead == ListOrders(orderRows) = [failed |-> FALSE, orders |-> created]

================================================================================
