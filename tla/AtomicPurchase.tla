---------------------------- MODULE AtomicPurchase ----------------------------
(***************************************************************************)
(* What the payment saga promises, told as if orders, wallets and stock    *)
(* shared one database: stock is held for an attempt, money moves only for *)
(* held stock and at most once per order, what was paid for is sold, and   *)
(* only what was not paid for goes back on the shelf.                      *)
(* PaymentSaga implements it.                                              *)
(***************************************************************************)
EXTENDS Integers

CONSTANTS Orders, Attempts, Users, SKUs, None, OrderOf, UserOf, Total, Quantity,
          InitialBalance, InitialStock

VARIABLES
  paidBy,   \* the attempt that paid an order, or None
  funds,    \* money of a user
  hold,     \* what became of the stock of an attempt
  shelf     \* stock for sale

vars == <<paidBy, funds, hold, shelf>>

Init ==
  /\ paidBy = [o \in Orders |-> None]
  /\ funds = InitialBalance
  /\ hold = [a \in Attempts |-> "free"]
  /\ shelf = InitialStock

\* All of an order's stock is set aside for one attempt, or none of it.
Hold(a) ==
  /\ hold[a] = "free"
  /\ \A s \in SKUs : shelf[s] >= Quantity[OrderOf[a]][s]
  /\ hold' = [hold EXCEPT ![a] = "held"]
  /\ shelf' = [s \in SKUs |-> shelf[s] - Quantity[OrderOf[a]][s]]
  /\ UNCHANGED <<paidBy, funds>>

\* The buyer pays, once, for stock that is set aside.
Buy(a) ==
  LET o == OrderOf[a] IN
  /\ hold[a] = "held"
  /\ paidBy[o] = None
  /\ Total[o] = 0 \/ funds[UserOf[o]] >= Total[o]
  /\ paidBy' = [paidBy EXCEPT ![o] = a]
  /\ funds' = [funds EXCEPT ![UserOf[o]] = @ - Total[o]]
  /\ UNCHANGED <<hold, shelf>>

\* Paid stock leaves for good.
Sell(a) ==
  /\ hold[a] = "held"
  /\ paidBy[OrderOf[a]] = a
  /\ hold' = [hold EXCEPT ![a] = "sold"]
  /\ UNCHANGED <<paidBy, funds, shelf>>

\* Stock that this attempt did not pay for goes back on the shelf.
Return(a) ==
  /\ hold[a] = "held"
  /\ paidBy[OrderOf[a]] # a
  /\ hold' = [hold EXCEPT ![a] = "returned"]
  /\ shelf' = [s \in SKUs |-> shelf[s] + Quantity[OrderOf[a]][s]]
  /\ UNCHANGED <<paidBy, funds>>

Next == \E a \in Attempts : Hold(a) \/ Buy(a) \/ Sell(a) \/ Return(a)

Spec == Init /\ [][Next]_vars

================================================================================
