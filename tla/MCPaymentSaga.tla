---------------------------- MODULE MCPaymentSaga ----------------------------
(***************************************************************************)
(* Instances of PaymentSaga for TLC.                                       *)
(***************************************************************************)
EXTENDS PaymentSaga, TLC

CONSTANTS o1, o2, a1, a2, a3, u1, s1, s2

\* "Contend": two orders of one buyer.  The wallet pays for the second only, the shelf
\* holds the stock of either; the second order is tried twice.
ContendOrderOf == a1 :> o1 @@ a2 :> o2 @@ a3 :> o2
ContendUserOf == [o \in Orders |-> u1]
ContendTotal == o1 :> 2 @@ o2 :> 1
ContendQuantity == o1 :> (s1 :> 1) @@ o2 :> (s1 :> 2)
ContendBalance == u1 :> 1
ContendStock == s1 :> 2
ContendSymmetry == Permutations({a2, a3})

\* "Retry": one order that is paid for again and again.  Of the second SKU the shelf
\* holds one unit less than there are attempts, so an orphan starves the last one.
RetryOrderOf == [a \in Attempts |-> o1]
RetryUserOf == [o \in Orders |-> u1]
RetryTotal == [o \in Orders |-> 1]
RetryQuantity == [o \in Orders |-> [s \in SKUs |-> 1]]
RetryBalance == u1 :> 1
RetryStock == [s \in SKUs |-> Cardinality(Attempts) - (IF s = s2 THEN 1 ELSE 0)]

\* Attempts of one order are interchangeable, and so are the workers of one kind.
RetrySymmetry ==
  Permutations(Attempts) \cup Permutations(RecoveryWorkers) \cup Permutations(ExpiryWorkers)

================================================================================
