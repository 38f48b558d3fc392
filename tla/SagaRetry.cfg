SPECIFICATION Spec
CONSTANTS
  o1 = o1
  o2 = o2
  a1 = a1
  a2 = a2
  a3 = a3
  u1 = u1
  s1 = s1
  s2 = s2
  None = None
  Orders = {o1}
  Attempts = {a1, a2}
  Users = {u1}
  SKUs = {s1, s2}
  RecoveryWorkers = {r1, r2}
  ExpiryWorkers = {e1, e2}
  OrderOf <- RetryOrderOf
  UserOf <- RetryUserOf
  Total <- RetryTotal
  Quantity <- RetryQuantity
  InitialBalance <- RetryBalance
  InitialStock <- RetryStock
SYMMETRY RetrySymmetry
INVARIANTS
  AnswersTruthful
  PaidHoldsStock
  ConfirmedIsPaid
PROPERTIES
  VerdictStable
  ImplementsPurchase
