SPECIFICATION FairSpec
CONSTANTS
  o1 = o1
  o2 = o2
  a1 = a1
  a2 = a2
  a3 = a3
  u1 = u1
  s1 = s1
  s2 = s2
  None = None
  Orders = {o1}
  Attempts = {a1, a2}
  Users = {u1}
  SKUs = {s1}
  RecoveryWorkers = {r1}
  ExpiryWorkers = {e1}
  OrderOf <- RetryOrderOf
  UserOf <- RetryUserOf
  Total <- RetryTotal
  Quantity <- RetryQuantity
  InitialBalance <- RetryBalance
  InitialStock <- RetryStock
PROPERTIES
  SagaSettles
