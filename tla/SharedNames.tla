------------------------------ MODULE SharedNames ------------------------------
(***************************************************************************)
(* What the modules of the shop's services have in common: the SKUs the    *)
(* shop sells and a value that stands for "none".                          *)
(***************************************************************************)
CONSTANTS SKUs, None

ASSUME NoneIsNoSKU == None \notin SKUs

================================================================================
