------------------------ MODULE MCConfirmationConsumer ------------------------
(***************************************************************************)
(* An instance of ConfirmationConsumer for TLC: two replicas, an event     *)
(* that is confirmed and one that is refused, a message that is no event.  *)
(* The replicas are not declared symmetric, as the fair specification is   *)
(* used for a liveness property.                                           *)
(***************************************************************************)
EXTENDS ConfirmationConsumer

================================================================================
