---------------------------- MODULE MCOutboxWorker ----------------------------
(***************************************************************************)
(* An instance of OutboxWorker for TLC.  The lease is as short as Validate *)
(* accepts for two rows per batch and one tick per call: five ticks for    *)
(* five calls.  lease_until may be rounded down by one tick.               *)
(***************************************************************************)
EXTENDS OutboxWorker

\* Two rows: a batch of both, or of one each for two replicas.
TwoEvents == 1 .. 2

================================================================================
