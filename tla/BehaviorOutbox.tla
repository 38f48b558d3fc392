---------------------------- MODULE BehaviorOutbox ----------------------------
(***************************************************************************)
(* The gateway's outbox of behaviour events and its worker.                *)
(*                                                                         *)
(* A request handler inserts a row for what a user did.  The worker reads  *)
(* a batch of PENDING rows, publishes each and marks it PUBLISHED, or puts *)
(* it off by a second when the broker refuses it.  Run ends with the first *)
(* error of a database call, and main only logs that; the worker runs      *)
(* again when the gateway is restarted.                                    *)
(*                                                                         *)
(* There is no clock: a row that was put off may be due again at any time. *)
(***************************************************************************)
EXTENDS Integers, FiniteSets

CONSTANTS
  Events,      \* ids of behavior_outbox_events, numbers; ORDER BY id is <
  Gateways,
  None,        \* SQL NULL
  BatchSize

VARIABLES
  status,      \* behavior_outbox_events.status; "none" before Record
  claimToken,  \* behavior_outbox_events.claim_token
  putOff,      \* rows whose next_retry_at lies ahead
  topic,       \* events the broker has appended
  pc,          \* where a gateway's worker is; "ended" when Run has returned
  batch,       \* the events of its pass that are left
  outage       \* history: gateways one of whose database calls failed

vars == <<status, claimToken, putOff, topic, pc, batch, outage>>

TypeOK ==
  /\ status \in [Events -> {"none", "PENDING", "PUBLISHED"}]
  /\ claimToken \in [Events -> Gateways \cup {None}]
  /\ putOff \subseteq Events
  /\ topic \subseteq Events
  /\ pc \in [Gateways -> {"idle", "publish", "mark", "retry", "ended"}]
  /\ batch \in [Gateways -> SUBSET Events]
  /\ outage \subseteq Gateways

Init ==
  /\ status = [e \in Events |-> "none"]
  /\ claimToken = [e \in Events |-> None]
  /\ putOff = {}
  /\ topic = {}
  /\ pc = [g \in Gateways |-> "idle"]
  /\ batch = [g \in Gateways |-> {}]
  /\ outage = {}

--------------------------------------------------------------------------------

Record(e) ==
  /\ status[e] = "none"
  /\ status' = [status EXCEPT ![e] = "PENDING"]
  /\ UNCHANGED <<claimToken, putOff, topic, pc, batch, outage>>

\* next_retry_at passes.
Ripen(e) ==
  /\ e \in putOff
  /\ putOff' = putOff \ {e}
  /\ UNCHANGED <<status, claimToken, topic, pc, batch, outage>>

Due == {e \in Events \ putOff : status[e] = "PENDING"}

\* The first BatchSize due rows.  The SELECT locks them for its own transaction only;
\* the claim token is a parameter of the query, and no column is set to it.
Claim(g) ==
  /\ pc[g] = "idle"
  /\ Due # {}
  /\ batch' = [batch EXCEPT ![g] =
                 {e \in Due : Cardinality({f \in Due : f < e}) < BatchSize}]
  /\ pc' = [pc EXCEPT ![g] = "publish"]
  /\ UNCHANGED <<status, claimToken, putOff, topic, outage>>

Current(g, e) == e \in batch[g] /\ \A f \in batch[g] : e <= f

\* The pass goes on behind event e.
Continue(g, e) ==
  /\ batch' = [batch EXCEPT ![g] = @ \ {e}]
  /\ pc' = [pc EXCEPT ![g] = IF batch[g] = {e} THEN "idle" ELSE "publish"]

\* RunOnce returns an error, and so does Run.
End(g) ==
  /\ batch' = [batch EXCEPT ![g] = {}]
  /\ pc' = [pc EXCEPT ![g] = "ended"]

Publish(g, e) ==
  /\ pc[g] = "publish"
  /\ Current(g, e)
  /\ topic' = topic \cup {e}
  /\ pc' = [pc EXCEPT ![g] = "mark"]
  /\ UNCHANGED <<status, claimToken, putOff, batch, outage>>

\* No acknowledgement; the broker may have the event nevertheless.
PublishFails(g, e) ==
  /\ pc[g] = "publish"
  /\ Current(g, e)
  /\ topic' \in {topic, topic \cup {e}}
  /\ pc' = [pc EXCEPT ![g] = "retry"]
  /\ UNCHANGED <<status, claimToken, putOff, batch, outage>>

\* WHERE claim_token = ? AND id = ?, which has to match one row.
MarkPublished(g, e) ==
  /\ pc[g] = "mark"
  /\ Current(g, e)
  /\ IF claimToken[e] = g
     THEN status' = [status EXCEPT ![e] = "PUBLISHED"] /\ Continue(g, e)
     ELSE UNCHANGED status /\ End(g)
  /\ UNCHANGED <<claimToken, putOff, topic, outage>>

\* WHERE id = ?, whoever holds the row; an error is ignored.
MarkRetry(g, e) ==
  /\ pc[g] = "retry"
  /\ Current(g, e)
  /\ \/ status' = [status EXCEPT ![e] = "PENDING"] /\ putOff' = putOff \cup {e}
     \/ UNCHANGED <<status, putOff>>
  /\ Continue(g, e)
  /\ UNCHANGED <<claimToken, topic, outage>>

\* Claim or MarkPublished fails in the database.
DatabaseFails(g) ==
  /\ pc[g] \in {"idle", "mark"}
  /\ End(g)
  /\ outage' = outage \cup {g}
  /\ UNCHANGED <<status, claimToken, putOff, topic>>

\* The gateway is started again.
Restart(g) ==
  /\ batch' = [batch EXCEPT ![g] = {}]
  /\ pc' = [pc EXCEPT ![g] = "idle"]
  /\ outage' = outage \ {g}
  /\ UNCHANGED <<status, claimToken, putOff, topic>>

RunOnce(g) ==
  \/ Claim(g)
  \/ \E e \in Events :
       Publish(g, e) \/ PublishFails(g, e) \/ MarkPublished(g, e) \/ MarkRetry(g, e)
  \/ DatabaseFails(g)

Next ==
  \/ \E e \in Events : Record(e) \/ Ripen(e)
  \/ \E g \in Gateways : RunOnce(g) \/ Restart(g)

Spec == Init /\ [][Next]_vars

--------------------------------------------------------------------------------
(* Properties *)

\* Plan M5.2c: "Worker leases only PENDING behavior.events, publishes to Kafka, and
\* marks success or retry".  While the database answers, no pass of RunOnce ends without a mark.
MarksSuccessOrRetry == \A g \in Gateways : pc[g] = "ended" => g \in outage

================================================================================
