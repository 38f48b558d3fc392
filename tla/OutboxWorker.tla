----------------------------- MODULE OutboxWorker -----------------------------
(***************************************************************************)
(* The transactional outbox of order-service and its polling workers.      *)
(*                                                                         *)
(* A settlement (or a review) inserts an outbox row in its own transaction.*)
(* Workers, one per replica, lease a batch of due rows, publish them one   *)
(* after the other and record each publication; every row update is fenced *)
(* by the claim token of the lease.                                        *)
(*                                                                         *)
(* Time is explicit, because the design rests on it: the outbox settings   *)
(* are validated so that a whole batch fits into its lease.  The clock     *)
(* columns hold the time that is left, in ticks: lease[e] to lease_until,  *)
(* wait[e] to next_retry_at, call[w] to the deadline of the call a worker  *)
(* is in.  A call returns before its deadline unless its process stalls: a *)
(* paused process, a long garbage collection, a slow network.              *)
(*                                                                         *)
(* A claim token is a fresh uuid per lease.  A worker runs one pass at a   *)
(* time and forgets the tokens of earlier ones, so its name stands for the *)
(* token of its current pass.                                              *)
(***************************************************************************)
EXTENDS Integers, FiniteSets

CONSTANTS
  Events,          \* ids of outbox rows; ORDER BY id is <
  Workers,
  None,            \* SQL NULL
  BatchSize,
  LeaseDuration,
  CallTimeout,
  Rounding,        \* what Truncate(time.Millisecond) may take off lease_until
  FirstDelay,      \* retryDelay of a first attempt, one second
  MaxDelay         \* ... and of a hopeless one, thirty

\* Config.Validate: the calls of a batch may take the whole lease, to its last moment,
\* and what Truncate takes off it is not reckoned.
Validate == CallTimeout <= LeaseDuration \div (1 + 2 * BatchSize)

ASSUME OutboxConstants ==
  /\ Events \subseteq Nat
  /\ IsFiniteSet(Events)
  /\ None \notin Workers
  /\ BatchSize \in Nat \ {0}
  /\ LeaseDuration \in Nat \ {0}
  /\ CallTimeout \in Nat \ {0}
  /\ Rounding \in Nat
  /\ FirstDelay \in Nat \ {0}
  /\ MaxDelay \in Nat
  /\ FirstDelay <= MaxDelay
  /\ Validate

VARIABLES
  status,    \* outbox_events.status; "none" until the row is committed
  token,     \* outbox_events.claim_token
  lease,     \* time to lease_until, 0 when it has passed
  wait,      \* time to next_retry_at
  delay,     \* retryDelay(attempts), 0 for attempts = 0
  topic,     \* events the broker has appended, at least once
  pc,        \* the call a worker is in
  batch,     \* the rows of its pass it has not finished
  call,      \* time to the deadline of its call
  stalled    \* it missed a deadline, or may

rows == <<status, token, lease, wait, delay>>
vars == <<rows, topic, pc, batch, call, stalled>>

TypeOK ==
  /\ status \in [Events -> {"none", "PENDING", "PROCESSING", "PUBLISHED"}]
  /\ token \in [Events -> Workers \cup {None}]
  /\ lease \in [Events -> 0 .. LeaseDuration]
  /\ wait \in [Events -> 0 .. MaxDelay]
  /\ delay \in [Events -> 0 .. MaxDelay]
  /\ topic \subseteq Events
  /\ pc \in [Workers -> {"idle", "leasing", "publish", "mark", "retry"}]
  /\ batch \in [Workers -> SUBSET Events]
  /\ call \in [Workers -> 0 .. CallTimeout]
  /\ stalled \in [Workers -> BOOLEAN]

Init ==
  /\ status = [e \in Events |-> "none"]
  /\ token = [e \in Events |-> None]
  /\ lease = [e \in Events |-> 0]
  /\ wait = [e \in Events |-> 0]
  /\ delay = [e \in Events |-> 0]
  /\ topic = {}
  /\ pc = [w \in Workers |-> "idle"]
  /\ batch = [w \in Workers |-> {}]
  /\ call = [w \in Workers |-> 0]
  /\ stalled = [w \in Workers |-> FALSE]

--------------------------------------------------------------------------------

\* The settlement or review transaction commits with its event.
CommitEvent(e) ==
  /\ status[e] = "none"
  /\ status' = [status EXCEPT ![e] = "PENDING"]
  /\ UNCHANGED <<token, lease, wait, delay, topic, pc, batch, call, stalled>>

\* Names ending in Bug are variants of the definition that follows them, each with a
\* slip such code invites; they show which property notices it.  A row is taken
\* whether or not its lease has run out ...
DueEarlyBug(e) == status[e] \in {"PENDING", "PROCESSING"} /\ wait[e] = 0

\* ... or a row that a dead worker leased is never taken again.
DueNeverBug(e) == status[e] = "PENDING" /\ wait[e] = 0

\* Pending and not waiting for a retry, or leased and the lease has run out.
Due(e) ==
  \/ status[e] = "PENDING" /\ wait[e] = 0
  \/ status[e] = "PROCESSING" /\ lease[e] = 0

\* ORDER BY id LIMIT BatchSize
IsBatch(b, S) ==
  /\ b # {}
  /\ b \subseteq S
  /\ Cardinality(b) <= BatchSize
  /\ \A e \in b, f \in S \ b : e < f
  /\ b # S => Cardinality(b) = BatchSize

\* retryDelay doubles with every attempt, up to thirty seconds.
NextDelay(d) ==
  IF d = 0 THEN FirstDelay ELSE IF 2 * d < MaxDelay THEN 2 * d ELSE MaxDelay

Call(w, step) ==
  /\ pc' = [pc EXCEPT ![w] = step]
  /\ call' = [call EXCEPT ![w] = IF stalled[w] THEN 0 ELSE CallTimeout]

\* The pass is over; the worker forgets what it held.
EndPass(w) ==
  /\ pc' = [pc EXCEPT ![w] = "idle"]
  /\ batch' = [batch EXCEPT ![w] = {}]
  /\ call' = [call EXCEPT ![w] = 0]
  /\ stalled' = [stalled EXCEPT ![w] = FALSE]

\* LeasePending commits.  SKIP LOCKED passes over rows that another transaction
\* has locked.  now is read before the transaction and lease_until is truncated.
LeasePending(w, locked) ==
  /\ pc[w] = "idle"
  /\ \E b \in SUBSET Events, left \in 0 .. LeaseDuration :
       /\ IsBatch(b, {e \in Events \ locked : Due(e)})
       /\ LeaseDuration - left <= Rounding
       /\ status' = [e \in Events |-> IF e \in b THEN "PROCESSING" ELSE status[e]]
       /\ token' = [e \in Events |-> IF e \in b THEN w ELSE token[e]]
       /\ lease' = [e \in Events |-> IF e \in b THEN left ELSE lease[e]]
       /\ delay' = [e \in Events |-> IF e \in b THEN NextDelay(delay[e]) ELSE delay[e]]
       /\ batch' = [batch EXCEPT ![w] = b]
  /\ Call(w, "leasing")
  /\ UNCHANGED <<wait, topic, stalled>>

Leased(w) ==
  /\ pc[w] = "leasing"
  /\ Call(w, "publish")
  /\ UNCHANGED <<rows, topic, batch, stalled>>

\* The event a pass is at.
Current(w, e) == e \in batch[w] /\ \A f \in batch[w] : e <= f

\* WHERE id = ? AND status = 'PROCESSING' AND claim_token = ?
Owns(w, e) == status[e] = "PROCESSING" /\ token[e] = w

\* The broker acknowledged.
Publish(w, e) ==
  /\ pc[w] = "publish"
  /\ Current(w, e)
  /\ topic' = topic \cup {e}
  /\ Call(w, "mark")
  /\ UNCHANGED <<rows, batch, stalled>>

\* The broker refused, or never answered: it may have appended the event or not.
PublishFails(w, e) ==
  /\ pc[w] = "publish"
  /\ Current(w, e)
  /\ topic' \in {topic, topic \cup {e}}
  /\ Call(w, "retry")
  /\ UNCHANGED <<rows, batch, stalled>>

\* Any lease will do.
MarkPublishedBug(w, e) ==
  /\ pc[w] = "mark"
  /\ Current(w, e)
  /\ status[e] = "PROCESSING"
  /\ status' = [status EXCEPT ![e] = "PUBLISHED"]
  /\ token' = [token EXCEPT ![e] = None]
  /\ EndPass(w)
  /\ UNCHANGED <<lease, wait, delay, topic>>

\* The row leaves the queue; the pass goes on with the next one.
MarkPublished(w, e) ==
  /\ pc[w] = "mark"
  /\ Current(w, e)
  /\ Owns(w, e)
  /\ status' = [status EXCEPT ![e] = "PUBLISHED"]
  /\ token' = [token EXCEPT ![e] = None]
  /\ lease' = [lease EXCEPT ![e] = 0]
  /\ wait' = [wait EXCEPT ![e] = 0]
  /\ IF batch[w] = {e}
     THEN EndPass(w)
     ELSE /\ batch' = [batch EXCEPT ![w] = @ \ {e}]
          /\ Call(w, "publish")
          /\ UNCHANGED stalled
  /\ UNCHANGED <<delay, topic>>

\* Retry puts the row off; the pass ends, and what is left of its batch stays
\* leased until the lease runs out.
Retry(w, e) ==
  /\ pc[w] = "retry"
  /\ Current(w, e)
  /\ Owns(w, e)
  /\ status' = [status EXCEPT ![e] = "PENDING"]
  /\ token' = [token EXCEPT ![e] = None]
  /\ lease' = [lease EXCEPT ![e] = 0]
  /\ wait' = [wait EXCEPT ![e] = delay[e]]
  /\ EndPass(w)
  /\ UNCHANGED <<delay, topic>>

\* The pass ends without a trace: the token no longer matches ("lease lost"), a
\* database call failed or timed out, or the process crashed.
Abort(w) ==
  /\ pc[w] # "idle"
  /\ EndPass(w)
  /\ UNCHANGED <<rows, topic>>

Stall(w) ==
  /\ pc[w] # "idle"
  /\ ~stalled[w]
  /\ stalled' = [stalled EXCEPT ![w] = TRUE]
  /\ call' = [call EXCEPT ![w] = 0]
  /\ UNCHANGED <<rows, topic, pc, batch>>

Less(n) == IF n > 0 THEN n - 1 ELSE 0

\* Time passes, but no call of a running process outlives its deadline.
Tick ==
  /\ \A w \in Workers : pc[w] # "idle" /\ ~stalled[w] => call[w] > 0
  /\ lease' = [e \in Events |-> Less(lease[e])]
  /\ wait' = [e \in Events |-> Less(wait[e])]
  /\ call' = [w \in Workers |-> Less(call[w])]
  /\ UNCHANGED <<status, token, delay, topic, pc, batch, stalled>>

RunOnce(w) ==
  \/ \E locked \in SUBSET Events : LeasePending(w, locked)
  \/ Leased(w)
  \/ \E e \in Events :
       Publish(w, e) \/ PublishFails(w, e) \/ MarkPublished(w, e) \/ Retry(w, e)
  \/ Abort(w)
  \/ Stall(w)

Next ==
  \/ \E e \in Events : CommitEvent(e)
  \/ \E w \in Workers : RunOnce(w)
  \/ Tick

Spec == Init /\ [][Next]_vars

\* Run polls for ever and swallows a failed pass.  The broker and the database refuse,
\* and processes stall or crash, only for a while: what is tried again and again
\* succeeds in the end.
Fairness ==
  /\ WF_vars(Tick)
  /\ SF_vars(\E w \in Workers : LeasePending(w, {}))
  /\ \A e \in Events :
       /\ SF_vars(\E w \in Workers : Owns(w, e) /\ Current(w, e) /\ Leased(w))
       /\ SF_vars(\E w \in Workers : Owns(w, e) /\ Publish(w, e))
       /\ SF_vars(\E w \in Workers : MarkPublished(w, e))
  /\ \A w \in Workers : WF_vars(Abort(w))

FairSpec == Spec /\ Fairness

--------------------------------------------------------------------------------
(* Properties *)

\* No event is ever taken for published that the broker has not appended, although
\* MarkPublished may be called late, for a lost lease or after a failed publication.
PublishedWasSent == \A e \in Events : status[e] = "PUBLISHED" => e \in topic

\* Calls that may follow the current one: two for a row that is not yet published.
CallsAfter(w) ==
  CASE pc[w] = "leasing" -> 2 * Cardinality(batch[w])
    [] pc[w] = "publish" -> 2 * Cardinality(batch[w]) - 1
    [] pc[w] = "mark" -> 2 * Cardinality(batch[w]) - 2
    [] OTHER -> 0

\* The longest that the rest of a pass can take while deadlines are kept.
TimeLeft(w) == call[w] + CallsAfter(w) * CallTimeout

\* What Validate's budget is worth: a worker that keeps its deadlines owns every row of
\* its batch under a running lease, so that no other replica publishes the same event
\* meanwhile, until no more of its pass can be left than Truncate took off the lease.
\* The comment on Validate promises this to the end of the last call.
LeaseCoversBatch ==
  \A w \in Workers : pc[w] # "idle" /\ ~stalled[w] =>
    \A e \in batch[w] : (Owns(w, e) /\ lease[e] > 0) \/ TimeLeft(w) <= Rounding

\* While a lease runs, MarkPublished and Retry of another pass leave its row alone,
\* however late they come: only the worker that holds the row, at that row, ends it.
LeaseFences ==
  [][\A e \in Events, w \in Workers :
       Owns(w, e) /\ lease[e] > 0 =>
         Owns(w, e)' \/ (pc[w] \in {"mark", "retry"} /\ Current(w, e))]_vars

\* In the end every committed event is appended by the broker and marked: RunOnce gives
\* up at a first failure and crashes leave rows PROCESSING, but retries and expired
\* leases bring them back.
EveryEventPublished ==
  <>[](\A e \in Events : status[e] # "none" => status[e] = "PUBLISHED" /\ e \in topic)

================================================================================
