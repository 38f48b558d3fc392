-------------------------- MODULE OutboxWorkerProofs --------------------------
(***************************************************************************)
(* Proofs about OutboxWorker, for any number of rows, replicas and rows    *)
(* per batch and for every setting that Validate accepts.  The argument is *)
(* a budget: what is left of the lease on each row of a batch, and what    *)
(* Truncate took off it, is at least what the call its worker is in and    *)
(* the calls still to come can take, if that worker keeps its deadlines.   *)
(***************************************************************************)
EXTENDS OutboxWorker, FiniteSetTheorems, TLAPS

Running(w) == pc[w] # "idle" /\ ~stalled[w]

\* A row is paid for until what is left of the pass may be what Truncate took.
Paid(w, e) ==
  \/ Owns(w, e) /\ lease[e] + Rounding >= TimeLeft(w)
  \/ TimeLeft(w) <= Rounding

Budget == \A w \in Workers : Running(w) => \A e \in batch[w] : Paid(w, e)

\* What a worker is about to record was published.
Sent ==
  /\ PublishedWasSent
  /\ \A w \in Workers, e \in Events : pc[w] = "mark" /\ Current(w, e) => e \in topic

OutboxInv == TypeOK /\ Sent /\ Budget

--------------------------------------------------------------------------------
(* Arithmetic and batches *)

\* Multiplication by CallTimeout keeps the order.
LEMMA Monotone ==
  ASSUME NEW m \in Int, NEW n \in Int, m <= n
  PROVE  m * CallTimeout <= n * CallTimeout
BY OutboxConstants

\* What is left of a lease that was just taken, rounding included.
LEMMA FreshLease ==
  ASSUME NEW left \in 0 .. LeaseDuration, LeaseDuration - left <= Rounding
  PROVE  left + Rounding >= CallTimeout + (2 * BatchSize) * CallTimeout
<1> DEFINE calls == 1 + 2 * BatchSize
           share == LeaseDuration \div calls
<1>1. calls \in Nat \ {0}
  BY OutboxConstants
<1>2. share \in Nat /\ calls * share <= LeaseDuration
  <2> HIDE DEF calls
  <2>1. \A l \in Nat, c \in Nat \ {0} : l \div c \in Nat /\ c * (l \div c) <= l
    OBVIOUS
  <2> QED  BY <1>1, <2>1, OutboxConstants
<1>3. CallTimeout <= share
  BY OutboxConstants DEF Validate
<1>4. calls * CallTimeout <= calls * share
  <2> HIDE DEF calls, share
  <2>1. \A c \in Nat, x \in Nat, y \in Nat : x <= y => c * x <= c * y
    OBVIOUS
  <2> QED  BY <1>1, <1>2, <1>3, <2>1, OutboxConstants
<1>5. calls * CallTimeout = CallTimeout + (2 * BatchSize) * CallTimeout
  BY OutboxConstants
<1>6. calls * share \in Int /\ calls * CallTimeout \in Int
  <2> HIDE DEF calls, share
  <2> QED  BY <1>1, <1>2, OutboxConstants
<1> HIDE DEF calls, share
<1>7. calls * CallTimeout <= left + Rounding
  BY <1>2, <1>4, <1>6, OutboxConstants
<1> QED  BY <1>5, <1>7

\* A batch is finite, and one row shorter without the row it is at.
LEMMA Batches ==
  ASSUME NEW b \in SUBSET Events
  PROVE  /\ Cardinality(b) \in Nat
         /\ \A e \in b : Cardinality(b) >= 1 /\ Cardinality(b \ {e}) = Cardinality(b) - 1
<1>1. IsFiniteSet(b)
  BY OutboxConstants, FS_Subset
<1>2. Cardinality(b) \in Nat
  BY <1>1, FS_CardinalityType
<1>3. ASSUME NEW e \in b
      PROVE  Cardinality(b) >= 1 /\ Cardinality(b \ {e}) = Cardinality(b) - 1
  <2>1. Cardinality(b) # 0
    BY <1>1, FS_EmptySet
  <2>2. Cardinality(b) >= 1
    BY <1>2, <2>1
  <2>3. Cardinality(b \ {e}) = Cardinality(b) - 1
    BY <1>1, <1>3, FS_RemoveElement
  <2> QED  BY <2>2, <2>3
<1> QED  BY <1>2, <1>3

--------------------------------------------------------------------------------
(* Types *)

LEMMA TypeInit == Init => TypeOK
BY OutboxConstants DEF Init, TypeOK

LEMMA TypeLease ==
  ASSUME TypeOK, NEW w \in Workers, NEW locked \in SUBSET Events, LeasePending(w, locked)
  PROVE  TypeOK'
<1>1. PICK b \in SUBSET Events, left \in 0 .. LeaseDuration :
        /\ status' = [e \in Events |-> IF e \in b THEN "PROCESSING" ELSE status[e]]
        /\ token' = [e \in Events |-> IF e \in b THEN w ELSE token[e]]
        /\ lease' = [e \in Events |-> IF e \in b THEN left ELSE lease[e]]
        /\ delay' = [e \in Events |-> IF e \in b THEN NextDelay(delay[e]) ELSE delay[e]]
        /\ batch' = [batch EXCEPT ![w] = b]
  BY DEF LeasePending
<1>3. \A d \in 0 .. MaxDelay : NextDelay(d) \in 0 .. MaxDelay
  BY OutboxConstants DEF NextDelay
<1>4. /\ status' \in [Events -> {"none", "PENDING", "PROCESSING", "PUBLISHED"}]
      /\ token' \in [Events -> Workers \cup {None}]
  BY <1>1 DEF TypeOK
<1>5. lease' \in [Events -> 0 .. LeaseDuration]
  BY <1>1 DEF TypeOK
<1>6. delay' \in [Events -> 0 .. MaxDelay]
  BY <1>1, <1>3 DEF TypeOK
<1>7. /\ pc' \in [Workers -> {"idle", "leasing", "publish", "mark", "retry"}]
      /\ batch' \in [Workers -> SUBSET Events]
      /\ call' \in [Workers -> 0 .. CallTimeout]
      /\ wait' = wait /\ topic' = topic /\ stalled' = stalled
  BY <1>1, OutboxConstants DEF TypeOK, LeasePending, Call
<1> QED  BY <1>4, <1>5, <1>6, <1>7 DEF TypeOK

LEMMA TypeStep == TypeOK /\ [Next]_vars => TypeOK'
<1> SUFFICES ASSUME TypeOK, [Next]_vars PROVE TypeOK'
  OBVIOUS
<1> USE OutboxConstants
<1>1. ASSUME NEW e \in Events, CommitEvent(e) PROVE TypeOK'
  BY <1>1 DEF CommitEvent, TypeOK
<1>2. ASSUME NEW w \in Workers, RunOnce(w) PROVE TypeOK'
  <2>1. ASSUME NEW locked \in SUBSET Events, LeasePending(w, locked) PROVE TypeOK'
    BY <2>1, TypeLease
  <2>2. CASE Leased(w)
    BY <2>2 DEF Leased, Call, TypeOK, rows
  <2>3. ASSUME NEW e \in Events, Publish(w, e) PROVE TypeOK'
    BY <2>3 DEF Publish, Call, TypeOK, rows
  <2>4. ASSUME NEW e \in Events, PublishFails(w, e) PROVE TypeOK'
    BY <2>4 DEF PublishFails, Call, TypeOK, rows
  <2>5. ASSUME NEW e \in Events, MarkPublished(w, e) PROVE TypeOK'
    <3>1. /\ status' \in [Events -> {"none", "PENDING", "PROCESSING", "PUBLISHED"}]
          /\ token' \in [Events -> Workers \cup {None}]
          /\ lease' \in [Events -> 0 .. LeaseDuration]
          /\ wait' \in [Events -> 0 .. MaxDelay]
          /\ delay' = delay /\ topic' = topic
      BY <2>5 DEF MarkPublished, TypeOK
    <3>2. /\ pc' \in [Workers -> {"idle", "leasing", "publish", "mark", "retry"}]
          /\ batch' \in [Workers -> SUBSET Events]
          /\ call' \in [Workers -> 0 .. CallTimeout]
          /\ stalled' \in [Workers -> BOOLEAN]
      <4>1. CASE batch[w] = {e}
        <5>1. EndPass(w)
          BY <2>5, <4>1 DEF MarkPublished
        <5> QED  BY <5>1 DEF EndPass, TypeOK
      <4>2. CASE batch[w] # {e}
        <5>1. /\ batch' = [batch EXCEPT ![w] = @ \ {e}]
              /\ pc' = [pc EXCEPT ![w] = "publish"]
              /\ call' = [call EXCEPT ![w] = IF stalled[w] THEN 0 ELSE CallTimeout]
              /\ stalled' = stalled
          BY <2>5, <4>2 DEF MarkPublished, Call
        <5>2. batch[w] \ {e} \in SUBSET Events
          BY DEF TypeOK
        <5> QED  BY <5>1, <5>2 DEF TypeOK
      <4> QED  BY <4>1, <4>2
    <3> QED  BY <3>1, <3>2 DEF TypeOK
  <2>6. ASSUME NEW e \in Events, Retry(w, e) PROVE TypeOK'
    BY <2>6 DEF Retry, EndPass, TypeOK
  <2>7. CASE Abort(w)
    BY <2>7 DEF Abort, EndPass, TypeOK, rows
  <2>8. CASE Stall(w)
    BY <2>8 DEF Stall, TypeOK, rows
  <2> QED  BY <1>2, <2>1, <2>2, <2>3, <2>4, <2>5, <2>6, <2>7, <2>8 DEF RunOnce
<1>3. CASE Tick
  <2>1. \A n \in Nat : \A m \in 0 .. n : Less(m) \in 0 .. n
    BY DEF Less
  <2>2. /\ lease' \in [Events -> 0 .. LeaseDuration]
        /\ wait' \in [Events -> 0 .. MaxDelay]
        /\ call' \in [Workers -> 0 .. CallTimeout]
    BY <1>3, <2>1 DEF Tick, TypeOK
  <2> QED  BY <1>3, <2>2 DEF Tick, TypeOK
<1>4. CASE UNCHANGED vars
  BY <1>4 DEF vars, rows, TypeOK
<1> QED  BY <1>1, <1>2, <1>3, <1>4 DEF Next

--------------------------------------------------------------------------------
(* What a worker's step leaves alone *)

\* The other workers' passes.
LEMMA OtherPasses ==
  ASSUME TypeOK, NEW v \in Workers, RunOnce(v), NEW w \in Workers, v # w
  PROVE  /\ pc'[w] = pc[w] /\ batch'[w] = batch[w]
         /\ call'[w] = call[w] /\ stalled'[w] = stalled[w]
<1>1. CASE \E locked \in SUBSET Events : LeasePending(v, locked)
  BY <1>1 DEF LeasePending, Call, TypeOK
<1>2. CASE Leased(v)
  BY <1>2 DEF Leased, Call, TypeOK
<1>3. ASSUME NEW e \in Events, Publish(v, e) \/ PublishFails(v, e)
      PROVE  /\ pc'[w] = pc[w] /\ batch'[w] = batch[w]
             /\ call'[w] = call[w] /\ stalled'[w] = stalled[w]
  BY <1>3 DEF Publish, PublishFails, Call, TypeOK
<1>4. ASSUME NEW e \in Events, MarkPublished(v, e)
      PROVE  /\ pc'[w] = pc[w] /\ batch'[w] = batch[w]
             /\ call'[w] = call[w] /\ stalled'[w] = stalled[w]
  <2>1. CASE batch[v] = {e}
    <3>1. EndPass(v)
      BY <1>4, <2>1 DEF MarkPublished
    <3> QED  BY <3>1 DEF EndPass, TypeOK
  <2>2. CASE batch[v] # {e}
    BY <1>4, <2>2 DEF MarkPublished, Call, TypeOK
  <2> QED  BY <2>1, <2>2
<1>5. ASSUME NEW e \in Events, Retry(v, e)
      PROVE  /\ pc'[w] = pc[w] /\ batch'[w] = batch[w]
             /\ call'[w] = call[w] /\ stalled'[w] = stalled[w]
  BY <1>5 DEF Retry, EndPass, TypeOK
<1>6. CASE Abort(v)
  BY <1>6 DEF Abort, EndPass, TypeOK
<1>7. CASE Stall(v)
  BY <1>7 DEF Stall, TypeOK
<1> QED  BY <1>1, <1>2, <1>3, <1>4, <1>5, <1>6, <1>7 DEF RunOnce

\* A row under a running lease, unless its owner is recording what became of it.
LEMMA RowsFenced ==
  ASSUME TypeOK, NEW v \in Workers, RunOnce(v),
         NEW w \in Workers, NEW e \in Events, Owns(w, e), lease[e] > 0,
         ~(v = w /\ pc[w] \in {"mark", "retry"} /\ Current(w, e))
  PROVE  Owns(w, e)' /\ lease'[e] = lease[e]
<1>1. ASSUME NEW locked \in SUBSET Events, LeasePending(v, locked)
      PROVE  Owns(w, e)' /\ lease'[e] = lease[e]
  <2>1. PICK b \in SUBSET Events, left \in 0 .. LeaseDuration :
          /\ IsBatch(b, {f \in Events \ locked : Due(f)})
          /\ status' = [f \in Events |-> IF f \in b THEN "PROCESSING" ELSE status[f]]
          /\ token' = [f \in Events |-> IF f \in b THEN v ELSE token[f]]
          /\ lease' = [f \in Events |-> IF f \in b THEN left ELSE lease[f]]
    BY <1>1 DEF LeasePending
  <2>2. ~Due(e)
    BY DEF Due, Owns, TypeOK
  <2>3. e \notin b
    BY <2>1, <2>2 DEF IsBatch
  <2> QED  BY <2>1, <2>3 DEF Owns
<1>2. CASE Leased(v)
  BY <1>2 DEF Leased, Owns, rows
<1>3. ASSUME NEW f \in Events, Publish(v, f) \/ PublishFails(v, f)
      PROVE  Owns(w, e)' /\ lease'[e] = lease[e]
  BY <1>3 DEF Publish, PublishFails, Owns, rows
<1>4. ASSUME NEW f \in Events, MarkPublished(v, f) \/ Retry(v, f)
      PROVE  Owns(w, e)' /\ lease'[e] = lease[e]
  <2>1. Owns(v, f) /\ Current(v, f) /\ pc[v] \in {"mark", "retry"}
    BY <1>4 DEF MarkPublished, Retry
  <2>2. e # f
    BY <2>1 DEF Owns
  <2>3. status'[e] = status[e] /\ token'[e] = token[e] /\ lease'[e] = lease[e]
    BY <1>4, <2>2 DEF MarkPublished, Retry, TypeOK
  <2> QED  BY <2>3 DEF Owns
<1>5. CASE Abort(v)
  BY <1>5 DEF Abort, Owns, rows
<1>6. CASE Stall(v)
  BY <1>6 DEF Stall, Owns, rows
<1> QED  BY <1>1, <1>2, <1>3, <1>4, <1>5, <1>6 DEF RunOnce

--------------------------------------------------------------------------------
(* Nothing is recorded that was not published *)

\* A worker only comes to record an event by publishing it; appended events stay.
LEMMA SentStep == TypeOK /\ Sent /\ [Next]_vars => Sent'
<1> SUFFICES ASSUME TypeOK, Sent, [Next]_vars PROVE Sent'
  OBVIOUS
<1>1. topic \subseteq topic'
  <2>1. ASSUME NEW v \in Workers, RunOnce(v) PROVE topic \subseteq topic'
    BY <2>1 DEF RunOnce, LeasePending, Leased, Publish, PublishFails, MarkPublished, Retry,
                Abort, Stall
  <2> QED  BY <2>1 DEF Next, CommitEvent, Tick, vars
<1>2. PublishedWasSent'
  <2> SUFFICES ASSUME NEW e \in Events, status'[e] = "PUBLISHED", e \notin topic
               PROVE  e \in topic'
    BY <1>1 DEF PublishedWasSent
  <2>1. status[e] # "PUBLISHED"
    BY DEF Sent, PublishedWasSent
  <2>2. ASSUME NEW v \in Workers, RunOnce(v) PROVE FALSE
    <3>1. ASSUME NEW f \in Events, MarkPublished(v, f) PROVE FALSE
      <4>1. status' = [status EXCEPT ![f] = "PUBLISHED"] /\ pc[v] = "mark" /\ Current(v, f)
        BY <3>1 DEF MarkPublished
      <4>2. f = e
        BY <2>1, <4>1 DEF TypeOK
      <4> QED  BY <4>1, <4>2 DEF Sent
    <3>2. ASSUME NEW f \in Events, Retry(v, f) PROVE FALSE
      BY <2>1, <3>2 DEF Retry, TypeOK
    <3>3. ASSUME NEW locked \in SUBSET Events, LeasePending(v, locked) PROVE FALSE
      BY <2>1, <3>3 DEF LeasePending, TypeOK
    <3>4. status' # status
      BY <2>1
    <3> QED  BY <2>2, <3>1, <3>2, <3>3, <3>4
             DEF RunOnce, Leased, Publish, PublishFails, Abort, Stall, rows
  <2>3. ASSUME NEW f \in Events, CommitEvent(f) PROVE FALSE
    BY <2>1, <2>3 DEF CommitEvent, TypeOK
  <2>4. status' # status
    BY <2>1
  <2> QED  BY <2>2, <2>3, <2>4 DEF Next, Tick, vars, rows
<1>3. ASSUME NEW w \in Workers, NEW e \in Events, pc'[w] = "mark", Current(w, e)'
      PROVE  e \in topic'
  <2>1. CASE pc'[w] = pc[w] /\ batch'[w] = batch[w]
    <3>1. Current(w, e)
      BY <1>3, <2>1 DEF Current
    <3> QED  BY <1>1, <1>3, <2>1, <3>1 DEF Sent
  <2>2. CASE ~(pc'[w] = pc[w] /\ batch'[w] = batch[w])
    <3>1. RunOnce(w)
      BY <2>2, OtherPasses DEF Next, CommitEvent, Tick, vars, rows
    <3>2. PICK f \in Events : Publish(w, f)
      <4>1. ASSUME NEW locked \in SUBSET Events, LeasePending(w, locked) PROVE FALSE
        BY <1>3, <4>1 DEF LeasePending, Call, TypeOK
      <4>2. CASE Leased(w)
        BY <1>3, <4>2 DEF Leased, Call, TypeOK
      <4>3. ASSUME NEW f \in Events, PublishFails(w, f) PROVE FALSE
        BY <1>3, <4>3 DEF PublishFails, Call, TypeOK
      <4>4. ASSUME NEW f \in Events, MarkPublished(w, f) PROVE FALSE
        <5>1. EndPass(w) \/ Call(w, "publish")
          BY <4>4 DEF MarkPublished
        <5> QED  BY <1>3, <5>1 DEF Call, EndPass, TypeOK
      <4>5. ASSUME NEW f \in Events, Retry(w, f) PROVE FALSE
        BY <1>3, <4>5 DEF Retry, EndPass, TypeOK
      <4>6. CASE Abort(w)
        BY <1>3, <4>6 DEF Abort, EndPass, TypeOK
      <4>7. CASE Stall(w)
        BY <2>2, <4>7 DEF Stall
      <4> QED  BY <3>1, <4>1, <4>2, <4>3, <4>4, <4>5, <4>6, <4>7 DEF RunOnce
    <3>3. batch' = batch /\ Current(w, f) /\ topic' = topic \cup {f}
      BY <3>2 DEF Publish
    <3>4. e \in batch[w] /\ f \in batch[w] /\ e <= f /\ f <= e
      BY <1>3, <3>3 DEF Current
    <3>5. e \in Nat /\ f \in Nat
      BY <3>4, OutboxConstants DEF TypeOK
    <3>6. e = f
      BY <3>4, <3>5
    <3> QED  BY <3>3, <3>6
  <2> QED  BY <2>1, <2>2
<1> QED  BY <1>2, <1>3 DEF Sent

--------------------------------------------------------------------------------
(* The budget of a pass *)

\* The calls to come, while there is a row in the batch.
LEMMA CallsAfterType ==
  ASSUME TypeOK, NEW w \in Workers, NEW e \in batch[w]
  PROVE  CallsAfter(w) \in Nat /\ CallsAfter(w) * CallTimeout \in Nat
<1>1. Cardinality(batch[w]) \in Nat /\ Cardinality(batch[w]) >= 1
  BY Batches DEF TypeOK
<1>2. CallsAfter(w) \in Nat
  BY <1>1 DEF CallsAfter, TypeOK
<1> QED  BY <1>2, OutboxConstants

LEMMA TimeLeftType ==
  ASSUME TypeOK, NEW w \in Workers, NEW e \in batch[w]
  PROVE  TimeLeft(w) \in Nat
BY CallsAfterType, OutboxConstants DEF TimeLeft, TypeOK

\* A worker that starts one call has one call less to come, and no more time to spend.
LEMMA OneCallLess ==
  ASSUME NEW n \in Nat, NEW m \in Nat, m + 1 <= n,
         NEW c \in Nat, NEW d \in 0 .. CallTimeout
  PROVE  d + m * CallTimeout <= c + n * CallTimeout
<1>1. (m + 1) * CallTimeout <= n * CallTimeout
  BY Monotone
<1>2. (m + 1) * CallTimeout = CallTimeout + m * CallTimeout
  BY OutboxConstants
<1>3. m * CallTimeout \in Int /\ n * CallTimeout \in Int
  BY OutboxConstants
<1> QED  BY <1>1, <1>2, <1>3, OutboxConstants

LEMMA BudgetStep == TypeOK /\ Budget /\ [Next]_vars => Budget'
<1> SUFFICES ASSUME TypeOK, Budget, [Next]_vars,
                    NEW w \in Workers, Running(w)', NEW e \in batch'[w]
             PROVE  Paid(w, e)'
  BY DEF Budget
<1>0. TypeOK' /\ e \in Events
  BY TypeStep DEF TypeOK
<1>t. /\ TimeLeft(w)' \in Nat /\ Rounding \in Nat
      /\ lease[e] \in Nat /\ lease'[e] \in Nat
  <2>1. TimeLeft(w)' \in Nat
    <3>1. /\ Cardinality(batch'[w]) \in Nat /\ Cardinality(batch'[w]) >= 1
      BY <1>0, Batches DEF TypeOK
    <3>2. CallsAfter(w)' \in Nat
      BY <1>0, <3>1 DEF CallsAfter, TypeOK
    <3>3. CallsAfter(w)' * CallTimeout \in Nat /\ call'[w] \in Nat
      BY <1>0, <3>2, OutboxConstants DEF TypeOK
    <3> QED  BY <3>3 DEF TimeLeft
  <2> QED  BY <1>0, <2>1, OutboxConstants DEF TypeOK
\* While more is left than the rounding, the lease of a row in the batch runs.
<1>h. ASSUME Running(w), e \in batch[w], TimeLeft(w) > Rounding
      PROVE  Owns(w, e) /\ lease[e] > 0 /\ lease[e] + Rounding >= TimeLeft(w)
  BY <1>h, <1>t, TimeLeftType DEF Budget, Paid
\* A step that adds no time and, as long as it matters, leaves the row alone.
<1>k. ASSUME Running(w), e \in batch[w], TimeLeft(w)' <= TimeLeft(w),
             TimeLeft(w) > Rounding => Owns(w, e)' /\ lease'[e] = lease[e]
      PROVE  Paid(w, e)'
  <2>1. TimeLeft(w) \in Nat
    BY <1>k, TimeLeftType
  <2>2. CASE TimeLeft(w) <= Rounding
    <3>1. TimeLeft(w)' <= Rounding
      BY <1>k, <1>t, <2>1, <2>2
    <3> QED  BY <3>1 DEF Paid
  <2>3. CASE TimeLeft(w) > Rounding
    <3>1. Owns(w, e)' /\ lease'[e] + Rounding >= TimeLeft(w)'
      BY <1>h, <1>k, <1>t, <2>1, <2>3
    <3> QED  BY <3>1 DEF Paid
  <2> QED  BY <1>t, <2>1, <2>2, <2>3
\* Rows and pass as before.
<1>1. CASE UNCHANGED <<pc, batch, call, stalled, status, token, lease>>
  BY <1>1 DEF Budget, Paid, TimeLeft, Running, Owns, CallsAfter
<1>2. ASSUME NEW f \in Events, CommitEvent(f) PROVE Paid(w, e)'
  <2>1. Running(w) /\ e \in batch[w] /\ TimeLeft(w)' = TimeLeft(w)
    BY <1>2 DEF CommitEvent, Running, CallsAfter, TimeLeft
  <2>2. TimeLeft(w) > Rounding => Owns(w, e)' /\ lease'[e] = lease[e]
    BY <1>2, <1>h, <2>1 DEF CommitEvent, Owns, TypeOK
  <2> QED  BY <1>k, <1>t, <2>1, <2>2
<1>3. CASE Tick
  <2>1. Running(w) /\ e \in batch[w] /\ CallsAfter(w)' = CallsAfter(w)
    BY <1>3 DEF Tick, Running, CallsAfter
  <2>2. call[w] \in Nat /\ call'[w] = call[w] - 1
    BY <1>3, <2>1, OutboxConstants DEF Tick, Running, Less, TypeOK
  <2>3. TimeLeft(w) \in Nat /\ CallsAfter(w) * CallTimeout \in Nat
    BY <2>1, CallsAfterType, TimeLeftType
  <2>4. TimeLeft(w)' = TimeLeft(w) - 1
    BY <2>1, <2>2, <2>3 DEF TimeLeft
  <2>5. CASE TimeLeft(w) <= Rounding
    <3>1. TimeLeft(w)' <= Rounding
      BY <1>t, <2>3, <2>4, <2>5
    <3> QED  BY <3>1 DEF Paid
  <2>6. CASE TimeLeft(w) > Rounding
    <3>1. Owns(w, e) /\ lease[e] > 0 /\ lease[e] + Rounding >= TimeLeft(w)
      BY <1>h, <2>1, <2>6
    <3>2. lease'[e] = lease[e] - 1 /\ Owns(w, e)'
      BY <1>0, <1>3, <1>t, <3>1 DEF Tick, Less, Owns
    <3>3. lease'[e] + Rounding >= TimeLeft(w)'
      BY <1>t, <2>3, <2>4, <3>1, <3>2
    <3> QED  BY <3>2, <3>3 DEF Paid
  <2> QED  BY <1>t, <2>3, <2>5, <2>6
\* Another worker's step: while the lease runs, its rows are other rows.
<1>4. ASSUME NEW v \in Workers, v # w, RunOnce(v) PROVE Paid(w, e)'
  <2>1. /\ pc'[w] = pc[w] /\ batch'[w] = batch[w]
        /\ call'[w] = call[w] /\ stalled'[w] = stalled[w]
    BY <1>4, OtherPasses
  <2>2. Running(w) /\ e \in batch[w] /\ TimeLeft(w)' = TimeLeft(w)
    BY <2>1 DEF Running, CallsAfter, TimeLeft
  <2>3. TimeLeft(w) > Rounding => Owns(w, e)' /\ lease'[e] = lease[e]
    BY <1>0, <1>4, <1>h, <2>2, RowsFenced
  <2> QED  BY <1>k, <1>t, <2>2, <2>3
\* Its own lease: the whole duration, less the rounding.
<1>5. ASSUME NEW locked \in SUBSET Events, LeasePending(w, locked) PROVE Paid(w, e)'
  <2>1. PICK b \in SUBSET Events, left \in 0 .. LeaseDuration :
          /\ Cardinality(b) <= BatchSize
          /\ LeaseDuration - left <= Rounding
          /\ status' = [f \in Events |-> IF f \in b THEN "PROCESSING" ELSE status[f]]
          /\ token' = [f \in Events |-> IF f \in b THEN w ELSE token[f]]
          /\ lease' = [f \in Events |-> IF f \in b THEN left ELSE lease[f]]
          /\ batch' = [batch EXCEPT ![w] = b]
    BY <1>5 DEF LeasePending, IsBatch
  <2>2. batch'[w] = b /\ pc'[w] = "leasing" /\ call'[w] \in 0 .. CallTimeout
    BY <1>0, <1>5, <2>1 DEF LeasePending, Call, TypeOK
  <2>3. Owns(w, e)' /\ lease'[e] = left
    BY <1>0, <2>1, <2>2 DEF Owns
  <2>4. TimeLeft(w)' = call'[w] + (2 * Cardinality(b)) * CallTimeout
    BY <2>2 DEF CallsAfter, TimeLeft
  <2>5. Cardinality(b) \in Nat
    BY Batches
  <2>6. 2 * Cardinality(b) <= 2 * BatchSize /\ 2 * Cardinality(b) \in Int
    BY <2>1, <2>5, OutboxConstants
  <2>7. (2 * Cardinality(b)) * CallTimeout <= (2 * BatchSize) * CallTimeout
    BY <2>6, Monotone, OutboxConstants
  <2>8. /\ (2 * Cardinality(b)) * CallTimeout \in Int
        /\ (2 * BatchSize) * CallTimeout \in Int
    BY <2>6, OutboxConstants
  <2>9. left + Rounding >= CallTimeout + (2 * BatchSize) * CallTimeout
    BY <2>1, FreshLease
  <2>10. left + Rounding >= call'[w] + (2 * Cardinality(b)) * CallTimeout
    BY <2>2, <2>7, <2>8, <2>9, OutboxConstants
  <2> QED  BY <2>3, <2>4, <2>10 DEF Paid
\* Its own next call: the rows stay its own, and there is one call less to come.
<1>6. ASSUME Running(w), e \in batch[w],
             TimeLeft(w) > Rounding => Owns(w, e)' /\ lease'[e] = lease[e],
             call'[w] \in 0 .. CallTimeout, CallsAfter(w)' + 1 <= CallsAfter(w),
             CallsAfter(w)' \in Nat
      PROVE  Paid(w, e)'
  <2>1. CallsAfter(w) \in Nat /\ call[w] \in Nat
    BY <1>6, CallsAfterType DEF TypeOK
  <2>2. TimeLeft(w)' <= TimeLeft(w)
    BY <1>6, <2>1, OneCallLess DEF TimeLeft
  <2> QED  BY <1>6, <1>k, <2>2
<1>7. CASE Leased(w)
  <2>1. /\ batch' = batch /\ stalled' = stalled /\ UNCHANGED rows
        /\ pc[w] = "leasing" /\ pc'[w] = "publish" /\ call'[w] \in 0 .. CallTimeout
    BY <1>0, <1>7 DEF Leased, Call, TypeOK
  <2>2. Running(w) /\ e \in batch[w]
    BY <2>1 DEF Running
  <2>3. TimeLeft(w) > Rounding => Owns(w, e)' /\ lease'[e] = lease[e]
    BY <1>h, <2>1, <2>2 DEF Owns, rows
  <2>4. Cardinality(batch[w]) \in Nat /\ Cardinality(batch[w]) >= 1
    BY <2>2, Batches DEF TypeOK
  <2>5. CallsAfter(w)' \in Nat /\ CallsAfter(w)' + 1 <= CallsAfter(w)
    BY <2>1, <2>4 DEF CallsAfter
  <2> QED  BY <1>6, <2>1, <2>2, <2>3, <2>5
<1>8. ASSUME NEW f \in Events, Publish(w, f) \/ PublishFails(w, f) PROVE Paid(w, e)'
  <2>1. /\ batch' = batch /\ stalled' = stalled /\ UNCHANGED rows
        /\ pc[w] = "publish" /\ pc'[w] \in {"mark", "retry"}
        /\ call'[w] \in 0 .. CallTimeout
    BY <1>0, <1>8 DEF Publish, PublishFails, Call, TypeOK
  <2>2. Running(w) /\ e \in batch[w]
    BY <2>1 DEF Running
  <2>3. TimeLeft(w) > Rounding => Owns(w, e)' /\ lease'[e] = lease[e]
    BY <1>h, <2>1, <2>2 DEF Owns, rows
  <2>4. Cardinality(batch[w]) \in Nat /\ Cardinality(batch[w]) >= 1
    BY <2>2, Batches DEF TypeOK
  <2>5. CallsAfter(w)' \in Nat /\ CallsAfter(w)' + 1 <= CallsAfter(w)
    BY <2>1, <2>4 DEF CallsAfter
  <2> QED  BY <1>6, <2>1, <2>2, <2>3, <2>5
<1>9. ASSUME NEW f \in Events, MarkPublished(w, f) PROVE Paid(w, e)'
  <2>1. batch[w] # {f}
    <3>1. SUFFICES ASSUME batch[w] = {f} PROVE FALSE
      OBVIOUS
    <3>2. EndPass(w)
      BY <1>9, <3>1 DEF MarkPublished
    <3> QED  BY <3>2 DEF EndPass, TypeOK
  <2>2. /\ batch'[w] = batch[w] \ {f} /\ stalled' = stalled /\ f \in batch[w]
        /\ pc[w] = "mark" /\ pc'[w] = "publish" /\ call'[w] \in 0 .. CallTimeout
    BY <1>0, <1>9, <2>1 DEF MarkPublished, Current, Call, TypeOK
  <2>3. Running(w) /\ e \in batch[w] /\ e # f
    BY <2>2 DEF Running
  <2>4. TimeLeft(w) > Rounding => Owns(w, e)' /\ lease'[e] = lease[e]
    BY <1>0, <1>9, <1>h, <2>3 DEF MarkPublished, Owns, TypeOK
  <2>5. /\ Cardinality(batch[w]) \in Nat
        /\ Cardinality(batch'[w]) = Cardinality(batch[w]) - 1
        /\ Cardinality(batch'[w]) \in Nat /\ Cardinality(batch'[w]) >= 1
    BY <1>0, <2>2, Batches DEF TypeOK
  <2>6. CallsAfter(w)' \in Nat /\ CallsAfter(w)' + 1 <= CallsAfter(w)
    BY <2>2, <2>5 DEF CallsAfter
  <2> QED  BY <1>6, <2>2, <2>3, <2>4, <2>6
<1>10. ASSUME NEW f \in Events, Retry(w, f) PROVE FALSE
  BY <1>10 DEF Retry, EndPass, Running, TypeOK
<1>11. CASE Abort(w)
  BY <1>11 DEF Abort, EndPass, Running, TypeOK
<1>12. CASE Stall(w)
  BY <1>12 DEF Stall, Running, TypeOK
<1>13. ASSUME RunOnce(w) PROVE Paid(w, e)'
  BY <1>5, <1>7, <1>8, <1>9, <1>10, <1>11, <1>12, <1>13 DEF RunOnce
<1> QED  BY <1>1, <1>2, <1>3, <1>4, <1>13 DEF Next, vars, rows

--------------------------------------------------------------------------------
(* Theorems *)

\* The inductive invariant.
THEOREM OutboxInvariant == Spec => []OutboxInv
<1>1. Init => OutboxInv
  <2> SUFFICES ASSUME Init PROVE OutboxInv
    OBVIOUS
  <2>1. TypeOK
    BY TypeInit
  <2>2. Sent
    BY DEF Init, Sent, PublishedWasSent
  <2>3. Budget
    BY DEF Init, Budget, Running
  <2> QED  BY <2>1, <2>2, <2>3 DEF OutboxInv
<1>2. OutboxInv /\ [Next]_vars => OutboxInv'
  BY TypeStep, SentStep, BudgetStep DEF OutboxInv
<1> QED  BY <1>1, <1>2, PTL DEF Spec

\* Types: among others, a retry is never put off for longer than MaxDelay.
THEOREM OutboxTyping == Spec => []TypeOK
<1>1. OutboxInv => TypeOK
  BY DEF OutboxInv
<1> QED  BY <1>1, OutboxInvariant, PTL

\* MarkPublished never records an event that KafkaPublisher has not delivered.
THEOREM NothingLost == Spec => []PublishedWasSent
<1>1. OutboxInv => PublishedWasSent
  BY DEF OutboxInv, Sent
<1> QED  BY <1>1, OutboxInvariant, PTL

\* For every setting that Config.Validate accepts, equality included: with every call
\* inside its deadline, the rows of a batch of any size are held until no more of the
\* pass can be left than Truncate took off lease_until.
THEOREM BatchesFitTheirLease == Spec => []LeaseCoversBatch
<1>1. OutboxInv => LeaseCoversBatch
  <2> SUFFICES ASSUME OutboxInv, NEW w \in Workers, Running(w), NEW e \in batch[w],
                      ~(TimeLeft(w) <= Rounding)
               PROVE  Owns(w, e) /\ lease[e] > 0
    BY DEF LeaseCoversBatch, Running
  <2>1. Owns(w, e) /\ lease[e] + Rounding >= TimeLeft(w)
    BY DEF OutboxInv, Budget, Paid
  <2>2. TypeOK /\ lease[e] \in Nat /\ Rounding \in Nat
    BY OutboxConstants DEF OutboxInv, TypeOK
  <2>3. TimeLeft(w) \in Nat
    BY <2>2, TimeLeftType
  <2> QED  BY <2>1, <2>2, <2>3
<1> QED  BY <1>1, OutboxInvariant, PTL

\* The claim token fences MarkPublished and Retry: a row under a running lease is
\* left alone by everybody but its holder.
THEOREM LeasesFence == Spec => LeaseFences
<1> DEFINE Fenced ==
      \A e \in Events, w \in Workers :
        Owns(w, e) /\ lease[e] > 0 =>
          Owns(w, e)' \/ (pc[w] \in {"mark", "retry"} /\ Current(w, e))
<1>1. OutboxInv /\ [Next]_vars => [Fenced]_vars
  <2> SUFFICES ASSUME TypeOK, Next, NEW e \in Events, NEW w \in Workers,
                      Owns(w, e), lease[e] > 0,
                      ~(pc[w] \in {"mark", "retry"} /\ Current(w, e))
               PROVE  Owns(w, e)'
    BY DEF OutboxInv
  <2>1. ASSUME NEW f \in Events, CommitEvent(f) PROVE Owns(w, e)'
    BY <2>1 DEF CommitEvent, Owns, TypeOK
  <2>2. ASSUME NEW v \in Workers, RunOnce(v) PROVE Owns(w, e)'
    BY <2>2, RowsFenced
  <2>3. CASE Tick
    BY <2>3 DEF Tick, Owns
  <2> QED  BY <2>1, <2>2, <2>3 DEF Next
<1>2. OutboxInv /\ [Next]_vars => [\A e \in Events, w \in Workers :
        Owns(w, e) /\ lease[e] > 0 =>
          Owns(w, e)' \/ (pc[w] \in {"mark", "retry"} /\ Current(w, e))]_vars
  BY <1>1
<1> QED  BY <1>2, OutboxInvariant, PTL DEF Spec, LeaseFences

================================================================================
