------------------------- MODULE ConfirmationConsumer -------------------------
(***************************************************************************)
(* product-service's consumer of the topic inventory.reservation.confirm.  *)
(*                                                                         *)
(* Replicas form one Kafka consumer group; the model has one partition.    *)
(* A replica fetches a message, confirms the reservation it names in one   *)
(* catalog transaction, or after five failures publishes it to the dead    *)
(* letter topic, and then commits its offset.  When Run returns an error,  *)
(* runConfirmationConsumer calls it again on the same reader, which goes   *)
(* on behind the message it fetched last.  Only a reader that is assigned  *)
(* the partition anew starts from the committed offset.                    *)
(*                                                                         *)
(* Covered: duplicate, malformed and refused messages, calls that fail or  *)
(* that time out after they took effect, crashes and rebalances with a     *)
(* message in hand, commits of a replica that has lost the partition.      *)
(***************************************************************************)
EXTENDS Integers, Sequences

CONSTANTS
  Members,         \* product-service replicas
  None,
  Events,          \* well-formed confirmation events
  Refused,         \* those whose reservation is unknown, RELEASED or another attempt's
  Malformed,       \* a message that is no event
  MaxAttempts,     \* confirmationRetryMaxAttempts
  MaxLog,          \* bound: messages in the partition
  MaxDisruptions   \* bound: crashes and rebalances

ASSUME ConsumerConstants ==
  /\ None \notin Members
  /\ Refused \subseteq Events
  /\ Malformed \notin Events
  /\ MaxAttempts \in Nat \ {0}
  /\ MaxLog \in Nat
  /\ MaxDisruptions \in Nat

VARIABLES
  log,          \* the partition; offset i - 1 in Kafka is i here
  committed,    \* the group's committed offset: messages up to it are done with
  owner,        \* the replica the partition is assigned to
  position,     \* messages a replica's reader has handed out
  pc, cur, tries,  \* Run: where it is, the message in hand, failed attempts
  consumed,     \* event_consumptions
  confirmed,    \* events whose reservation is CONFIRMED
  dead,         \* messages in the dead letter topic
  abandoned,    \* history: messages Run gave up after the last dead letter attempt
  disruptions   \* history: crashes and rebalances

group == <<committed, owner, position>>
run == <<pc, cur, tries>>
catalog == <<consumed, confirmed>>
vars == <<log, group, run, catalog, dead, abandoned, disruptions>>

Messages == Events \cup {Malformed}

TypeOK ==
  /\ log \in Seq(Messages)
  /\ Len(log) <= MaxLog
  /\ committed \in 0 .. Len(log)
  /\ owner \in Members \cup {None}
  /\ position \in [Members -> 0 .. Len(log)]
  /\ pc \in [Members -> {"fetch", "handle", "deadletter", "commit"}]
  /\ cur \in [Members -> 0 .. Len(log)]
  /\ \A m \in Members : cur[m] = 0 <=> pc[m] = "fetch"
  /\ tries \in [Members -> 0 .. MaxAttempts - 1]
  /\ consumed \subseteq Events
  /\ confirmed \subseteq Events
  /\ dead \subseteq 1 .. Len(log)
  /\ abandoned \subseteq 1 .. Len(log)
  /\ disruptions \in 0 .. MaxDisruptions

Init ==
  /\ log = <<>>
  /\ committed = 0
  /\ owner = None
  /\ position = [m \in Members |-> 0]
  /\ pc = [m \in Members |-> "fetch"]
  /\ cur = [m \in Members |-> 0]
  /\ tries = [m \in Members |-> 0]
  /\ consumed = {}
  /\ confirmed = {}
  /\ dead = {}
  /\ abandoned = {}
  /\ disruptions = 0

--------------------------------------------------------------------------------
(* Kafka and the rest of product-service *)

\* The outbox publishes an event, perhaps again; somebody else writes rubbish.
Produce(x) ==
  /\ Len(log) < MaxLog
  /\ log' = Append(log, x)
  /\ UNCHANGED <<group, run, catalog, dead, abandoned, disruptions>>

\* The expiry worker confirmed the reservation first.
ConfirmExpired(e) ==
  /\ e \notin Refused \cup confirmed
  /\ confirmed' = confirmed \cup {e}
  /\ UNCHANGED <<log, group, run, consumed, dead, abandoned, disruptions>>

\* Names ending in Bug are variants of the definition that follows them, each with a
\* slip such code invites; they show which property notices it.  A new reader starts
\* with the newest message.
AssignBug(m) ==
  /\ owner = None
  /\ owner' = m
  /\ position' = [position EXCEPT ![m] = Len(log)]
  /\ UNCHANGED <<log, committed, run, catalog, dead, abandoned, disruptions>>

\* The group assigns the partition.
Assign(m) ==
  /\ owner = None
  /\ owner' = m
  /\ position' = [position EXCEPT ![m] = committed]
  /\ UNCHANGED <<log, committed, run, catalog, dead, abandoned, disruptions>>

\* A rebalance takes it away; the replica finishes the message it has in hand.
Revoke ==
  /\ owner # None
  /\ disruptions < MaxDisruptions
  /\ owner' = None
  /\ disruptions' = disruptions + 1
  /\ UNCHANGED <<log, committed, position, run, catalog, dead, abandoned>>

\* A replica crashes or is shut down, and comes back without a partition.
Crash(m) ==
  /\ disruptions < MaxDisruptions
  /\ owner' = IF owner = m THEN None ELSE owner
  /\ position' = [position EXCEPT ![m] = 0]
  /\ pc' = [pc EXCEPT ![m] = "fetch"]
  /\ cur' = [cur EXCEPT ![m] = 0]
  /\ tries' = [tries EXCEPT ![m] = 0]
  /\ disruptions' = disruptions + 1
  /\ UNCHANGED <<log, committed, catalog, dead, abandoned>>

--------------------------------------------------------------------------------
(* Run *)

Goto(m, step) ==
  /\ pc' = [pc EXCEPT ![m] = step]
  /\ tries' = [tries EXCEPT ![m] = 0]
  /\ UNCHANGED cur

\* The next message, or after an error of Run the next call of Run.
Forget(m) ==
  /\ pc' = [pc EXCEPT ![m] = "fetch"]
  /\ tries' = [tries EXCEPT ![m] = 0]
  /\ cur' = [cur EXCEPT ![m] = 0]

\* FetchMessage.  One that times out ends Run, which is called again: no change.
Fetch(m) ==
  /\ pc[m] = "fetch"
  /\ owner = m
  /\ position[m] < Len(log)
  /\ position' = [position EXCEPT ![m] = @ + 1]
  /\ cur' = [cur EXCEPT ![m] = position[m] + 1]
  /\ pc' = [pc EXCEPT ![m] = IF log[position[m] + 1] = Malformed THEN "deadletter" ELSE "handle"]
  /\ UNCHANGED <<log, committed, owner, tries, catalog, dead, abandoned, disruptions>>

\* ConfirmConsumed: a known event is a no-op; an unknown one is recorded together with
\* the confirmation, or not at all.
ConfirmConsumed(e) ==
  /\ e \in consumed \/ e \notin Refused
  /\ consumed' = consumed \cup {e}
  /\ confirmed' = IF e \in consumed THEN confirmed ELSE confirmed \cup {e}

Handle(m) ==
  /\ pc[m] = "handle"
  /\ ConfirmConsumed(log[cur[m]])
  /\ Goto(m, "commit")
  /\ UNCHANGED <<log, group, dead, abandoned, disruptions>>

\* What retryConfirmation does about a failure: try again, or this.
RetryOr(m, Otherwise) ==
  \/ /\ tries[m] + 1 < MaxAttempts
     /\ tries' = [tries EXCEPT ![m] = @ + 1]
     /\ UNCHANGED <<pc, cur>>
  \/ tries[m] + 1 = MaxAttempts /\ Otherwise

\* Tries for ever.
HandleFailsForeverBug(m) == pc[m] = "handle" /\ UNCHANGED vars

\* The event is refused, the database is away, or the call timed out: then the
\* transaction may have committed.
HandleFails(m) ==
  /\ pc[m] = "handle"
  /\ \/ UNCHANGED catalog
     \/ ConfirmConsumed(log[cur[m]])
  /\ RetryOr(m, Goto(m, "deadletter"))
  /\ UNCHANGED <<log, group, dead, abandoned, disruptions>>

DeadLetter(m) ==
  /\ pc[m] = "deadletter"
  /\ dead' = dead \cup {cur[m]}
  /\ Goto(m, "commit")
  /\ UNCHANGED <<log, group, catalog, abandoned, disruptions>>

\* After the last attempt Run returns an error and keeps the offset uncommitted.
DeadLetterFails(m) ==
  /\ pc[m] = "deadletter"
  /\ dead' \in {dead, dead \cup {cur[m]}}
  /\ RetryOr(m, Forget(m))
  /\ abandoned' = IF tries[m] + 1 = MaxAttempts THEN abandoned \cup {cur[m]} ELSE abandoned
  /\ UNCHANGED <<log, group, catalog, disruptions>>

\* CommitMessages stores the offset behind this message, whatever was stored before;
\* that of a replica which lost the partition may still arrive.
CommitMessages(m) ==
  /\ pc[m] = "commit"
  /\ committed' = cur[m]
  /\ Forget(m)
  /\ UNCHANGED <<log, owner, position, catalog, dead, abandoned, disruptions>>

CommitFails(m) ==
  /\ pc[m] = "commit"
  /\ Forget(m)
  /\ UNCHANGED <<log, group, catalog, dead, abandoned, disruptions>>

Run(m) ==
  \/ Fetch(m)
  \/ Handle(m) \/ HandleFails(m)
  \/ DeadLetter(m) \/ DeadLetterFails(m)
  \/ CommitMessages(m) \/ CommitFails(m)

Next ==
  \/ \E x \in Messages : Produce(x)
  \/ \E e \in Events : ConfirmExpired(e)
  \/ Revoke
  \/ \E m \in Members : Assign(m) \/ Crash(m) \/ Run(m)

Spec == Init /\ [][Next]_vars

\* Every call of Run has a timeout, runConfirmationConsumer calls Run again, and the
\* group assigns the partition.
FairSpec ==
  /\ Spec
  /\ WF_vars(\E m \in Members : Assign(m))
  /\ \A m \in Members : WF_vars(Run(m))

--------------------------------------------------------------------------------
(* Properties *)

Handled(i) == i \in dead \/ log[i] \in consumed

\* Run: "Messages are committed only after local confirmation or a
\* producer-acknowledged DLQ publication."
CommittedIsHandled == \A i \in 1 .. committed : Handled(i)

\* CommitMessages is called for a message that was confirmed or dead-lettered, however
\* often its handling failed or timed out before.
CommitsHandled == \A m \in Members : pc[m] = "commit" => Handled(cur[m])

\* What does hold of the committed offset: a message is passed over unhandled only if
\* all attempts to dead-letter it failed, in one call of deadLetterAndCommit.  No
\* crash, rebalance or stale commit skips any other message.
SkippedWasAbandoned ==
  \A i \in 1 .. committed : Handled(i) \/ i \in abandoned

\* ConfirmConsumed records an event and confirms its reservation in one transaction:
\* an event that is taken for a duplicate has had its effect.
ConsumedIsConfirmed == consumed \subseteq confirmed \ Refused

\* No message blocks the ones behind it for ever, be it malformed, refused or the
\* victim of a crash: Run gets each one confirmed, dead-lettered or gives it up.
EveryMessageResolved ==
  \A i \in 1 .. MaxLog :
    i <= Len(log) ~> (i <= Len(log) /\ (Handled(i) \/ i \in abandoned))

================================================================================
