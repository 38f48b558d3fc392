---------------------- MODULE ConfirmationConsumerProofs ----------------------
(***************************************************************************)
(* Proofs about ConfirmationConsumer, for any number of replicas, messages *)
(* attempts and disruptions.  The argument: everything a reader has handed *)
(* out is resolved, but for the message in hand.                           *)
(***************************************************************************)
EXTENDS ConfirmationConsumer, TLAPS

Resolved(i) == Handled(i) \/ i \in abandoned

\* What a replica fetched, and what came before the message it has in hand.
HandInv ==
  \A m \in Members :
    /\ \A i \in 1 .. position[m] : Resolved(i) \/ i = cur[m]
    /\ \A i \in 1 .. Len(log) : i < cur[m] => Resolved(i)

\* Rubbish never reaches the handler.
EventInHand == \A m \in Members : pc[m] = "handle" => log[cur[m]] \in Events

ConsumerInv ==
  TypeOK /\ EventInHand /\ CommitsHandled /\ SkippedWasAbandoned /\ ConsumedIsConfirmed /\ HandInv

--------------------------------------------------------------------------------

LEMMA TypeInit == Init => TypeOK
BY ConsumerConstants DEF Init, TypeOK

\* A message in hand is one of the log's.
LEMMA InHand ==
  ASSUME TypeOK, NEW m \in Members, pc[m] # "fetch"
  PROVE  cur[m] \in 1 .. Len(log) /\ log[cur[m]] \in Messages
BY DEF TypeOK

\* Goto and Forget keep the types of Run's variables.
LEMMA TypeGoto ==
  ASSUME TypeOK, NEW m \in Members, pc[m] # "fetch",
         NEW step \in {"handle", "deadletter", "commit"}, Goto(m, step) \/ Forget(m)
  PROVE  /\ pc' \in [Members -> {"fetch", "handle", "deadletter", "commit"}]
         /\ cur' \in [Members -> 0 .. Len(log)]
         /\ \A n \in Members : cur'[n] = 0 <=> pc'[n] = "fetch"
         /\ tries' \in [Members -> 0 .. MaxAttempts - 1]
<1>1. CASE Goto(m, step)
  BY <1>1, ConsumerConstants DEF Goto, TypeOK
<1>2. CASE Forget(m)
  BY <1>2, ConsumerConstants DEF Forget, TypeOK
<1> QED  BY <1>1, <1>2

\* So does another attempt.
LEMMA TypeRetry ==
  ASSUME TypeOK, NEW m \in Members, tries[m] + 1 < MaxAttempts,
         tries' = [tries EXCEPT ![m] = @ + 1], UNCHANGED <<pc, cur>>
  PROVE  /\ pc' \in [Members -> {"fetch", "handle", "deadletter", "commit"}]
         /\ cur' \in [Members -> 0 .. Len(log)]
         /\ \A n \in Members : cur'[n] = 0 <=> pc'[n] = "fetch"
         /\ tries' \in [Members -> 0 .. MaxAttempts - 1]
BY ConsumerConstants DEF TypeOK

LEMMA TypeConfirm ==
  ASSUME TypeOK, NEW e \in Events, ConfirmConsumed(e)
  PROVE  consumed' \subseteq Events /\ confirmed' \subseteq Events
BY DEF ConfirmConsumed, TypeOK

--------------------------------------------------------------------------------
(* Types *)

LEMMA TypeProduce ==
  ASSUME TypeOK, EventInHand, NEW x \in Messages, Produce(x)
  PROVE  TypeOK' /\ EventInHand'
<1>1. /\ log' \in Seq(Messages) /\ Len(log') = Len(log) + 1 /\ Len(log') <= MaxLog
      /\ \A i \in 1 .. Len(log) : log'[i] = log[i]
  BY ConsumerConstants DEF Produce, TypeOK
<1>2. \A k \in 0 .. Len(log) : k \in 0 .. Len(log')
  BY <1>1 DEF TypeOK
<1>3. /\ committed' \in 0 .. Len(log')
      /\ position' \in [Members -> 0 .. Len(log')]
      /\ cur' \in [Members -> 0 .. Len(log')]
      /\ dead' \subseteq 1 .. Len(log') /\ abandoned' \subseteq 1 .. Len(log')
  BY <1>1, <1>2 DEF Produce, TypeOK, group, run
<1>4. TypeOK'
  BY <1>1, <1>3 DEF Produce, TypeOK, group, run, catalog
<1>5. ASSUME NEW m \in Members, pc'[m] = "handle" PROVE log'[cur'[m]] \in Events
  <2>1. pc[m] = "handle" /\ cur'[m] = cur[m]
    BY <1>5 DEF Produce, run
  <2> QED  BY <1>1, <2>1, InHand DEF EventInHand
<1> QED  BY <1>4, <1>5 DEF EventInHand

LEMMA TypeGroup ==
  ASSUME TypeOK, EventInHand, Revoke \/ \E m \in Members : Assign(m) \/ Crash(m)
  PROVE  TypeOK' /\ EventInHand'
<1>1. CASE Revoke
  BY <1>1, ConsumerConstants DEF Revoke, TypeOK, EventInHand, run, catalog
<1>2. ASSUME NEW m \in Members, Assign(m) PROVE TypeOK' /\ EventInHand'
  BY <1>2 DEF Assign, TypeOK, EventInHand, run, catalog
<1>3. ASSUME NEW m \in Members, Crash(m) PROVE TypeOK' /\ EventInHand'
  <2>1. /\ log' = log /\ committed' = committed /\ dead' = dead /\ abandoned' = abandoned
        /\ owner' \in Members \cup {None} /\ position' \in [Members -> 0 .. Len(log)]
        /\ disruptions' \in 0 .. MaxDisruptions /\ UNCHANGED catalog
    BY <1>3, ConsumerConstants DEF Crash, TypeOK
  <2>2. /\ pc' = [pc EXCEPT ![m] = "fetch"]
        /\ cur' = [cur EXCEPT ![m] = 0]
        /\ tries' = [tries EXCEPT ![m] = 0]
    BY <1>3 DEF Crash
  <2>3. TypeOK'
    BY <2>1, <2>2, ConsumerConstants DEF TypeOK, catalog
  <2> QED  BY <2>1, <2>2, <2>3 DEF EventInHand, TypeOK
<1> QED  BY <1>1, <1>2, <1>3

LEMMA TypeFetch ==
  ASSUME TypeOK, EventInHand, NEW m \in Members, Fetch(m)
  PROVE  TypeOK' /\ EventInHand'
<1>1. /\ UNCHANGED <<log, committed, owner, tries, catalog, dead, abandoned, disruptions>>
      /\ position[m] + 1 \in 1 .. Len(log) /\ log[position[m] + 1] \in Messages
      /\ position' = [position EXCEPT ![m] = @ + 1]
      /\ cur' = [cur EXCEPT ![m] = position[m] + 1]
      /\ pc' = [pc EXCEPT ![m] = IF log[position[m] + 1] = Malformed
                               THEN "deadletter" ELSE "handle"]
  BY DEF Fetch, TypeOK
<1>2. /\ position' \in [Members -> 0 .. Len(log)]
      /\ cur' \in [Members -> 0 .. Len(log)]
      /\ pc' \in [Members -> {"fetch", "handle", "deadletter", "commit"}]
  BY <1>1 DEF TypeOK
<1>3. \A n \in Members : cur'[n] = 0 <=> pc'[n] = "fetch"
  BY <1>1 DEF TypeOK
<1>4. TypeOK'
  BY <1>1, <1>2, <1>3 DEF TypeOK, catalog
<1>5. EventInHand'
  BY <1>1 DEF EventInHand, TypeOK, Messages
<1> QED  BY <1>4, <1>5

\* The steps that have a message in hand.
LEMMA TypeMessage ==
  ASSUME TypeOK, EventInHand, NEW m \in Members,
         \/ Handle(m) \/ HandleFails(m) \/ DeadLetter(m) \/ DeadLetterFails(m)
         \/ CommitMessages(m) \/ CommitFails(m)
  PROVE  TypeOK' /\ EventInHand'
<1>1. /\ pc[m] # "fetch" /\ UNCHANGED <<log, owner, position, disruptions>>
      /\ cur[m] \in 1 .. Len(log)
  BY InHand DEF Handle, HandleFails, DeadLetter, DeadLetterFails, CommitMessages, CommitFails,
                group
<1>2. \/ Goto(m, "commit") \/ Goto(m, "deadletter") \/ Forget(m)
      \/ tries[m] + 1 < MaxAttempts /\ tries' = [tries EXCEPT ![m] = @ + 1] /\ UNCHANGED <<pc, cur>>
  BY DEF Handle, HandleFails, DeadLetter, DeadLetterFails, CommitMessages, CommitFails, RetryOr
<1>3. /\ pc' \in [Members -> {"fetch", "handle", "deadletter", "commit"}]
      /\ cur' \in [Members -> 0 .. Len(log)]
      /\ \A n \in Members : cur'[n] = 0 <=> pc'[n] = "fetch"
      /\ tries' \in [Members -> 0 .. MaxAttempts - 1]
  BY <1>1, <1>2, TypeGoto, TypeRetry
<1>4. committed' \in 0 .. Len(log)
  BY <1>1 DEF Handle, HandleFails, DeadLetter, DeadLetterFails, CommitMessages, CommitFails,
              group, TypeOK
<1>5. dead' \subseteq 1 .. Len(log) /\ abandoned' \subseteq 1 .. Len(log)
  BY <1>1 DEF Handle, HandleFails, DeadLetter, DeadLetterFails, CommitMessages, CommitFails, TypeOK
<1>6. consumed' \subseteq Events /\ confirmed' \subseteq Events
  <2>1. CASE UNCHANGED catalog
    BY <2>1 DEF catalog, TypeOK
  <2>2. CASE pc[m] = "handle" /\ ConfirmConsumed(log[cur[m]])
    BY <2>2, TypeConfirm DEF EventInHand
  <2> QED  BY <2>1, <2>2 DEF Handle, HandleFails, DeadLetter, DeadLetterFails, CommitMessages,
                             CommitFails
<1>7. TypeOK'
  BY <1>1, <1>3, <1>4, <1>5, <1>6 DEF TypeOK
<1>8. ASSUME NEW n \in Members, pc'[n] = "handle" PROVE pc[n] = "handle" /\ cur'[n] = cur[n]
  <2>1. CASE Goto(m, "commit") \/ Goto(m, "deadletter")
    BY <1>8, <2>1 DEF Goto, TypeOK
  <2>2. CASE Forget(m)
    BY <1>8, <2>2 DEF Forget, TypeOK
  <2> QED  BY <1>2, <1>8, <2>1, <2>2
<1> QED  BY <1>1, <1>7, <1>8 DEF EventInHand

LEMMA TypeStep == TypeOK /\ EventInHand /\ [Next]_vars => TypeOK' /\ EventInHand'
<1> SUFFICES ASSUME TypeOK, EventInHand, [Next]_vars PROVE TypeOK' /\ EventInHand'
  OBVIOUS
<1>1. ASSUME NEW e \in Events, ConfirmExpired(e) PROVE TypeOK' /\ EventInHand'
  BY <1>1 DEF ConfirmExpired, TypeOK, EventInHand, group, run
<1>2. CASE UNCHANGED vars
  BY <1>2 DEF vars, group, run, catalog, TypeOK, EventInHand
<1> QED  BY <1>1, <1>2, TypeProduce, TypeGroup, TypeFetch, TypeMessage DEF Next, Run

--------------------------------------------------------------------------------
(* What is resolved stays resolved. *)

LEMMA Growth ==
  ASSUME TypeOK, EventInHand, [Next]_vars
  PROVE  /\ Len(log) <= Len(log')
         /\ \A i \in 1 .. Len(log) : log'[i] = log[i]
         /\ dead \subseteq dead' /\ abandoned \subseteq abandoned' /\ consumed \subseteq consumed'
<1> Len(log) \in Nat
  BY DEF TypeOK
<1>1. ASSUME NEW x \in Messages, Produce(x)
      PROVE  /\ Len(log) <= Len(log')
             /\ \A i \in 1 .. Len(log) : log'[i] = log[i]
             /\ UNCHANGED <<dead, abandoned, consumed>>
  BY <1>1 DEF Produce, TypeOK, catalog
<1>2. ASSUME NEW m \in Members, Run(m)
      PROVE  /\ UNCHANGED log
             /\ dead \subseteq dead' /\ abandoned \subseteq abandoned' /\ consumed \subseteq consumed'
  BY <1>2 DEF Run, Fetch, Handle, HandleFails, DeadLetter, DeadLetterFails, CommitMessages,
              CommitFails, ConfirmConsumed, catalog
<1>3. ASSUME \/ \E e \in Events : ConfirmExpired(e)
             \/ Revoke
             \/ \E m \in Members : Assign(m) \/ Crash(m)
             \/ UNCHANGED vars
      PROVE  UNCHANGED <<log, dead, abandoned, consumed>>
  BY <1>3 DEF ConfirmExpired, Revoke, Assign, Crash, vars, catalog
<1> QED  BY <1>1, <1>2, <1>3 DEF Next

LEMMA ResolvedStays ==
  ASSUME TypeOK, EventInHand, [Next]_vars, NEW i \in 1 .. Len(log)
  PROVE  i \in 1 .. Len(log') /\ (Handled(i) => Handled(i)') /\ (Resolved(i) => Resolved(i)')
<1>1. Len(log) \in Nat /\ Len(log') \in Nat
  <2>1. log \in Seq(Messages)
    BY DEF TypeOK
  <2>2. log' \in Seq(Messages)
    BY TypeStep DEF TypeOK
  <2> QED  BY <2>1, <2>2
<1>2. i \in 1 .. Len(log')
  BY <1>1, Growth
<1>3. Handled(i) => Handled(i)'
  BY Growth DEF Handled
<1> QED  BY <1>2, <1>3, Growth DEF Resolved

\* The message in hand is handled before its offset is committed.
LEMMA CommitsStep == ConsumerInv /\ [Next]_vars => CommitsHandled'
<1> SUFFICES ASSUME ConsumerInv, [Next]_vars, NEW n \in Members, pc'[n] = "commit"
             PROVE  Handled(cur[n])'
  BY DEF CommitsHandled
<1> USE DEF ConsumerInv
<1>1. ASSUME pc[n] = "commit", cur'[n] = cur[n] PROVE Handled(cur[n])'
  <2>1. cur[n] \in 1 .. Len(log) /\ Handled(cur[n])
    BY <1>1, InHand DEF CommitsHandled
  <2>2. Handled(cur[n]) => (cur[n] \in dead' \/ log'[cur[n]] \in consumed')
    BY <2>1, Growth DEF Handled
  <2> QED  BY <1>1, <2>1, <2>2 DEF Handled
<1>2. ASSUME NEW m \in Members, Goto(m, "commit") \/ Goto(m, "deadletter") \/ Forget(m), m # n
      PROVE  pc[n] = "commit" /\ cur'[n] = cur[n]
  BY <1>2 DEF Goto, Forget, TypeOK
<1>3. ASSUME Forget(n) \/ Goto(n, "deadletter") PROVE FALSE
  BY <1>3 DEF Goto, Forget, TypeOK
<1>4. CASE Handle(n)
  BY <1>4, InHand DEF Handle, ConfirmConsumed, Goto, Handled
<1>5. CASE DeadLetter(n)
  BY <1>5, InHand DEF DeadLetter, Goto, Handled
<1>6. CASE HandleFails(n) \/ DeadLetterFails(n) \/ CommitMessages(n) \/ CommitFails(n)
  <2>1. UNCHANGED <<pc, cur>>
    BY <1>3, <1>6 DEF HandleFails, DeadLetterFails, CommitMessages, CommitFails, RetryOr
  <2> QED  BY <1>1, <2>1
<1>7. ASSUME NEW m \in Members, m # n,
             \/ Handle(m) \/ HandleFails(m) \/ DeadLetter(m) \/ DeadLetterFails(m)
             \/ CommitMessages(m) \/ CommitFails(m)
      PROVE  Handled(cur[n])'
  <2>1. \/ Goto(m, "commit") \/ Goto(m, "deadletter") \/ Forget(m)
        \/ UNCHANGED <<pc, cur>>
    BY <1>7 DEF Handle, HandleFails, DeadLetter, DeadLetterFails, CommitMessages, CommitFails, RetryOr
  <2> QED  BY <1>1, <1>2, <1>7, <2>1
<1>8. ASSUME NEW m \in Members, Fetch(m) \/ Crash(m) PROVE Handled(cur[n])'
  <2>1. pc[n] = "commit" /\ cur'[n] = cur[n]
    BY <1>8 DEF Fetch, Crash, TypeOK
  <2> QED  BY <1>1, <2>1
<1>9. CASE UNCHANGED run
  BY <1>1, <1>9 DEF run
<1>10. ASSUME \/ \E x \in Messages : Produce(x)
              \/ \E e \in Events : ConfirmExpired(e)
              \/ Revoke
              \/ \E m \in Members : Assign(m)
              \/ UNCHANGED vars
       PROVE  UNCHANGED run
  BY <1>10 DEF Produce, ConfirmExpired, Revoke, Assign, vars
<1> QED  BY <1>4, <1>5, <1>6, <1>7, <1>8, <1>9, <1>10 DEF Next, Run

\* Consumption and confirmation are one transaction.
LEMMA ConsumedStep == ConsumerInv /\ [Next]_vars => ConsumedIsConfirmed'
<1> SUFFICES ASSUME ConsumerInv, [Next]_vars PROVE ConsumedIsConfirmed'
  OBVIOUS
<1> USE DEF ConsumerInv, ConsumedIsConfirmed
<1>1. ASSUME NEW e \in Events, ConfirmConsumed(e) PROVE ConsumedIsConfirmed'
  BY <1>1 DEF ConfirmConsumed
<1>2. ASSUME NEW m \in Members, Run(m) PROVE ConsumedIsConfirmed'
  <2>1. CASE UNCHANGED catalog
    BY <2>1 DEF catalog
  <2>2. CASE pc[m] = "handle" /\ ConfirmConsumed(log[cur[m]])
    BY <1>1, <2>2 DEF EventInHand
  <2> QED  BY <1>2, <2>1, <2>2 DEF Run, Fetch, Handle, HandleFails, DeadLetter, DeadLetterFails,
                                  CommitMessages, CommitFails
<1>3. ASSUME NEW e \in Events, ConfirmExpired(e) PROVE ConsumedIsConfirmed'
  BY <1>3 DEF ConfirmExpired
<1>4. ASSUME \/ \E x \in Messages : Produce(x)
             \/ Revoke
             \/ \E m \in Members : Assign(m) \/ Crash(m)
             \/ UNCHANGED vars
      PROVE  UNCHANGED catalog
  BY <1>4 DEF Produce, Revoke, Assign, Crash, vars
<1>5. UNCHANGED catalog => ConsumedIsConfirmed'
  BY DEF catalog
<1> QED  BY <1>2, <1>3, <1>4, <1>5 DEF Next

\* Only CommitMessages moves the committed offset, to a handled message with nothing
\* unresolved before it.
LEMMA SkippedStep == ConsumerInv /\ [Next]_vars => SkippedWasAbandoned'
<1> SUFFICES ASSUME ConsumerInv, [Next]_vars PROVE \A i \in 1 .. committed' : Resolved(i)'
  BY DEF SkippedWasAbandoned, Resolved
<1> USE DEF ConsumerInv
<1>1. CASE UNCHANGED committed
  <2>1. \A i \in 1 .. committed : i \in 1 .. Len(log) /\ Resolved(i)
    BY DEF SkippedWasAbandoned, Resolved, TypeOK
  <2> QED  BY <1>1, <2>1, ResolvedStays
<1>2. ASSUME NEW m \in Members, CommitMessages(m) PROVE \A i \in 1 .. committed' : Resolved(i)'
  <2>1. committed' = cur[m] /\ pc[m] = "commit" /\ cur[m] \in 1 .. Len(log) /\ Len(log) \in Nat
    BY <1>2, InHand DEF CommitMessages, TypeOK
  <2>2. \A i \in 1 .. cur[m] : i \in 1 .. Len(log) /\ (i < cur[m] \/ i = cur[m])
    BY <2>1
  <2>3. \A i \in 1 .. cur[m] : i \in 1 .. Len(log) /\ Resolved(i)
    BY <2>1, <2>2 DEF CommitsHandled, HandInv, Resolved
  <2> QED  BY <2>1, <2>3, ResolvedStays
<1>3. ASSUME NEW m \in Members,
             \/ Fetch(m) \/ Handle(m) \/ HandleFails(m) \/ DeadLetter(m) \/ DeadLetterFails(m)
             \/ CommitFails(m)
      PROVE  UNCHANGED committed
  BY <1>3 DEF Fetch, Handle, HandleFails, DeadLetter, DeadLetterFails, CommitFails, group
<1>4. ASSUME \/ \E x \in Messages : Produce(x)
             \/ \E e \in Events : ConfirmExpired(e)
             \/ Revoke
             \/ \E m \in Members : Assign(m) \/ Crash(m)
             \/ UNCHANGED vars
      PROVE  UNCHANGED committed
  BY <1>4 DEF Produce, ConfirmExpired, Revoke, Assign, Crash, vars, group
<1> QED  BY <1>1, <1>2, <1>3, <1>4 DEF Next, Run

\* What a replica n has fetched: as before the step, nothing in hand but a resolved
\* message, a new position, or the next message.
LEMMA HandEffects ==
  ASSUME ConsumerInv, [Next]_vars, NEW n \in Members
  PROVE  \/ position'[n] = position[n] /\ cur'[n] = cur[n]
         \/ /\ position'[n] = position[n] /\ cur'[n] = 0
            /\ cur[n] \in 1 .. Len(log) /\ (Resolved(cur[n]) \/ cur[n] \in abandoned')
         \/ position'[n] = committed /\ cur'[n] = cur[n]
         \/ position'[n] = 0 /\ cur'[n] = 0
         \/ /\ cur[n] = 0 /\ position'[n] = position[n] + 1 /\ cur'[n] = position[n] + 1
<1> USE DEF ConsumerInv
<1>1. ASSUME NEW m \in Members, Fetch(m)
      PROVE \/ position'[n] = position[n] /\ cur'[n] = cur[n]
            \/ cur[n] = 0 /\ position'[n] = position[n] + 1 /\ cur'[n] = position[n] + 1
  BY <1>1 DEF Fetch, TypeOK
<1>2. ASSUME NEW m \in Members, Crash(m)
      PROVE \/ position'[n] = position[n] /\ cur'[n] = cur[n]
            \/ position'[n] = 0 /\ cur'[n] = 0
  BY <1>2 DEF Crash, TypeOK
<1>3. ASSUME NEW m \in Members, Assign(m)
      PROVE \/ position'[n] = position[n] /\ cur'[n] = cur[n]
            \/ position'[n] = committed /\ cur'[n] = cur[n]
  BY <1>3 DEF Assign, TypeOK, run
<1>4. ASSUME \/ \E x \in Messages : Produce(x)
             \/ \E e \in Events : ConfirmExpired(e)
             \/ Revoke
             \/ UNCHANGED vars
      PROVE  UNCHANGED <<position, cur>>
  BY <1>4 DEF Produce, ConfirmExpired, Revoke, vars, group, run
<1>5. ASSUME NEW m \in Members, Handle(m) \/ DeadLetter(m) \/ HandleFails(m)
      PROVE  UNCHANGED <<position, cur>>
  BY <1>5 DEF Handle, DeadLetter, HandleFails, RetryOr, Goto, group
<1>6. ASSUME NEW m \in Members, DeadLetterFails(m) \/ CommitMessages(m) \/ CommitFails(m)
      PROVE  \/ UNCHANGED <<position, cur>>
             \/ /\ UNCHANGED position /\ cur' = [cur EXCEPT ![m] = 0]
                /\ cur[m] \in 1 .. Len(log) /\ (Resolved(cur[m]) \/ cur[m] \in abandoned')
  <2>1. pc[m] # "fetch" /\ UNCHANGED position
    BY <1>6 DEF DeadLetterFails, CommitMessages, CommitFails, group
  <2>2. cur[m] \in 1 .. Len(log)
    BY <2>1, InHand
  <2>3. CASE DeadLetterFails(m)
    BY <2>1, <2>2, <2>3 DEF DeadLetterFails, RetryOr, Forget
  <2>4. CASE CommitMessages(m) \/ CommitFails(m)
    BY <2>1, <2>2, <2>4 DEF CommitMessages, CommitFails, Forget, CommitsHandled, Resolved
  <2> QED  BY <1>6, <2>3, <2>4
<1>7. ASSUME NEW m \in Members, DeadLetterFails(m) \/ CommitMessages(m) \/ CommitFails(m)
      PROVE  \/ position'[n] = position[n] /\ cur'[n] = cur[n]
             \/ /\ position'[n] = position[n] /\ cur'[n] = 0
                /\ cur[n] \in 1 .. Len(log) /\ (Resolved(cur[n]) \/ cur[n] \in abandoned')
  BY <1>6, <1>7 DEF TypeOK
<1> QED  BY <1>1, <1>2, <1>3, <1>4, <1>5, <1>7 DEF Next, Run

LEMMA HandStep == ConsumerInv /\ [Next]_vars => HandInv'
<1> SUFFICES ASSUME ConsumerInv, [Next]_vars, NEW n \in Members
             PROVE  /\ \A i \in 1 .. position'[n] : Resolved(i)' \/ i = cur'[n]
                    /\ \A i \in 1 .. Len(log') : i < cur'[n] => Resolved(i)'
  BY DEF HandInv
<1> USE DEF ConsumerInv
<1>1. /\ Len(log) \in Nat /\ committed \in 0 .. Len(log)
      /\ position[n] \in 0 .. Len(log) /\ cur[n] \in 0 .. Len(log)
  BY DEF TypeOK
<1>2. \A i \in 1 .. Len(log) : Resolved(i) => Resolved(i)'
  BY ResolvedStays
<1>3. \A i \in 1 .. Len(log) : i \in abandoned' => Resolved(i)'
  BY DEF Resolved
<1>4. \A i \in 1 .. position[n] : i \in 1 .. Len(log) /\ (Resolved(i) \/ i = cur[n])
  BY <1>1 DEF HandInv
<1>5. \A i \in 1 .. Len(log) : i < cur[n] => Resolved(i)
  BY DEF HandInv
<1>6. \A i \in 1 .. committed : i \in 1 .. Len(log) /\ Resolved(i)
  BY <1>1 DEF SkippedWasAbandoned, Resolved
<1>7. Len(log') \in Nat /\ Len(log) <= Len(log')
  <2>1. TypeOK'
    BY TypeStep
  <2>2. Len(log') \in Nat
    BY <2>1 DEF TypeOK
  <2> QED  BY <2>2, Growth
<1>8. \A i \in 1 .. Len(log') : i < cur[n] => Resolved(i)'
  BY <1>1, <1>2, <1>5, <1>7
<1>9. CASE position'[n] = position[n] /\ cur'[n] = cur[n]
  BY <1>2, <1>4, <1>8, <1>9
<1>10. CASE /\ position'[n] = position[n] /\ cur'[n] = 0
            /\ cur[n] \in 1 .. Len(log) /\ (Resolved(cur[n]) \/ cur[n] \in abandoned')
  BY <1>2, <1>3, <1>4, <1>7, <1>10
<1>11. CASE position'[n] = committed /\ cur'[n] = cur[n]
  BY <1>2, <1>6, <1>8, <1>11
<1>12. CASE position'[n] = 0 /\ cur'[n] = 0
  BY <1>7, <1>12
<1>13. CASE cur[n] = 0 /\ position'[n] = position[n] + 1 /\ cur'[n] = position[n] + 1
  <2>1. \A i \in 1 .. position[n] : Resolved(i)'
    BY <1>1, <1>2, <1>4, <1>13
  <2>2. \A i \in 1 .. position[n] + 1 : i \in 1 .. position[n] \/ i = position[n] + 1
    BY <1>1
  <2>3. \A i \in 1 .. Len(log') : i < position[n] + 1 => i \in 1 .. position[n]
    BY <1>1, <1>7
  <2> QED  BY <1>13, <2>1, <2>2, <2>3
<1> QED  BY <1>9, <1>10, <1>11, <1>12, <1>13, HandEffects

--------------------------------------------------------------------------------
(* Theorems *)

\* The inductive invariant of the replicas that share one partition.
THEOREM ConsumerInvariant == Spec => []ConsumerInv
<1>1. Init => ConsumerInv
  <2> SUFFICES ASSUME Init PROVE ConsumerInv
    OBVIOUS
  <2>1. /\ log = <<>> /\ committed = 0 /\ consumed = {}
        /\ \A m \in Members : pc[m] = "fetch" /\ position[m] = 0 /\ cur[m] = 0
    BY DEF Init
  <2>2. EventInHand /\ CommitsHandled /\ SkippedWasAbandoned /\ ConsumedIsConfirmed
    BY <2>1 DEF EventInHand, CommitsHandled, SkippedWasAbandoned, ConsumedIsConfirmed
  <2>3. Len(log) = 0
    BY <2>1
  <2>4. HandInv
    <3> SUFFICES ASSUME NEW m \in Members
                 PROVE  /\ \A i \in 1 .. position[m] : Resolved(i) \/ i = cur[m]
                        /\ \A i \in 1 .. Len(log) : i < cur[m] => Resolved(i)
      BY DEF HandInv
    <3>1. 1 .. 0 = {}
      OBVIOUS
    <3>2. position[m] = 0
      BY <2>1
    <3> QED  BY <3>1, <3>2, <2>3
  <2> QED  BY <2>2, <2>4, TypeInit DEF ConsumerInv
<1>2. ConsumerInv /\ [Next]_vars => ConsumerInv'
  BY TypeStep, CommitsStep, SkippedStep, ConsumedStep, HandStep DEF ConsumerInv
<1> QED  BY <1>1, <1>2, PTL DEF Spec

\* Every variable keeps its type, with any number of messages, replicas and attempts.
THEOREM ConsumerTyping == Spec => []TypeOK
BY ConsumerInvariant, PTL DEF ConsumerInv

\* Run commits only messages that were confirmed or dead-lettered.
THEOREM OnlyHandledIsCommitted == Spec => []CommitsHandled
BY ConsumerInvariant, PTL DEF ConsumerInv

\* Whatever crashes, rebalances and late commits do, the committed offset passes over
\* an unhandled message only when deadLetterAndCommit gave it up.
THEOREM OnlyAbandonedIsSkipped == Spec => []SkippedWasAbandoned
BY ConsumerInvariant, PTL DEF ConsumerInv

\* ConfirmConsumed never takes an event for a duplicate whose reservation it did not confirm.
THEOREM DuplicatesHadTheirEffect == Spec => []ConsumedIsConfirmed
BY ConsumerInvariant, PTL DEF ConsumerInv

================================================================================
