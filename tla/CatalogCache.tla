----------------------------- MODULE CatalogCache -----------------------------
(***************************************************************************)
(* product-service: the detail cache and its double delete.                *)
(*                                                                         *)
(* GetProduct reads through a cache.  A reader that loaded a product before*)
(* an update may put it in the cache after the update has cleared its keys.*)
(* So an update also leaves, in its transaction, one task per key to       *)
(* delete it again after a delay, which workers lease and execute with     *)
(* retries.  Updates are ReserveStock, ReleaseReservation, and             *)
(* UpdateProductDetail (which main builds but no RPC calls yet).  The      *)
(* releases of the expiry worker leave tasks that are due at once, and     *)
(* delete nothing themselves.                                              *)
(*                                                                         *)
(* That works as long as a load reaches the cache, and the transaction its *)
(* commit, within the delay.  The model lets both take any time and marks  *)
(* those that take more than ReadTime and TxTime.                          *)
(*                                                                         *)
(* Time is counted in ticks: due[t] is what is left until execute_at.  How *)
(* long a lease lasts does not matter here: it may run out at any time.    *)
(* The lease's timestamp tells leases apart as the worker's name does.     *)
(*                                                                         *)
(* One product.  Its keys are that of the whole product and one per SKU.   *)
(* Left out: what a detail holds beyond its version, the tasks' ids and    *)
(* error texts.  Redis may drop an entry whenever it likes, not only after *)
(* a minute.                                                               *)
(***************************************************************************)
EXTENDS Integers, Sequences, FiniteSets, SharedNames

CONSTANTS
  CacheKeys,
  CacheReaders,    \* calls of GetProduct, one after the other
  KeyOf,           \* ... the key each reads
  Updates,         \* transactions that change the product or its stock
  KeysOf,          \* ... the keys whose entries each makes stale
  ExpiryReleases,  \* ... those of ReleaseExpired
  CacheWorkers,
  Delay,           \* delayedDeleteDelay
  ReadTime,        \* a reader that is no slower is not late
  TxTime,          \* ... nor is such an update
  TaskBatch,       \* BatchSize
  TaskRetries,     \* MaxRetries
  RetryBase,
  RetryMax

ASSUME CacheConstants ==
  /\ KeyOf \in [CacheReaders -> CacheKeys]
  /\ None \notin Updates \cup CacheWorkers
  /\ IsFiniteSet(Updates) /\ IsFiniteSet(CacheKeys)
  /\ KeysOf \in [Updates -> SUBSET CacheKeys \ {{}}]
  /\ ExpiryReleases \subseteq Updates
  /\ Delay \in Nat \ {0}
  /\ ReadTime \in Nat
  /\ TxTime \in Nat
  /\ ReadTime + TxTime < Delay
  /\ TaskBatch \in Nat \ {0}
  /\ TaskRetries \in Nat \ {0}
  /\ RetryBase \in Nat \ {0}
  /\ RetryMax \in Nat
  /\ RetryBase <= RetryMax

VARIABLES
  committed,   \* the updates that are committed, in their order
  entry,       \* Redis: the number of updates a cached detail has seen, or one of two:
  slowEntry,   \* keys whose entry a slow reader has set
  reading,     \* where a reader is
  loaded,      \* what it has loaded
  readAge,     \* for how long, as far as it matters
  updating,    \* where an update is
  toDelete,    \* the keys it has still to delete
  updateAge,   \* how long its transaction is taking, as far as it matters
  slowUpdates, \* the updates that took longer
  task,        \* cache_invalidation_tasks: status, holder, retries, by update and key
  leased,      \* tasks whose lease has not run out
  due,         \* time until execute_at
  working,     \* where a worker is
  inBatch      \* the tasks of its batch it has not finished

NoEntry == -1
Unreadable == -2  \* a value that GetProduct does not accept

cached == <<entry, slowEntry>>
readerVars == <<reading, loaded, readAge>>
updateVars == <<updating, toDelete, updateAge, slowUpdates>>
taskVars == <<task, leased, due>>
workerVars == <<working, inBatch>>
cacheVars == <<committed, cached, readerVars, updateVars, taskVars, workerVars>>

Tasks == Updates \X CacheKeys

CacheVersion == Len(committed)

\* cacheInvalidationRetryDelay
RetryDelay(retries) ==
  LET delay[i \in 1 .. retries] ==
        IF i = 1 THEN RetryBase
        ELSE IF 2 * delay[i - 1] >= RetryMax THEN RetryMax ELSE 2 * delay[i - 1]
  IN delay[retries]

MaxDue == IF Delay < RetryMax THEN RetryMax ELSE Delay

CacheTypeOK ==
  /\ committed \in Seq(Updates)
  /\ Len(committed) <= Cardinality(Updates)
  /\ entry \in [CacheKeys -> (0 .. CacheVersion) \cup {NoEntry, Unreadable}]
  /\ slowEntry \subseteq CacheKeys
  /\ reading \in [CacheReaders -> {"idle", "drop", "load", "set"}]
  /\ loaded \in [CacheReaders -> 0 .. CacheVersion]
  /\ readAge \in [CacheReaders -> 0 .. ReadTime + 1]
  /\ updating \in [Updates -> {"idle", "tx", "delete", "done"}]
  /\ toDelete \in [Updates -> SUBSET CacheKeys]
  /\ updateAge \in [Updates -> 0 .. TxTime + 1]
  /\ slowUpdates \subseteq Updates
  /\ task \in [Tasks -> [status : {"none", "PENDING", "RUNNING", "DONE", "DEAD"},
                         holder : CacheWorkers \cup {None}, retries : 0 .. TaskRetries]]
  /\ leased \subseteq Tasks
  /\ due \in [Tasks -> 0 .. MaxDue]
  /\ working \in [CacheWorkers -> {"idle", "delete", "done", "failed"}]
  /\ inBatch \in [CacheWorkers -> SUBSET Tasks]

NoTask == [status |-> "none", holder |-> None, retries |-> 0]

CacheInit ==
  /\ committed = <<>>
  /\ entry = [k \in CacheKeys |-> Unreadable]
  /\ slowEntry = {}
  /\ reading = [q \in CacheReaders |-> "idle"]
  /\ loaded = [q \in CacheReaders |-> 0]
  /\ readAge = [q \in CacheReaders |-> 0]
  /\ updating = [u \in Updates |-> "idle"]
  /\ toDelete = [u \in Updates |-> {}]
  /\ updateAge = [u \in Updates |-> 0]
  /\ slowUpdates = {}
  /\ task = [t \in Tasks |-> NoTask]
  /\ leased = {}
  /\ due = [t \in Tasks |-> 0]
  /\ working = [w \in CacheWorkers |-> "idle"]
  /\ inBatch = [w \in CacheWorkers |-> {}]

--------------------------------------------------------------------------------
(* GetProduct.                                                                *)

Read(q, from, to) == reading[q] = from /\ reading' = [reading EXCEPT ![q] = to]

Clear(k) ==
  /\ entry' = [entry EXCEPT ![k] = NoEntry]
  /\ slowEntry' = slowEntry \ {k}

\* A detail that is there is the answer; a value that is none is deleted first.  An
\* error of the cache is a miss.
CacheGet(q) ==
  /\ Read(q, "idle", IF entry[KeyOf[q]] = Unreadable THEN "drop" ELSE "load")
  /\ UNCHANGED <<committed, cached, loaded, readAge, updateVars, taskVars, workerVars>>

CacheDrop(q) ==
  /\ Read(q, "drop", "load")
  /\ Clear(KeyOf[q]) \/ UNCHANGED cached
  /\ UNCHANGED <<committed, loaded, readAge, updateVars, taskVars, workerVars>>

\* The product is read by several statements; what the first one sees is the oldest.
LoadProduct(q) ==
  /\ \/ /\ Read(q, "load", "set")
        /\ loaded' = [loaded EXCEPT ![q] = CacheVersion]
        /\ readAge' = [readAge EXCEPT ![q] = 0]
     \/ Read(q, "load", "idle") /\ UNCHANGED <<loaded, readAge>>
  /\ UNCHANGED <<committed, cached, updateVars, taskVars, workerVars>>

\* Set, of which GetProduct ignores the error.
CacheSet(q) ==
  /\ Read(q, "set", "idle")
  /\ \/ /\ entry' = [entry EXCEPT ![KeyOf[q]] = loaded[q]]
        /\ slowEntry' = IF readAge[q] > ReadTime THEN slowEntry \cup {KeyOf[q]}
                        ELSE slowEntry \ {KeyOf[q]}
     \/ UNCHANGED cached
  /\ UNCHANGED <<committed, loaded, readAge, updateVars, taskVars, workerVars>>

--------------------------------------------------------------------------------
(* Updates.                                                                   *)

\* execute_at is chosen before the transaction begins.
BeginUpdate(u) ==
  /\ updating[u] = "idle"
  /\ updating' = [updating EXCEPT ![u] = "tx"]
  /\ updateAge' = [updateAge EXCEPT ![u] = 0]
  /\ UNCHANGED <<committed, cached, readerVars, toDelete, slowUpdates, taskVars, workerVars>>

\* Variants named ...Bug carry a slip such code invites; they show which property
\* notices it.  The second deletion is due at once.
ExecuteAtBug(u) == 0

ExecuteAt(u) ==
  IF u \in ExpiryReleases \/ updateAge[u] > Delay THEN 0 ELSE Delay - updateAge[u]

TasksOf(u) == {u} \X KeysOf[u]

\* The product and one task per key, in one transaction.  The keys are deleted next,
\* unless the commit seems to have failed.
CommitUpdate(u) ==
  /\ updating[u] = "tx"
  /\ committed' = Append(committed, u)
  /\ slowUpdates' = IF updateAge[u] > TxTime THEN slowUpdates \cup {u} ELSE slowUpdates
  /\ task' = [t \in Tasks |-> IF t \in TasksOf(u) THEN [NoTask EXCEPT !.status = "PENDING"]
                              ELSE task[t]]
  /\ due' = [t \in Tasks |-> IF t \in TasksOf(u) THEN ExecuteAt(u) ELSE due[t]]
  /\ \/ /\ updating' = [updating EXCEPT ![u] = "done"]
        /\ UNCHANGED toDelete
     \/ /\ u \notin ExpiryReleases
        /\ updating' = [updating EXCEPT ![u] = "delete"]
        /\ toDelete' = [toDelete EXCEPT ![u] = KeysOf[u]]
  /\ UNCHANGED <<cached, readerVars, updateAge, leased, workerVars>>

UpdateFails(u) ==
  /\ updating[u] = "tx"
  /\ updating' = [updating EXCEPT ![u] = "done"]
  /\ UNCHANGED <<committed, cached, readerVars, toDelete, updateAge, slowUpdates, taskVars,
                 workerVars>>

\* The first deletion of each key, of which the error is ignored.
FirstDelete(u, k) ==
  /\ updating[u] = "delete"
  /\ k \in toDelete[u]
  /\ toDelete' = [toDelete EXCEPT ![u] = @ \ {k}]
  /\ updating' = [updating EXCEPT ![u] = IF toDelete[u] = {k} THEN "done" ELSE "delete"]
  /\ Clear(k) \/ UNCHANGED cached
  /\ UNCHANGED <<committed, readerVars, updateAge, slowUpdates, taskVars, workerVars>>

--------------------------------------------------------------------------------
(* The worker.                                                                *)

DueTask(t) ==
  \/ task[t].status = "PENDING" /\ due[t] = 0
  \/ task[t].status = "RUNNING" /\ t \notin leased

\* ClaimDue: a batch of what is due and not locked by another claim.
ClaimDue(w) ==
  /\ working[w] = "idle"
  /\ \E b \in SUBSET {t \in Tasks : DueTask(t)} :
       /\ Cardinality(b) \in 1 .. TaskBatch
       /\ inBatch' = [inBatch EXCEPT ![w] = b]
       /\ task' = [t \in Tasks |->
                     IF t \in b THEN [task[t] EXCEPT !.status = "RUNNING", !.holder = w] ELSE task[t]]
       /\ leased' = leased \cup b
  /\ working' = [working EXCEPT ![w] = "delete"]
  /\ UNCHANGED <<committed, cached, readerVars, updateVars, due>>

\* Which of its tasks a worker is at.
NextTask(w) == CHOOSE t \in inBatch[w] : TRUE

\* The deletion of a key succeeds, or fails and may have taken place all the same.
DeleteKey(w) ==
  /\ working[w] = "delete"
  /\ \/ Clear(NextTask(w)[2]) /\ working' = [working EXCEPT ![w] = "done"]
     \/ /\ Clear(NextTask(w)[2]) \/ UNCHANGED cached
        /\ working' = [working EXCEPT ![w] = "failed"]
  /\ UNCHANGED <<committed, readerVars, updateVars, taskVars, inBatch>>

\* WHERE id = ? AND status = 'RUNNING' AND locked_at = ?
OwnsTask(w, t) == task[t].status = "RUNNING" /\ task[t].holder = w

NextOrIdle(w, t) ==
  /\ inBatch' = [inBatch EXCEPT ![w] = @ \ {t}]
  /\ working' = [working EXCEPT ![w] = IF inBatch[w] = {t} THEN "idle" ELSE "delete"]

MarkTask(w, t, status, retries) ==
  /\ OwnsTask(w, t)
  /\ task' = [task EXCEPT ![t] = [status |-> status, holder |-> None, retries |-> retries]]
  /\ leased' = leased \ {t}
  /\ NextOrIdle(w, t)
  /\ UNCHANGED <<committed, cached, readerVars, updateVars>>

MarkDone(w) ==
  LET t == NextTask(w) IN
  /\ working[w] = "done"
  /\ MarkTask(w, t, "DONE", task[t].retries)
  /\ UNCHANGED due

\* MarkFailure: another try later, or DEAD after the last.
MarkFailure(w) ==
  LET t == NextTask(w)
      retries == task[t].retries + 1 IN
  /\ working[w] = "failed"
  /\ \/ /\ retries < TaskRetries
        /\ MarkTask(w, t, "PENDING", retries)
        /\ due' = [due EXCEPT ![t] = RetryDelay(retries)]
     \/ /\ retries >= TaskRetries
        /\ MarkTask(w, t, "DEAD", retries)
        /\ UNCHANGED due

\* The pass ends: the lease is another's, the database failed, or the process crashed.
\* What is left of the batch stays leased.
EndBatch(w) ==
  /\ working[w] # "idle"
  /\ working' = [working EXCEPT ![w] = "idle"]
  /\ inBatch' = [inBatch EXCEPT ![w] = {}]
  /\ UNCHANGED <<committed, cached, readerVars, updateVars, taskVars>>

--------------------------------------------------------------------------------
(* Time.                                                                      *)

LeaseEnds(t) ==
  /\ t \in leased
  /\ leased' = leased \ {t}
  /\ UNCHANGED <<committed, cached, readerVars, updateVars, task, due, workerVars>>

EntryExpires(k) ==
  /\ entry[k] # NoEntry
  /\ Clear(k)
  /\ UNCHANGED <<committed, readerVars, updateVars, taskVars, workerVars>>

Later(age, limit) == IF age > limit THEN age ELSE age + 1
Sooner(time) == IF time = 0 THEN 0 ELSE time - 1

CacheTick ==
  /\ readAge' = [q \in CacheReaders |->
                   IF reading[q] = "set" THEN Later(readAge[q], ReadTime) ELSE readAge[q]]
  /\ updateAge' = [u \in Updates |->
                     IF updating[u] = "tx" THEN Later(updateAge[u], TxTime) ELSE updateAge[u]]
  /\ due' = [t \in Tasks |-> Sooner(due[t])]
  /\ UNCHANGED <<committed, cached, reading, loaded, updating, toDelete, slowUpdates, task,
                 leased, workerVars>>

--------------------------------------------------------------------------------

GetProduct(q) == CacheGet(q) \/ CacheDrop(q) \/ LoadProduct(q) \/ CacheSet(q)

Update(u) ==
  \/ BeginUpdate(u)
  \/ CommitUpdate(u)
  \/ UpdateFails(u)
  \/ \E k \in CacheKeys : FirstDelete(u, k)

CacheWorker(w) == ClaimDue(w) \/ DeleteKey(w) \/ MarkDone(w) \/ MarkFailure(w) \/ EndBatch(w)

CacheNext ==
  \/ \E q \in CacheReaders : GetProduct(q)
  \/ \E u \in Updates : Update(u)
  \/ \E w \in CacheWorkers : CacheWorker(w)
  \/ \E t \in Tasks : LeaseEnds(t)
  \/ \E k \in CacheKeys : EntryExpires(k)
  \/ CacheTick

CacheSpec == CacheInit /\ [][CacheNext]_cacheVars

--------------------------------------------------------------------------------
(* Properties                                                                *)

Stale(k, i) ==
  /\ 0 <= entry[k] /\ entry[k] < i
  /\ k \in KeysOf[committed[i]]

WithinDelay(k, i) ==
  /\ k \notin slowEntry
  /\ committed[i] \notin slowUpdates
  /\ task[<<committed[i], k>>].status # "DEAD"

DeletionIsDue(k, i) == task[<<committed[i], k>>].status \in {"PENDING", "RUNNING"}

\* A detail in the cache that an update has made stale will be deleted: the update's
\* task for its key is not executed yet.  But for readers and transactions that are too
\* slow for the delay, for tasks that are DEAD, and for the releases of the expiry
\* worker, no interleaving of readers, updates, first deletions, retries and lost leases
\* leaves a stale detail behind.
StaleIsDue ==
  \A k \in CacheKeys, i \in 1 .. CacheVersion :
    Stale(k, i) /\ WithinDelay(k, i) /\ committed[i] \notin ExpiryReleases => DeletionIsDue(k, i)

\* docs/architecture.md:126 promises the delayed second deletion for every write of what a
\* detail shows, stock included.  ReleaseExpired gives its tasks the time of its own pass,
\* so that a reader that is not slow at all may set what it loaded before the release.
ReleaseIsDeletedLater ==
  \A k \in CacheKeys, i \in 1 .. CacheVersion :
    Stale(k, i) /\ WithinDelay(k, i) /\ committed[i] \in ExpiryReleases => DeletionIsDue(k, i)

================================================================================
