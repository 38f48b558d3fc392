----------------------------- MODULE ServicesProofs -----------------------------
(***************************************************************************)
(* Proofs about the modules with one service or one aspect of it each, for *)
(* any number of callers, keys, documents and workers, and any delays.     *)
(*                                                                         *)
(* CatalogCache.  The argument is about time.  A reader that loaded before *)
(* an update and is not slow yet has less of its time left than the        *)
(* update's task has until it is due: when the task is claimed for the     *)
(* first time, every reader that could still set the stale detail is slow. *)
(* From then on a deletion that took place is final.                       *)
(*                                                                         *)
(* Retrieval.  Milvus forgets nothing, so that the filter of a search, and *)
(* not what Milvus was told of a vector, decides what can be found.        *)
(*                                                                         *)
(* Gateway.  A code that says that a call was refused is given only by a   *)
(* service that is through with it; all others leave open what was done.   *)
(*                                                                         *)
(* OrderRecords, EventContracts.  What is stored or sent passed a check at *)
(* least as strict as that of whoever reads it.                            *)
(*                                                                         *)
(* Processes.  The order in which a main opens is that of its steps, and   *)
(* closing is its reverse; and a lease that passes the checks of settings, *)
(* in the arithmetic of the machine, is as long as in that of the integers.*)
(*                                                                         *)
(* Users.  A transaction either has written every address of its user and  *)
(* locked the range against new ones, and then what it commits is what the *)
(* user has; or it writes one row that is not, or does not become, the     *)
(* default.  A step of one call leaves the locked rows of all others alone.*)
(***************************************************************************)
EXTENDS CatalogCache, Retrieval, Gateway, OrderRecords, EventContracts, Processes,
        Users, NumberTheorems, TLAPS

--------------------------------------------------------------------------------
(* CatalogCache                                                              *)

CacheTypes ==
  /\ committed \in Seq(Updates)
  /\ entry \in [CacheKeys -> Int]
  /\ DOMAIN reading = CacheReaders
  /\ loaded \in [CacheReaders -> Nat]
  /\ readAge \in [CacheReaders -> Nat]
  /\ DOMAIN updating = Updates
  /\ updateAge \in [Updates -> Nat]
  /\ DOMAIN task = Tasks
  /\ \A t \in Tasks : /\ DOMAIN task[t] = {"status", "holder", "retries"}
                      /\ task[t].status \in {"none", "PENDING", "RUNNING", "DONE", "DEAD"}
  /\ DOMAIN due = Tasks
  /\ DOMAIN working = CacheWorkers
  /\ DOMAIN inBatch = CacheWorkers

\* An update is committed once.
CommittedOnce == \A i \in 1 .. CacheVersion : updating[committed[i]] \in {"delete", "done"}

\* The update made this key stale, in time, and promises to delete it after the delay.
Promised(k, i) ==
  /\ k \in KeysOf[committed[i]]
  /\ committed[i] \notin slowUpdates
  /\ committed[i] \notin ExpiryReleases

TaskOf(k, i) == task[<<committed[i], k>>]

StaleAt(k, i) == 0 <= entry[k] /\ entry[k] < i /\ k \notin slowEntry

\* A reader that may set a detail that is stale.
MaySet(q, k, i) == reading[q] = "set" /\ KeyOf[q] = k /\ loaded[q] < i

\* It is slow, or will be before the task is due.
SlowBefore(q, k, i) ==
  \/ readAge[q] > ReadTime
  \/ /\ TaskOf(k, i).status = "PENDING"
     /\ due[<<committed[i], k>>] \in Nat
     /\ readAge[q] + due[<<committed[i], k>>] >= Delay - TxTime

\* A worker that has deleted the key and holds the task.
Deleted(w, k, i) ==
  /\ working[w] = "done"
  /\ NextTask(w) = <<committed[i], k>>
  /\ OwnsTask(w, <<committed[i], k>>)

Kept(k, i) ==
  /\ StaleAt(k, i) => TaskOf(k, i).status \in {"PENDING", "RUNNING", "DEAD"}
  /\ \A q \in CacheReaders : MaySet(q, k, i) => SlowBefore(q, k, i)
  /\ \A w \in CacheWorkers : Deleted(w, k, i) => ~StaleAt(k, i)

PromisesKept ==
  \A k \in CacheKeys, i \in 1 .. CacheVersion : Promised(k, i) => Kept(k, i)

CacheInv == CacheTypes /\ CommittedOnce /\ PromisesKept

--------------------------------------------------------------------------------

LEMMA CacheInvInit == ASSUME CacheInit PROVE CacheInv
<1>1. CacheTypes
  BY CacheConstants DEF CacheInit, CacheTypes, Unreadable, NoTask, Tasks
<1>2. CacheVersion = 0
  BY DEF CacheInit, CacheVersion
<1> QED  BY <1>1, <1>2 DEF CacheInv, CommittedOnce, PromisesKept

\* The types.
LEMMA TypesKeep == ASSUME CacheTypes, CacheNext PROVE CacheTypes'
<1> USE CacheConstants
<1>1. ASSUME NEW q \in CacheReaders, GetProduct(q)
      PROVE  CacheTypes'
  <2>1. CASE CacheGet(q)
    BY <2>1 DEF CacheTypes, CacheGet, Read, cached, updateVars, taskVars, workerVars
  <2>2. CASE CacheDrop(q)
    BY <2>2 DEF CacheTypes, CacheDrop, Read, Clear, NoEntry, cached, updateVars, taskVars, workerVars
  <2>3. CASE LoadProduct(q)
    <3>1. CacheVersion \in Nat
      BY DEF CacheTypes, CacheVersion
    <3> QED  BY <2>3, <3>1 DEF CacheTypes, LoadProduct, Read, cached, updateVars, taskVars, workerVars
  <2>4. CASE CacheSet(q)
    BY <2>4 DEF CacheTypes, CacheSet, Read, cached, updateVars, taskVars, workerVars
  <2> QED  BY <1>1, <2>1, <2>2, <2>3, <2>4 DEF GetProduct
<1>2. ASSUME NEW u \in Updates, Update(u)
      PROVE  CacheTypes'
  <2>1. CASE BeginUpdate(u)
    BY <2>1 DEF CacheTypes, BeginUpdate, cached, readerVars, taskVars, workerVars
  <2>2. CASE CommitUpdate(u)
    BY <2>2 DEF CacheTypes, CommitUpdate, NoTask, cached, readerVars, workerVars
  <2>3. CASE UpdateFails(u)
    BY <2>3 DEF CacheTypes, UpdateFails, cached, readerVars, taskVars, workerVars
  <2>4. ASSUME NEW k \in CacheKeys, FirstDelete(u, k)
        PROVE  CacheTypes'
    BY <2>4 DEF CacheTypes, FirstDelete, Clear, NoEntry, cached, readerVars, taskVars, workerVars
  <2> QED  BY <1>2, <2>1, <2>2, <2>3, <2>4 DEF Update
<1>3. ASSUME NEW w \in CacheWorkers, CacheWorker(w)
      PROVE  CacheTypes'
  <2>1. CASE ClaimDue(w)
    <3>1. PICK b \in SUBSET {s \in Tasks : DueTask(s)} :
            task' = [s \in Tasks |->
                       IF s \in b THEN [task[s] EXCEPT !.status = "RUNNING", !.holder = w] ELSE task[s]]
      BY <2>1 DEF ClaimDue
    <3>2. \A t \in Tasks : /\ DOMAIN task'[t] = {"status", "holder", "retries"}
                           /\ task'[t].status \in {"none", "PENDING", "RUNNING", "DONE", "DEAD"}
      BY <3>1 DEF CacheTypes
    <3>3. DOMAIN working' = CacheWorkers /\ DOMAIN inBatch' = CacheWorkers /\ UNCHANGED due
      BY <2>1 DEF CacheTypes, ClaimDue
    <3> QED  BY <2>1, <3>1, <3>2, <3>3 DEF CacheTypes, ClaimDue, cached, readerVars, updateVars
  <2>2. CASE DeleteKey(w)
    BY <2>2 DEF CacheTypes, DeleteKey, Clear, NoEntry, cached, readerVars, updateVars, taskVars
  <2>3. ASSUME NEW t, NEW status \in {"PENDING", "DONE", "DEAD"}, NEW retries,
               MarkTask(w, t, status, retries), DOMAIN due' = DOMAIN due
        PROVE  CacheTypes'
    BY <2>3 DEF CacheTypes, MarkTask, NextOrIdle, cached, readerVars, updateVars
  <2>4. CASE MarkDone(w)
    BY <2>3, <2>4 DEF MarkDone
  <2>5. CASE MarkFailure(w)
    BY <2>3, <2>5 DEF MarkFailure
  <2>6. CASE EndBatch(w)
    BY <2>6 DEF CacheTypes, EndBatch, cached, readerVars, updateVars, taskVars
  <2> QED  BY <1>3, <2>1, <2>2, <2>4, <2>5, <2>6 DEF CacheWorker
<1>4. ASSUME NEW t \in Tasks, LeaseEnds(t)
      PROVE  CacheTypes'
  BY <1>4 DEF CacheTypes, LeaseEnds, cached, readerVars, updateVars, workerVars
<1>5. ASSUME NEW k \in CacheKeys, EntryExpires(k)
      PROVE  CacheTypes'
  BY <1>5 DEF CacheTypes, EntryExpires, Clear, NoEntry, readerVars, updateVars, taskVars, workerVars
<1>6. CASE CacheTick
  BY <1>6 DEF CacheTypes, CacheTick, Later, cached, workerVars
<1> QED  BY <1>1, <1>2, <1>3, <1>4, <1>5, <1>6 DEF CacheNext

LEMMA OnceKeeps == ASSUME CacheTypes, CommittedOnce, CacheNext PROVE CommittedOnce'
<1>1. ASSUME NEW u \in Updates, Update(u)
      PROVE  CommittedOnce'
  <2>1. CASE BeginUpdate(u)
    BY <2>1 DEF CacheTypes, CommittedOnce, CacheVersion, BeginUpdate
  <2>2. CASE CommitUpdate(u)
    <3>1. updating'[u] \in {"delete", "done"} /\ \A v \in Updates : v # u => updating'[v] = updating[v]
      BY <2>2 DEF CacheTypes, CommitUpdate
    <3>2. ASSUME NEW i \in 1 .. CacheVersion'
          PROVE  committed'[i] = u \/ (i \in 1 .. CacheVersion /\ committed'[i] = committed[i])
      BY <2>2 DEF CacheTypes, CacheVersion, CommitUpdate
    <3>3. ASSUME NEW i \in 1 .. CacheVersion
          PROVE  committed[i] \in Updates
      BY DEF CacheTypes, CacheVersion
    <3> QED  BY <3>1, <3>2, <3>3 DEF CommittedOnce
  <2>3. CASE UpdateFails(u)
    BY <2>3 DEF CacheTypes, CommittedOnce, CacheVersion, UpdateFails
  <2>4. ASSUME NEW k \in CacheKeys, FirstDelete(u, k)
        PROVE  CommittedOnce'
    BY <2>4 DEF CacheTypes, CommittedOnce, CacheVersion, FirstDelete
  <2> QED  BY <1>1, <2>1, <2>2, <2>3, <2>4 DEF Update
<1>2. ASSUME UNCHANGED <<committed, updating>>
      PROVE  CommittedOnce'
  BY <1>2 DEF CommittedOnce, CacheVersion
<1>3. ASSUME NEW q \in CacheReaders, GetProduct(q)
      PROVE  UNCHANGED <<committed, updating>>
  BY <1>3 DEF GetProduct, CacheGet, CacheDrop, LoadProduct, CacheSet, updateVars
<1>4. ASSUME NEW w \in CacheWorkers, CacheWorker(w)
      PROVE  UNCHANGED <<committed, updating>>
  BY <1>4 DEF CacheWorker, ClaimDue, DeleteKey, MarkDone, MarkFailure, MarkTask, EndBatch, updateVars
<1>5. ASSUME NEW t \in Tasks, LeaseEnds(t)
      PROVE  UNCHANGED <<committed, updating>>
  BY <1>5 DEF LeaseEnds, updateVars
<1>6. ASSUME NEW k \in CacheKeys, EntryExpires(k)
      PROVE  UNCHANGED <<committed, updating>>
  BY <1>6 DEF EntryExpires, updateVars
<1>7. CASE CacheTick
  BY <1>2, <1>7 DEF CacheTick
<1> QED  BY <1>1, <1>2, <1>3, <1>4, <1>5, <1>6, <1>7 DEF CacheNext

--------------------------------------------------------------------------------
(* What keeps the promise of one update and key.                              *)

\* A key that is cleared is not stale.
LEMMA ClearKeeps ==
  ASSUME CacheTypes, NEW d \in CacheKeys, NEW k \in CacheKeys, NEW i \in 1 .. CacheVersion,
         Clear(d) \/ UNCHANGED cached, StaleAt(k, i)'
  PROVE  /\ UNCHANGED committed => StaleAt(k, i)
         /\ Clear(d) => d # k
<1>1. CASE Clear(d)
  BY <1>1 DEF CacheTypes, Clear, StaleAt, NoEntry
<1>2. CASE UNCHANGED cached
  BY <1>2 DEF cached, StaleAt, Clear, CacheTypes, NoEntry
<1> QED  BY <1>1, <1>2

LEMMA ReaderKeeps ==
  ASSUME CacheTypes, NEW q \in CacheReaders, GetProduct(q),
         NEW k \in CacheKeys, NEW i \in 1 .. CacheVersion, Promised(k, i), Kept(k, i)
  PROVE  Kept(k, i)'
<1> USE CacheConstants
<1>1. /\ UNCHANGED <<committed, task, due, working, inBatch>>
      /\ CacheVersion' = CacheVersion
      /\ <<committed[i], k>> \in Tasks
      /\ TaskOf(k, i)' = TaskOf(k, i)
      /\ \A w \in CacheWorkers : Deleted(w, k, i)' = Deleted(w, k, i)
  <2>1. UNCHANGED <<committed, task, due, working, inBatch>>
    BY DEF GetProduct, CacheGet, CacheDrop, LoadProduct, CacheSet, taskVars, workerVars
  <2>2. <<committed[i], k>> \in Tasks
    BY DEF Tasks, CacheTypes, CacheVersion
  <2>3. \A w \in CacheWorkers : Deleted(w, k, i)' = Deleted(w, k, i)
    BY <2>1 DEF Deleted, NextTask, OwnsTask
  <2> QED  BY <2>1, <2>2, <2>3 DEF TaskOf, CacheVersion
<1>2. ASSUME ~ (StaleAt(k, i)' /\ ~StaleAt(k, i)),
             \A p \in CacheReaders : MaySet(p, k, i)' => MaySet(p, k, i) /\ readAge'[p] = readAge[p]
      PROVE  Kept(k, i)'
  BY <1>1, <1>2 DEF Kept, SlowBefore
<1>3. CASE CacheGet(q)
  BY <1>2, <1>3 DEF CacheTypes, CacheGet, Read, cached, StaleAt, MaySet
<1>4. CASE CacheDrop(q)
  <2>1. StaleAt(k, i)' => StaleAt(k, i)
    BY <1>1, <1>4, ClearKeeps DEF CacheDrop
  <2> QED  BY <1>2, <1>4, <2>1 DEF CacheTypes, CacheDrop, Read, MaySet
<1>5. CASE LoadProduct(q)
  BY <1>2, <1>5 DEF CacheTypes, LoadProduct, Read, cached, StaleAt, MaySet, CacheVersion
<1>6. CASE CacheSet(q)
  <2>1. \A p \in CacheReaders : MaySet(p, k, i)' => MaySet(p, k, i) /\ readAge'[p] = readAge[p]
    BY <1>6 DEF CacheTypes, CacheSet, Read, MaySet
  <2>2. CASE ~ (StaleAt(k, i)' /\ ~StaleAt(k, i))
    BY <1>2, <2>1, <2>2
  <2>3. CASE StaleAt(k, i)' /\ ~StaleAt(k, i)
    <3>1. MaySet(q, k, i) /\ readAge[q] <= ReadTime
      <4>1. ~UNCHANGED cached
        BY <2>3 DEF cached, StaleAt
      <4>2. /\ entry' = [entry EXCEPT ![KeyOf[q]] = loaded[q]]
            /\ slowEntry' = IF readAge[q] > ReadTime THEN slowEntry \cup {KeyOf[q]}
                            ELSE slowEntry \ {KeyOf[q]}
            /\ reading[q] = "set"
        BY <1>6, <4>1 DEF CacheSet, Read
      <4>3. KeyOf[q] = k
        BY <2>3, <4>2 DEF CacheTypes, StaleAt
      <4> QED  BY <2>3, <4>2, <4>3 DEF CacheTypes, StaleAt, MaySet
    <3>2. TaskOf(k, i).status = "PENDING"
      BY <3>1 DEF Kept, SlowBefore, CacheTypes
    <3> QED  BY <1>1, <2>1, <3>2 DEF Kept, SlowBefore, Deleted, OwnsTask, TaskOf
  <2> QED  BY <2>2, <2>3
<1> QED  BY <1>3, <1>4, <1>5, <1>6 DEF GetProduct

\* Steps of other updates, and the first deletions.
LEMMA UpdateKeeps ==
  ASSUME CacheTypes, CommittedOnce, NEW u \in Updates, Update(u),
         NEW k \in CacheKeys, NEW i \in 1 .. CacheVersion, Kept(k, i)
  PROVE  Kept(k, i)'
<1> USE CacheConstants
<1>1. committed[i] \in Updates /\ committed'[i] = committed[i] /\ updating[committed[i]] \in {"delete", "done"}
  <2>1. committed[i] \in Updates /\ updating[committed[i]] \in {"delete", "done"}
    BY DEF CacheTypes, CommittedOnce, CacheVersion
  <2>2. committed' = committed \/ committed' = Append(committed, u)
    BY DEF Update, BeginUpdate, CommitUpdate, UpdateFails, FirstDelete
  <2> QED  BY <2>1, <2>2 DEF CacheTypes, CacheVersion
<1>2. /\ UNCHANGED <<reading, loaded, readAge, working, inBatch>>
      /\ task'[<<committed[i], k>>] = task[<<committed[i], k>>]
      /\ due'[<<committed[i], k>>] = due[<<committed[i], k>>]
  <2>1. CASE CommitUpdate(u)
    <3>1. u # committed[i]
      BY <1>1, <2>1 DEF CommitUpdate
    <3>2. <<committed[i], k>> \in Tasks /\ <<committed[i], k>> \notin TasksOf(u)
      BY <1>1, <3>1 DEF Tasks, TasksOf
    <3> QED  BY <2>1, <3>2 DEF CommitUpdate, readerVars, workerVars
  <2>2. CASE BeginUpdate(u) \/ UpdateFails(u) \/ \E d \in CacheKeys : FirstDelete(u, d)
    <3>1. UNCHANGED <<readerVars, taskVars, workerVars>>
      BY <2>2 DEF BeginUpdate, UpdateFails, FirstDelete
    <3> QED  BY <3>1 DEF taskVars, readerVars, workerVars
  <2> QED  BY <2>1, <2>2 DEF Update
<1>3. StaleAt(k, i)' => StaleAt(k, i)
  <2>1. ASSUME NEW d \in CacheKeys, FirstDelete(u, d), StaleAt(k, i)'
        PROVE  StaleAt(k, i)
    BY <2>1, ClearKeeps DEF FirstDelete
  <2>2. CASE UNCHANGED cached
    BY <2>2 DEF StaleAt, cached
  <2> QED  BY <2>1, <2>2 DEF Update, BeginUpdate, CommitUpdate, UpdateFails
<1> QED  BY <1>1, <1>2, <1>3
     DEF Kept, MaySet, SlowBefore, Deleted, NextTask, OwnsTask, TaskOf

\* The update that is committed: who loaded before it is at most as old as its
\* transaction is long.
LEMMA CommitKeeps ==
  ASSUME CacheTypes, NEW u \in Updates, CommitUpdate(u),
         NEW k \in CacheKeys, NEW i, i = Len(committed) + 1, Promised(k, i)'
  PROVE  Kept(k, i)'
<1> USE CacheConstants
<1>1. committed'[i] = u
  BY DEF CacheTypes, CommitUpdate
<1>2. k \in KeysOf[u] /\ u \notin ExpiryReleases /\ u \notin slowUpdates'
  BY <1>1 DEF Promised
<1>3. updateAge[u] <= TxTime
  BY <1>2 DEF CacheTypes, CommitUpdate
<1>4. <<u, k>> \in Tasks /\ <<u, k>> \in TasksOf(u)
  BY <1>2 DEF Tasks, TasksOf
<1>5. task'[<<u, k>>].status = "PENDING"
  BY <1>4 DEF CacheTypes, CommitUpdate, NoTask
<1>6. due'[<<u, k>>] = Delay - updateAge[u]
  BY <1>2, <1>3, <1>4 DEF CacheTypes, CommitUpdate, ExecuteAt
<1>7. due'[<<u, k>>] \in Nat /\ due'[<<u, k>>] >= Delay - TxTime /\ readAge' = readAge
  BY <1>3, <1>6 DEF CacheTypes, CommitUpdate, readerVars
<1>8. \A q \in CacheReaders : SlowBefore(q, k, i)'
  BY <1>1, <1>5, <1>7 DEF CacheTypes, SlowBefore, TaskOf
<1> QED  BY <1>1, <1>5, <1>8 DEF Kept, TaskOf, Deleted, OwnsTask

\* The first claim finds every reader that matters slow; a task that is marked DONE has
\* had its deletion.
LEMMA WorkerKeeps ==
  ASSUME CacheTypes, NEW w \in CacheWorkers, CacheWorker(w),
         NEW k \in CacheKeys, NEW i \in 1 .. CacheVersion, Kept(k, i)
  PROVE  Kept(k, i)'
<1> USE CacheConstants
<1> DEFINE t == <<committed[i], k>>
<1>1. /\ UNCHANGED <<committed, reading, loaded, readAge>>
      /\ t \in Tasks
      /\ t = <<committed'[i], k>>
      /\ \A q \in CacheReaders : MaySet(q, k, i)' = MaySet(q, k, i)
  <2>1. UNCHANGED <<committed, reading, loaded, readAge>>
    BY DEF CacheWorker, ClaimDue, DeleteKey, MarkDone, MarkFailure, MarkTask, EndBatch, readerVars
  <2> QED  BY <2>1 DEF CacheTypes, CacheVersion, Tasks, MaySet
<1>2. ASSUME \A q \in CacheReaders : MaySet(q, k, i) => readAge[q] > ReadTime
      PROVE  \A q \in CacheReaders : MaySet(q, k, i)' => SlowBefore(q, k, i)'
  BY <1>1, <1>2 DEF SlowBefore
<1>3. ASSUME task'[t] = task[t], due'[t] = due[t]
      PROVE  \A q \in CacheReaders : MaySet(q, k, i)' => SlowBefore(q, k, i)'
  BY <1>1, <1>3 DEF SlowBefore, TaskOf, Kept
<1>4. task[t].status # "PENDING" => \A q \in CacheReaders : MaySet(q, k, i) => readAge[q] > ReadTime
  BY DEF Kept, SlowBefore, TaskOf
<1>5. CASE ClaimDue(w)
  <2>1. PICK b \in SUBSET {s \in Tasks : DueTask(s)} :
          task' = [s \in Tasks |->
                     IF s \in b THEN [task[s] EXCEPT !.status = "RUNNING", !.holder = w] ELSE task[s]]
    BY <1>5 DEF ClaimDue
  <2>2. working'[w] = "delete" /\ UNCHANGED <<cached, due>>
    BY <1>5 DEF ClaimDue, CacheTypes
  <2>3. StaleAt(k, i)' = StaleAt(k, i)
    BY <2>2 DEF StaleAt, cached
  <2>4. \A v \in CacheWorkers : v # w => working'[v] = working[v] /\ inBatch'[v] = inBatch[v]
    BY <1>5 DEF ClaimDue, CacheTypes
  <2>5. CASE t \in b
    <3>1. task[t].status = "RUNNING" \/ (task[t].status = "PENDING" /\ due[t] = 0)
      BY <2>5 DEF DueTask
    <3>2. \A q \in CacheReaders : MaySet(q, k, i) => readAge[q] > ReadTime
      <4>1. CASE task[t].status = "RUNNING"
        BY <1>4, <4>1
      <4>2. CASE task[t].status = "PENDING" /\ due[t] = 0
        BY <4>2 DEF Kept, SlowBefore, TaskOf, CacheTypes
      <4> QED  BY <3>1, <4>1, <4>2
    <3>3. task'[t].status = "RUNNING" /\ task'[t].holder = w
      BY <1>1, <2>1, <2>5 DEF CacheTypes
    <3>4. \A v \in CacheWorkers : ~Deleted(v, k, i)'
      BY <1>1, <2>2, <3>3 DEF Deleted, OwnsTask
    <3> QED  BY <1>1, <1>2, <3>2, <3>3, <3>4 DEF Kept, TaskOf
  <2>6. CASE t \notin b
    <3>1. task'[t] = task[t]
      BY <1>1, <2>1, <2>6
    <3>2. \A v \in CacheWorkers : Deleted(v, k, i)' => Deleted(v, k, i)
      BY <1>1, <2>2, <2>4, <3>1 DEF Deleted, OwnsTask, NextTask
    <3> QED  BY <1>1, <1>3, <2>2, <2>3, <3>1, <3>2 DEF Kept, TaskOf
  <2> QED  BY <2>5, <2>6
<1>6. CASE DeleteKey(w)
  <2>1. UNCHANGED <<task, due, inBatch>> /\ \A v \in CacheWorkers : NextTask(v)' = NextTask(v)
    BY <1>6 DEF DeleteKey, taskVars, NextTask
  <2>2. \A v \in CacheWorkers : v # w => working'[v] = working[v]
    BY <1>6 DEF DeleteKey, CacheTypes
  <2>3. \A v \in CacheWorkers : v # w => Deleted(v, k, i)' = Deleted(v, k, i)
    BY <1>1, <2>1, <2>2 DEF Deleted, OwnsTask
  <2>4. StaleAt(k, i)' => StaleAt(k, i)
    <3>1. CASE UNCHANGED cached
      BY <3>1 DEF cached, StaleAt
    <3>2. CASE Clear(NextTask(w)[2])
      BY <3>2 DEF Clear, StaleAt, NoEntry, CacheTypes
    <3> QED  BY <1>6, <3>1, <3>2 DEF DeleteKey
  <2>5. Deleted(w, k, i)' => ~StaleAt(k, i)'
    <3>1. SUFFICES ASSUME Deleted(w, k, i)'
                   PROVE  ~StaleAt(k, i)'
      OBVIOUS
    <3>2. working'[w] = "done" /\ NextTask(w) = t
      BY <1>1, <2>1, <3>1 DEF Deleted
    <3>3. Clear(k)
      BY <1>6, <3>2 DEF DeleteKey, CacheTypes
    <3> QED  BY <3>3 DEF Clear, StaleAt, NoEntry, CacheTypes
  <2> QED  BY <1>1, <1>3, <2>1, <2>3, <2>4, <2>5 DEF Kept, TaskOf
<1>7. ASSUME NEW status \in {"PENDING", "DONE", "DEAD"}, NEW retries,
             MarkTask(w, NextTask(w), status, retries),
             status = "DONE" => working[w] = "done",
             \A s \in Tasks : s # NextTask(w) => due'[s] = due[s]
      PROVE  Kept(k, i)'
  <2>1. StaleAt(k, i)' = StaleAt(k, i)
    BY <1>7 DEF MarkTask, cached, StaleAt
  <2>2. \A v \in CacheWorkers : v # w => working'[v] = working[v] /\ inBatch'[v] = inBatch[v]
    BY <1>7 DEF MarkTask, NextOrIdle, CacheTypes
  <2>3. working'[w] # "done"
    BY <1>7 DEF MarkTask, NextOrIdle, CacheTypes
  <2>4. CASE NextTask(w) = t
    <3>1. task[t].status = "RUNNING" /\ task[t].holder = w /\ task'[t].status = status
      BY <1>1, <1>7, <2>4 DEF MarkTask, OwnsTask, CacheTypes
    <3>2. status = "DONE" => ~StaleAt(k, i)
      BY <1>7, <2>4, <3>1 DEF Kept, Deleted, OwnsTask
    <3>3. \A v \in CacheWorkers : ~Deleted(v, k, i)'
      BY <1>1, <3>1 DEF Deleted, OwnsTask
    <3>4. \A q \in CacheReaders : MaySet(q, k, i)' => SlowBefore(q, k, i)'
      BY <1>2, <1>4, <3>1
    <3> QED  BY <1>1, <2>1, <3>1, <3>2, <3>3, <3>4 DEF Kept, TaskOf
  <2>5. CASE NextTask(w) # t
    <3>1. task'[t] = task[t] /\ due'[t] = due[t]
      BY <1>1, <1>7, <2>5 DEF MarkTask, CacheTypes
    <3>2. \A v \in CacheWorkers : Deleted(v, k, i)' => Deleted(v, k, i)
      BY <1>1, <2>2, <2>3, <3>1 DEF Deleted, OwnsTask, NextTask
    <3> QED  BY <1>1, <1>3, <2>1, <3>1, <3>2 DEF Kept, TaskOf
  <2> QED  BY <2>4, <2>5
<1>8. CASE MarkDone(w)
  BY <1>7, <1>8 DEF MarkDone
<1>9. CASE MarkFailure(w)
  <2>1. \A s \in Tasks : s # NextTask(w) => due'[s] = due[s]
    BY <1>9 DEF MarkFailure, CacheTypes
  <2> QED  BY <1>7, <1>9, <2>1 DEF MarkFailure
<1>10. CASE EndBatch(w)
  <2>1. UNCHANGED <<task, due, cached>> /\ working'[w] # "done"
    BY <1>10 DEF EndBatch, taskVars, CacheTypes
  <2>2. \A v \in CacheWorkers : v # w => working'[v] = working[v] /\ inBatch'[v] = inBatch[v]
    BY <1>10 DEF EndBatch, CacheTypes
  <2>3. \A v \in CacheWorkers : Deleted(v, k, i)' => Deleted(v, k, i)
    BY <1>1, <2>1, <2>2 DEF Deleted, OwnsTask, NextTask
  <2>4. StaleAt(k, i)' = StaleAt(k, i)
    BY <2>1 DEF StaleAt, cached
  <2> QED  BY <1>1, <1>3, <2>1, <2>3, <2>4 DEF Kept, TaskOf
<1> QED  BY <1>5, <1>6, <1>8, <1>9, <1>10 DEF CacheWorker

\* A tick takes as much from a reader's time as from the task's.
LEMMA TickKeeps ==
  ASSUME CacheTypes, CacheTick,
         NEW k \in CacheKeys, NEW i \in 1 .. CacheVersion, Kept(k, i)
  PROVE  Kept(k, i)'
<1> USE CacheConstants
<1>1. /\ UNCHANGED <<committed, cached, reading, loaded, task, working, inBatch>>
      /\ <<committed[i], k>> \in Tasks
  BY DEF CacheTick, workerVars, CacheTypes, CacheVersion, Tasks
<1>2. /\ StaleAt(k, i)' = StaleAt(k, i)
      /\ TaskOf(k, i)' = TaskOf(k, i)
      /\ \A q \in CacheReaders : MaySet(q, k, i)' = MaySet(q, k, i)
      /\ \A w \in CacheWorkers : Deleted(w, k, i)' = Deleted(w, k, i)
  BY <1>1 DEF StaleAt, cached, TaskOf, MaySet, Deleted, OwnsTask, NextTask
<1>3. ASSUME NEW q \in CacheReaders, MaySet(q, k, i), SlowBefore(q, k, i)
      PROVE  SlowBefore(q, k, i)'
  <2>1. readAge'[q] = Later(readAge[q], ReadTime) /\ readAge[q] \in Nat
    BY <1>3 DEF CacheTick, MaySet, CacheTypes
  <2>2. due'[<<committed[i], k>>] = Sooner(due[<<committed[i], k>>])
    BY <1>1 DEF CacheTick
  <2>3. CASE readAge[q] > ReadTime
    BY <2>1, <2>3 DEF Later, SlowBefore
  <2>4. CASE readAge[q] <= ReadTime
    <3>1. /\ TaskOf(k, i).status = "PENDING"
          /\ due[<<committed[i], k>>] \in Nat \ {0}
          /\ readAge[q] + due[<<committed[i], k>>] >= Delay - TxTime
      BY <1>3, <2>1, <2>4 DEF SlowBefore
    <3> QED  BY <1>1, <1>2, <2>1, <2>2, <2>4, <3>1 DEF Later, Sooner, SlowBefore
  <2> QED  BY <2>1, <2>3, <2>4
<1> QED  BY <1>2, <1>3 DEF Kept

LEMMA PromisesStep == ASSUME CacheInv, CacheNext PROVE PromisesKept'
<1> USE CacheConstants DEF CacheInv
<1>1. ASSUME UNCHANGED <<committed, slowUpdates>>,
             \A k \in CacheKeys, i \in 1 .. CacheVersion : Promised(k, i) /\ Kept(k, i) => Kept(k, i)'
      PROVE  PromisesKept'
  <2>1. CacheVersion' = CacheVersion
    BY <1>1 DEF CacheVersion
  <2> QED  BY <1>1, <2>1 DEF PromisesKept, Promised
<1>2. ASSUME NEW q \in CacheReaders, GetProduct(q)
      PROVE  PromisesKept'
  <2>1. UNCHANGED <<committed, slowUpdates>>
    BY <1>2 DEF GetProduct, CacheGet, CacheDrop, LoadProduct, CacheSet, updateVars
  <2> QED  BY <1>1, <1>2, <2>1, ReaderKeeps
<1>3. ASSUME NEW u \in Updates, Update(u)
      PROVE  PromisesKept'
  <2>1. CASE CommitUpdate(u)
    <3>1. CacheVersion' = Len(committed) + 1 /\ CacheVersion = Len(committed) /\ CacheVersion \in Nat
      BY <2>1 DEF CommitUpdate, CacheTypes, CacheVersion
    <3>2. ASSUME NEW k \in CacheKeys, NEW i \in 1 .. CacheVersion, Promised(k, i)'
          PROVE  Promised(k, i)
      <4>1. committed'[i] = committed[i]
        BY <2>1 DEF CommitUpdate, CacheTypes, CacheVersion
      <4>2. slowUpdates \subseteq slowUpdates'
        BY <2>1 DEF CommitUpdate
      <4> QED  BY <3>2, <4>1, <4>2 DEF Promised
    <3>3. ASSUME NEW k \in CacheKeys, NEW i \in 1 .. CacheVersion, Promised(k, i)'
          PROVE  Kept(k, i)'
      BY <1>3, <3>2, <3>3, UpdateKeeps DEF PromisesKept
    <3>4. ASSUME NEW k \in CacheKeys, NEW i, i = Len(committed) + 1, Promised(k, i)'
          PROVE  Kept(k, i)'
      BY <2>1, <3>4, CommitKeeps
    <3>5. \A i \in 1 .. CacheVersion' : i \in 1 .. CacheVersion \/ i = Len(committed) + 1
      BY <3>1
    <3> QED  BY <3>3, <3>4, <3>5 DEF PromisesKept
  <2>2. CASE ~CommitUpdate(u)
    <3>1. UNCHANGED <<committed, slowUpdates>>
      BY <1>3, <2>2 DEF Update, BeginUpdate, UpdateFails, FirstDelete
    <3> QED  BY <1>1, <1>3, <3>1, UpdateKeeps
  <2> QED  BY <2>1, <2>2
<1>4. ASSUME NEW w \in CacheWorkers, CacheWorker(w)
      PROVE  PromisesKept'
  <2>1. UNCHANGED <<committed, slowUpdates>>
    BY <1>4 DEF CacheWorker, ClaimDue, DeleteKey, MarkDone, MarkFailure, MarkTask, EndBatch, updateVars
  <2> QED  BY <1>1, <1>4, <2>1, WorkerKeeps
<1>5. ASSUME NEW t \in Tasks, LeaseEnds(t)
      PROVE  PromisesKept'
  <2>1. UNCHANGED <<committed, slowUpdates, entry, slowEntry, reading, loaded, readAge, task, due,
                    working, inBatch>>
    BY <1>5 DEF LeaseEnds, cached, readerVars, updateVars, workerVars
  <2>2. \A k \in CacheKeys, i \in 1 .. CacheVersion : Kept(k, i) => Kept(k, i)'
    BY <2>1 DEF Kept, StaleAt, TaskOf, MaySet, SlowBefore, Deleted, NextTask, OwnsTask
  <2> QED  BY <1>1, <2>1, <2>2
<1>6. ASSUME NEW d \in CacheKeys, EntryExpires(d)
      PROVE  PromisesKept'
  <2>1. UNCHANGED <<committed, slowUpdates, reading, loaded, readAge, task, due, working, inBatch>>
    BY <1>6 DEF EntryExpires, readerVars, updateVars, taskVars, workerVars
  <2>2. \A k \in CacheKeys, i \in 1 .. CacheVersion : StaleAt(k, i)' => StaleAt(k, i)
    BY <1>6, <2>1, ClearKeeps DEF EntryExpires
  <2>3. \A k \in CacheKeys, i \in 1 .. CacheVersion : Kept(k, i) => Kept(k, i)'
    BY <2>1, <2>2 DEF Kept, TaskOf, MaySet, SlowBefore, Deleted, NextTask, OwnsTask
  <2> QED  BY <1>1, <2>1, <2>3
<1>7. CASE CacheTick
  <2>1. UNCHANGED <<committed, slowUpdates>>
    BY <1>7 DEF CacheTick
  <2> QED  BY <1>1, <1>7, <2>1, TickKeeps
<1> QED  BY <1>2, <1>3, <1>4, <1>5, <1>6, <1>7 DEF CacheNext

LEMMA CacheInvStep == ASSUME CacheInv, [CacheNext]_cacheVars PROVE CacheInv'
<1>1. CASE CacheNext
  BY <1>1, TypesKeep, OnceKeeps, PromisesStep DEF CacheInv
<1>2. CASE UNCHANGED cacheVars
  BY <1>2 DEF cacheVars, cached, readerVars, updateVars, taskVars, workerVars, CacheInv, CacheTypes,
              CommittedOnce, PromisesKept, Promised, Kept, CacheVersion, StaleAt, TaskOf, MaySet,
              SlowBefore, Deleted, NextTask, OwnsTask
<1> QED  BY <1>1, <1>2

--------------------------------------------------------------------------------

\* Whoever reads, updates, deletes, retries or loses a lease, and however long the delays
\* are: a detail that an update has made stale is in the cache only while the update's
\* second deletion is still to come.  The exceptions are the ones WithinDelay names.
THEOREM StaleDetailsAreDeleted == CacheSpec => []StaleIsDue
<1>1. CacheInv => StaleIsDue
  BY DEF CacheInv, PromisesKept, Promised, Kept, StaleAt, TaskOf, StaleIsDue, Stale, WithinDelay,
         DeletionIsDue, CacheVersion
<1>2. CacheInv /\ [CacheNext]_cacheVars => CacheInv'
  BY CacheInvStep
<1> QED  BY <1>1, <1>2, CacheInvInit, PTL DEF CacheSpec

--------------------------------------------------------------------------------
(* Retrieval                                                                 *)

OnePerType(docs) == \A c, d \in docs : TypeOf[c] = TypeOf[d] => c = d

\* What is current is in Milvus, and Milvus forgets nothing: the filter of a search, however
\* late, names no document that is missing there.
RetrievalInv ==
  /\ shown \subseteq KnowledgeDocuments \cap inMilvus /\ OnePerType(shown)
  /\ searching \in [Searches -> {"idle", "list", "embed", "search", "hydrate"}]
  /\ DOMAIN wanted = Searches
  /\ listed \in [Searches -> SUBSET KnowledgeDocuments]
  /\ DOMAIN hits = Searches
  /\ DOMAIN snippets = Searches
  /\ \A s \in Searches :
       /\ listed[s] \subseteq inMilvus /\ OnePerType(listed[s])
       /\ searching[s] = "hydrate" =>
            /\ hits[s] \subseteq ListedChunks(s)
            /\ Cardinality(hits[s]) = Smaller(TopK(s), Cardinality(ListedChunks(s)))

LEMMA RetrievalInvInit == RetrievalInit => RetrievalInv
BY DEF RetrievalInit, Store!Init, RetrievalInv, OnePerType

\* A search moves on while the others and the documents stay.
SearchesOn(s) ==
  /\ UNCHANGED knowledgeRows
  /\ DOMAIN wanted' = Searches /\ DOMAIN hits' = Searches /\ DOMAIN snippets' = Searches
  /\ searching' \in [Searches -> {"idle", "list", "embed", "search", "hydrate"}]
  /\ listed' \in [Searches -> SUBSET KnowledgeDocuments]
  /\ \A q \in Searches \ {s} :
       /\ searching'[q] = searching[q]
       /\ wanted'[q] = wanted[q]
       /\ listed'[q] = listed[q]
       /\ hits'[q] = hits[q]

\* ... and finds only what is in Milvus, one document of a type.
FindsWhatIsThere(s) ==
  /\ listed'[s] \subseteq inMilvus /\ OnePerType(listed'[s])
  /\ searching'[s] = "hydrate" =>
       /\ hits'[s] \subseteq ListedChunks(s)'
       /\ Cardinality(hits'[s]) = Smaller(TopK(s)', Cardinality(ListedChunks(s)'))

LEMMA SearchKeeps ==
  ASSUME RetrievalInv, NEW s \in Searches, SearchesOn(s), FindsWhatIsThere(s)
  PROVE  RetrievalInv'
<1>1. ASSUME NEW q \in Searches, q # s
      PROVE  /\ (listed[q] \subseteq inMilvus /\ OnePerType(listed[q]))'
             /\ (searching[q] = "hydrate" =>
                   /\ hits[q] \subseteq ListedChunks(q)
                   /\ Cardinality(hits[q]) = Smaller(TopK(q), Cardinality(ListedChunks(q))))'
  <2>1. TopK(q)' = TopK(q) /\ ListedChunks(q)' = ListedChunks(q)
    BY <1>1 DEF SearchesOn, TopK, ListedChunks
  <2> QED  BY <1>1, <2>1 DEF SearchesOn, RetrievalInv, OnePerType, knowledgeRows
<1> QED  BY <1>1 DEF RetrievalInv, SearchesOn, FindsWhatIsThere, OnePerType, knowledgeRows

LEMMA SearchEndsKeeps ==
  ASSUME RetrievalInv, NEW s \in Searches, NEW result, SearchEnds(s, result), UNCHANGED knowledgeRows
  PROVE  RetrievalInv'
<1>1. SearchesOn(s)
  BY DEF RetrievalInv, SearchEnds, SearchesOn
<1>2. FindsWhatIsThere(s)
  BY DEF RetrievalInv, SearchEnds, FindsWhatIsThere, OnePerType
<1> QED  BY <1>1, <1>2, SearchKeeps

LEMMA SearchStepKeeps ==
  ASSUME RetrievalInv, NEW s \in Searches, SearchStep(s)
  PROVE  RetrievalInv'
<1>1. ASSUME NEW types \in SUBSET DocTypes, NEW k \in TopKs, Search(s, types, k)
      PROVE  RetrievalInv'
  <2>1. SearchesOn(s)
    BY <1>1 DEF RetrievalInv, Search, SearchesOn
  <2>2. FindsWhatIsThere(s)
    BY <1>1 DEF RetrievalInv, Search, FindsWhatIsThere, OnePerType
  <2> QED  BY <2>1, <2>2, SearchKeeps
<1>2. CASE ListCurrentReadyDocuments(s)
  <2>1. CASE CurrentReady(s) = {}
    BY <1>2, <2>1, SearchEndsKeeps DEF ListCurrentReadyDocuments
  <2>2. CASE CurrentReady(s) # {}
    <3>0. CurrentReady(s) \subseteq shown
      BY DEF CurrentReady
    <3>1. SearchesOn(s)
      BY <1>2, <2>2, <3>0 DEF RetrievalInv, ListCurrentReadyDocuments, SearchesOn
    <3>2. FindsWhatIsThere(s)
      BY <1>2, <2>2, <3>0 DEF RetrievalInv, ListCurrentReadyDocuments, FindsWhatIsThere, OnePerType
    <3> QED  BY <3>1, <3>2, SearchKeeps
  <2> QED  BY <2>1, <2>2
<1>3. CASE EmbedQuery(s)
  <2>1. SearchesOn(s)
    BY <1>3 DEF RetrievalInv, EmbedQuery, SearchesOn
  <2>2. FindsWhatIsThere(s)
    BY <1>3 DEF RetrievalInv, EmbedQuery, FindsWhatIsThere, OnePerType
  <2> QED  BY <2>1, <2>2, SearchKeeps
<1>4. CASE VectorSearch(s)
  <2>1. SearchesOn(s)
    BY <1>4 DEF RetrievalInv, VectorSearch, SearchesOn
  <2>2. VectorFilter(s) = listed[s]
    BY DEF RetrievalInv, VectorFilter
  <2>3. PICK found \in NearestChunks(s) : hits' = [hits EXCEPT ![s] = found]
    BY <1>4 DEF VectorSearch
  <2>4. /\ found \subseteq ListedChunks(s)
        /\ Cardinality(found) = Smaller(TopK(s), Cardinality(ListedChunks(s)))
    BY <2>2, <2>3 DEF NearestChunks, ListedChunks
  <2>5. TopK(s)' = TopK(s) /\ ListedChunks(s)' = ListedChunks(s)
    BY <1>4 DEF VectorSearch, TopK, ListedChunks
  <2>6. FindsWhatIsThere(s)
    BY <1>4, <2>3, <2>4, <2>5 DEF RetrievalInv, VectorSearch, FindsWhatIsThere, OnePerType
  <2> QED  BY <2>1, <2>6, SearchKeeps
<1>5. CASE HydrateKnowledgeSnippets(s)
  BY <1>5, SearchEndsKeeps DEF HydrateKnowledgeSnippets
<1>6. CASE SearchFails(s)
  BY <1>6, SearchEndsKeeps DEF SearchFails
<1> QED  BY <1>1, <1>2, <1>3, <1>4, <1>5, <1>6 DEF SearchStep

\* Documents come and take the place of others; what searches hold stays in Milvus.
LEMMA DocumentsKeep ==
  ASSUME RetrievalInv, NEW d \in KnowledgeDocuments, UpsertVectors(d) \/ BecomeCurrent(d)
  PROVE  RetrievalInv'
<1>1. inMilvus \subseteq inMilvus'
  BY DEF UpsertVectors, BecomeCurrent, Store!Embed, Store!Publish, searchVars
<1>2. shown' \subseteq KnowledgeDocuments \cap inMilvus' /\ OnePerType(shown')
  BY <1>1 DEF RetrievalInv, UpsertVectors, BecomeCurrent, Store!Embed, Store!Publish, OnePerType
<1>3. UNCHANGED <<searching, wanted, listed, hits, snippets>>
  BY DEF UpsertVectors, BecomeCurrent, Store!Embed, Store!Publish, searchVars
<1>4. ASSUME NEW s \in Searches
      PROVE  /\ (listed[s] \subseteq inMilvus /\ OnePerType(listed[s]))'
             /\ (searching[s] = "hydrate" =>
                   /\ hits[s] \subseteq ListedChunks(s)
                   /\ Cardinality(hits[s]) = Smaller(TopK(s), Cardinality(ListedChunks(s))))'
  <2>1. TopK(s)' = TopK(s) /\ ListedChunks(s)' = ListedChunks(s)
    BY <1>3 DEF TopK, ListedChunks
  <2> QED  BY <1>1, <1>3, <2>1 DEF RetrievalInv, OnePerType
<1> QED  BY <1>2, <1>3, <1>4 DEF RetrievalInv, OnePerType

LEMMA RetrievalInvStep == RetrievalInv /\ [RetrievalNext]_retrievalVars => RetrievalInv'
<1> SUFFICES ASSUME RetrievalInv, [RetrievalNext]_retrievalVars PROVE RetrievalInv'
  OBVIOUS
<1>1. CASE UNCHANGED retrievalVars
  BY <1>1 DEF RetrievalInv, OnePerType, TopK, AskedTypes, ListedChunks, retrievalVars
<1> QED  BY <1>1, SearchStepKeeps, DocumentsKeep DEF RetrievalNext

LEMMA SearchEndsWithTheCurrent ==
  ASSUME RetrievalInv, NEW s \in Searches, HydrateKnowledgeSnippets(s)
  PROVE  /\ \A chunk \in snippets'[s] : DocumentOfChunk(chunk) \in shown \cap listed[s]
         /\ \A c, d \in listed[s] : TypeOf[c] = TypeOf[d] => c = d
         /\ listed[s] \subseteq shown =>
              Cardinality(snippets'[s]) = Smaller(TopK(s), Cardinality(ListedChunks(s)))
<1>1. snippets'[s] = {chunk \in hits[s] : Hydrated(chunk)}
  BY DEF RetrievalInv, HydrateKnowledgeSnippets, SearchEnds
<1>2. \A chunk \in hits[s] : DocumentOfChunk(chunk) \in listed[s]
  <2>1. hits[s] \subseteq ListedChunks(s)
    BY DEF RetrievalInv, HydrateKnowledgeSnippets
  <2>2. ASSUME NEW d, NEW chunk \in ChunksOf(d) PROVE DocumentOfChunk(chunk) = d
    BY <2>2 DEF ChunksOf, DocumentOfChunk
  <2> QED  BY <2>1, <2>2 DEF ListedChunks
<1>3. listed[s] \subseteq shown => snippets'[s] = hits[s]
  BY <1>1, <1>2 DEF Hydrated
<1>4. Cardinality(hits[s]) = Smaller(TopK(s), Cardinality(ListedChunks(s)))
  BY DEF RetrievalInv, HydrateKnowledgeSnippets
<1>5. OnePerType(listed[s])
  BY DEF RetrievalInv
<1> QED  BY <1>1, <1>2, <1>3, <1>4, <1>5 DEF Hydrated, OnePerType

\* Whatever became current, was replaced or came into Milvus between the four calls of
\* SearchProductKnowledge, it ends with chunks of documents that were current when it listed
\* them and are when it ends, one document of a type, and with all it was asked for if no
\* version changed.
THEOREM SearchesShowTheCurrent == RetrievalSpec => SearchShowsTheCurrent
<1>1. RetrievalInv => [\A s \in Searches :
                         HydrateKnowledgeSnippets(s) =>
                           /\ \A chunk \in snippets'[s] :
                                DocumentOfChunk(chunk) \in shown \cap listed[s]
                           /\ \A c, d \in listed[s] : TypeOf[c] = TypeOf[d] => c = d
                           /\ listed[s] \subseteq shown =>
                                Cardinality(snippets'[s]) =
                                  Smaller(TopK(s), Cardinality(ListedChunks(s)))]_retrievalVars
  BY SearchEndsWithTheCurrent
<1> QED  BY <1>1, RetrievalInvInit, RetrievalInvStep, PTL DEF RetrievalSpec, SearchShowsTheCurrent

--------------------------------------------------------------------------------
(* Gateway                                                                   *)

ServiceNames == {"order", "agent", "knowledge", "product", "user"}

\* What says that a call is over and nothing was done for it.
Final(code) == code \notin Open \cup {None, "OK"}

Writes(r) == Servers[Service(r)][Call(r)].writes

\* Before a call, during one, and after it, for one request.
HonestRequest(r) ==
  /\ handling[r] # "idle" => route[r] \in Routes
  /\ handling[r] \in {"idle", "authenticate", "operator", "input"} =>
       /\ serving[r] = "none"
       /\ grpcCode[r] = None
       /\ event[r] = "none"
       /\ httpAnswer[r] \in {0, 503}
  /\ serving[r] \in {"none", "verify"} => ~effect[r]
  /\ grpcCode[r] = "OK" => effect[r] \/ ~Writes(r)
  /\ Final(grpcCode[r]) => serving[r] = "gone" /\ ~effect[r]
  /\ handling[r] \in {"record", "reply"} => grpcCode[r] = "OK"
  /\ event[r] # "none" => grpcCode[r] = "OK"
  /\ httpAnswer[r] = 200 => grpcCode[r] = "OK"
  /\ httpAnswer[r] \in 400 .. 499 =>
       \/ handling[r] = "end" /\ serving[r] = "none"
       \/ Final(grpcCode[r])
       \/ grpcCode[r] = "Aborted"

GatewayInv == GatewayTypeOK /\ \A r \in HttpRequests : HonestRequest(r)

LEMMA StatusOfCode ==
  ASSUME NEW s \in ServiceNames, NEW code
  PROVE  /\ HttpStatus(s, code) \in {400, 401, 404, 409, 500, 504}
         /\ HttpStatus(s, code) \in 400 .. 499 => code \notin Open \ {"Aborted"}
<1>1. CASE s = "order"
  BY <1>1 DEF HttpStatus, HttpAnswers, WriteOrderError, Open
<1>2. CASE s = "agent"
  BY <1>2 DEF HttpStatus, HttpAnswers, WriteAgentError, Open
<1>3. CASE s = "knowledge"
  BY <1>3 DEF HttpStatus, HttpAnswers, WriteKnowledgeError, Open
<1>4. CASE s = "product"
  BY <1>4 DEF HttpStatus, HttpAnswers, WriteProductError, Open
<1>5. CASE s = "user"
  BY <1>5 DEF HttpStatus, HttpAnswers, WriteUserError, Open
<1> QED  BY <1>1, <1>2, <1>3, <1>4, <1>5 DEF ServiceNames

LEMMA RouteNames ==
  ASSUME NEW t \in Routes
  PROVE  t[1] \in ServiceNames
BY DEF Routes, Handlers, ServiceNames

LEMMA NamedCodes ==
  ASSUME NEW s \in ServiceNames
  PROVE  Named(s) \subseteq Codes \ {"OK"}
<1>1. Named(s) \subseteq Codes
  BY DEF Statuses, Codes, ServiceNames
<1>2. "OK" \notin Named(s)
  BY DEF Named, Statuses, OrderStatus, AgentStatus, KnowledgeStatus, ProductStatus, UserStatus,
         ServiceNames
<1> QED  BY <1>1, <1>2

LEMMA CodeFacts ==
  /\ None \notin Codes
  /\ {"OK", "Unauthenticated", "Internal", "DeadlineExceeded", "Unavailable", "Aborted"} \subseteq Codes
  /\ ~Final("OK") /\ ~Final("Internal") /\ ~Final("DeadlineExceeded") /\ ~Final("Unavailable")
  /\ ~Final("Aborted") /\ ~Final(None)
BY GatewayAssumption DEF Codes, Final, Open

LEMMA GatewayInvInit == GatewayInit => GatewayInv
<1> SUFFICES ASSUME GatewayInit PROVE GatewayInv
  OBVIOUS
<1>1. GatewayTypeOK
  BY DEF GatewayInit, GatewayTypeOK
<1>2. ASSUME NEW r \in HttpRequests PROVE HonestRequest(r)
  BY GatewayAssumption DEF GatewayInit, HonestRequest, Codes, Final
<1> QED  BY <1>1, <1>2 DEF GatewayInv

\* The step of one request leaves the others alone.
OnlyOf(r) ==
  \A q \in HttpRequests \ {r} :
    /\ route'[q] = route[q]
    /\ handling'[q] = handling[q]
    /\ serving'[q] = serving[q]
    /\ grpcCode'[q] = grpcCode[q]
    /\ effect'[q] = effect[q]
    /\ event'[q] = event[q]
    /\ httpAnswer'[q] = httpAnswer[q]

LEMMA OthersHonest ==
  ASSUME GatewayInv, NEW r \in HttpRequests, OnlyOf(r), GatewayTypeOK', HonestRequest(r)'
  PROVE  GatewayInv'
<1>1. ASSUME NEW q \in HttpRequests, q # r PROVE HonestRequest(q)'
  <2>1. HonestRequest(q)
    BY DEF GatewayInv
  <2>2. Writes(q)' = Writes(q)
    BY <1>1 DEF OnlyOf, Writes, Service, Call
  <2> QED  BY <1>1, <2>1, <2>2 DEF OnlyOf, HonestRequest
<1> QED  BY <1>1 DEF GatewayInv

LEMMA ReceiveKeeps ==
  ASSUME GatewayInv, NEW r \in HttpRequests, NEW to \in Routes, NEW token \in BOOLEAN, NEW header \in BOOLEAN,
         Receive(r, to, token, header)
  PROVE  GatewayInv'
<1> USE DEF GatewayInv
<1> HonestRequest(r)
  OBVIOUS
<1>1. GatewayTypeOK'
  BY DEF GatewayTypeOK, Receive, Move
<1>2. OnlyOf(r)
  BY DEF GatewayTypeOK, OnlyOf, Receive, Move
<1>3. HonestRequest(r)'
  BY CodeFacts DEF GatewayTypeOK, HonestRequest, Receive, Move
<1> QED  BY <1>1, <1>2, <1>3, OthersHonest

LEMMA AuthenticateKeeps ==
  ASSUME GatewayInv, NEW r \in HttpRequests, Authenticate(r)
  PROVE  GatewayInv'
<1> USE DEF GatewayInv
<1> HonestRequest(r)
  OBVIOUS
<1>0. Writes(r)' = Writes(r)
  BY DEF Writes, Service, Call, Pass, Authenticate
<1>1. GatewayTypeOK'
  BY DEF GatewayTypeOK, Authenticate, Pass, Move, GiveAnswer
<1>2. OnlyOf(r)
  BY DEF GatewayTypeOK, OnlyOf, Authenticate, Pass, Move, GiveAnswer
<1>3. HonestRequest(r)'
  BY <1>0, CodeFacts DEF GatewayTypeOK, HonestRequest, Authenticate, Pass, Move, GiveAnswer
<1> QED  BY <1>1, <1>2, <1>3, OthersHonest

LEMMA RequireOperatorHeaderKeeps ==
  ASSUME GatewayInv, NEW r \in HttpRequests, RequireOperatorHeader(r)
  PROVE  GatewayInv'
<1> USE DEF GatewayInv
<1> HonestRequest(r)
  OBVIOUS
<1>0. Writes(r)' = Writes(r)
  BY DEF Writes, Service, Call, Pass, RequireOperatorHeader
<1>1. GatewayTypeOK'
  BY DEF GatewayTypeOK, RequireOperatorHeader, Pass, Move, GiveAnswer
<1>2. OnlyOf(r)
  BY DEF GatewayTypeOK, OnlyOf, RequireOperatorHeader, Pass, Move, GiveAnswer
<1>3. HonestRequest(r)'
  BY <1>0, CodeFacts DEF GatewayTypeOK, HonestRequest, RequireOperatorHeader, Pass, Move, GiveAnswer
<1> QED  BY <1>1, <1>2, <1>3, OthersHonest

LEMMA RefuseInputKeeps ==
  ASSUME GatewayInv, NEW r \in HttpRequests, RefuseInput(r)
  PROVE  GatewayInv'
<1> USE DEF GatewayInv
<1> HonestRequest(r)
  OBVIOUS
<1>0. Writes(r)' = Writes(r)
  BY DEF Writes, Service, Call, Pass, RefuseInput
<1>1. GatewayTypeOK'
  BY DEF GatewayTypeOK, RefuseInput, Pass, Move, GiveAnswer
<1>2. OnlyOf(r)
  BY DEF GatewayTypeOK, OnlyOf, RefuseInput, Pass, Move, GiveAnswer
<1>3. HonestRequest(r)'
  BY <1>0, CodeFacts DEF GatewayTypeOK, HonestRequest, RefuseInput, Pass, Move, GiveAnswer
<1> QED  BY <1>1, <1>2, <1>3, OthersHonest

LEMMA CallServiceKeeps ==
  ASSUME GatewayInv, NEW r \in HttpRequests, CallService(r)
  PROVE  GatewayInv'
<1> USE DEF GatewayInv
<1> HonestRequest(r)
  OBVIOUS
<1>0. Writes(r)' = Writes(r)
  BY DEF Writes, Service, Call, CallService, Move
<1>1. GatewayTypeOK'
  BY CodeFacts DEF GatewayTypeOK, CallService, Move
<1>2. OnlyOf(r)
  BY DEF GatewayTypeOK, OnlyOf, CallService, Move
<1>3. HonestRequest(r)'
  BY <1>0, CodeFacts DEF GatewayTypeOK, HonestRequest, CallService, Move
<1> QED  BY <1>1, <1>2, <1>3, OthersHonest

LEMMA CallFailsKeeps ==
  ASSUME GatewayInv, NEW r \in HttpRequests, CallFails(r)
  PROVE  GatewayInv'
<1> USE DEF GatewayInv
<1> HonestRequest(r)
  OBVIOUS
<1>0. Writes(r)' = Writes(r)
  BY DEF Writes, Service, Call, CallFails
<1>1. GatewayTypeOK'
  BY CodeFacts DEF GatewayTypeOK, CallFails
<1>2. OnlyOf(r)
  BY DEF GatewayTypeOK, OnlyOf, CallFails
<1>3. HonestRequest(r)'
  BY <1>0, CodeFacts DEF GatewayTypeOK, HonestRequest, CallFails
<1> QED  BY <1>1, <1>2, <1>3, OthersHonest

LEMMA CallReturnsKeeps ==
  ASSUME GatewayInv, NEW r \in HttpRequests, CallReturns(r)
  PROVE  GatewayInv'
<1> USE DEF GatewayInv
<1> HonestRequest(r)
  OBVIOUS
<1>0. Writes(r)' = Writes(r)
  BY DEF Writes, Service, Call, CallReturns, Move, GiveAnswer
<1>a. handling[r] # "idle"
  BY DEF HonestRequest, CallReturns, Move
<1>b. Service(r) \in ServiceNames
  BY <1>a, RouteNames DEF HonestRequest, Service
<1>c. /\ HttpStatus(Service(r), grpcCode[r]) \in {400, 401, 404, 409, 500, 504}
      /\ HttpStatus(Service(r), grpcCode[r]) \in 400 .. 499 => grpcCode[r] \notin Open \ {"Aborted"}
  BY <1>b, StatusOfCode
<1>d. grpcCode[r] \in {None, "OK", "Aborted"} \/ grpcCode[r] \in Open \ {"Aborted"} \/ Final(grpcCode[r])
  BY DEF Final
<1>1. GatewayTypeOK'
  BY CodeFacts, <1>c DEF GatewayTypeOK, CallReturns, Move, GiveAnswer
<1>2. OnlyOf(r)
  BY DEF GatewayTypeOK, OnlyOf, CallReturns, Move, GiveAnswer
<1>3. HonestRequest(r)'
  BY <1>0, <1>c, <1>d, CodeFacts DEF GatewayTypeOK, HonestRequest, CallReturns, Move, GiveAnswer
<1> QED  BY <1>1, <1>2, <1>3, OthersHonest

LEMMA RecordBehaviorKeeps ==
  ASSUME GatewayInv, NEW r \in HttpRequests, RecordBehavior(r)
  PROVE  GatewayInv'
<1> USE DEF GatewayInv
<1> HonestRequest(r)
  OBVIOUS
<1>0. Writes(r)' = Writes(r)
  BY DEF Writes, Service, Call, RecordBehavior, Move
<1>1. GatewayTypeOK'
  BY CodeFacts DEF GatewayTypeOK, RecordBehavior, Move
<1>2. OnlyOf(r)
  BY DEF GatewayTypeOK, OnlyOf, RecordBehavior, Move
<1>3. HonestRequest(r)'
  BY <1>0, CodeFacts DEF GatewayTypeOK, HonestRequest, RecordBehavior, Move
<1> QED  BY <1>1, <1>2, <1>3, OthersHonest

LEMMA WriteJSONValueKeeps ==
  ASSUME GatewayInv, NEW r \in HttpRequests, WriteJSONValue(r)
  PROVE  GatewayInv'
<1> USE DEF GatewayInv
<1> HonestRequest(r)
  OBVIOUS
<1>0. Writes(r)' = Writes(r)
  BY DEF Writes, Service, Call, WriteJSONValue, Move, GiveAnswer
<1>1. GatewayTypeOK'
  BY CodeFacts DEF GatewayTypeOK, WriteJSONValue, Move, GiveAnswer
<1>2. OnlyOf(r)
  BY DEF GatewayTypeOK, OnlyOf, WriteJSONValue, Move, GiveAnswer
<1>3. HonestRequest(r)'
  BY <1>0, CodeFacts DEF GatewayTypeOK, HonestRequest, WriteJSONValue, Move, GiveAnswer
<1> QED  BY <1>1, <1>2, <1>3, OthersHonest

LEMMA ServerTimeoutKeeps ==
  ASSUME GatewayInv, NEW r \in HttpRequests, ServerTimeout(r)
  PROVE  GatewayInv'
<1> USE DEF GatewayInv
<1> HonestRequest(r)
  OBVIOUS
<1>0. Writes(r)' = Writes(r)
  BY DEF Writes, Service, Call, ServerTimeout, GiveAnswer
<1>1. GatewayTypeOK'
  BY CodeFacts DEF GatewayTypeOK, ServerTimeout, GiveAnswer
<1>2. OnlyOf(r)
  BY DEF GatewayTypeOK, OnlyOf, ServerTimeout, GiveAnswer
<1>3. HonestRequest(r)'
  BY <1>0, CodeFacts DEF GatewayTypeOK, HonestRequest, ServerTimeout, GiveAnswer
<1> QED  BY <1>1, <1>2, <1>3, OthersHonest

LEMMA TokenExpiresKeeps ==
  ASSUME GatewayInv, NEW r \in HttpRequests, TokenExpires(r)
  PROVE  GatewayInv'
<1> USE DEF GatewayInv
<1> HonestRequest(r)
  OBVIOUS
<1>0. Writes(r)' = Writes(r)
  BY DEF Writes, Service, Call, TokenExpires
<1>1. GatewayTypeOK'
  BY CodeFacts DEF GatewayTypeOK, TokenExpires
<1>2. OnlyOf(r)
  BY DEF GatewayTypeOK, OnlyOf, TokenExpires
<1>3. HonestRequest(r)'
  BY <1>0, CodeFacts DEF GatewayTypeOK, HonestRequest, TokenExpires
<1> QED  BY <1>1, <1>2, <1>3, OthersHonest

LEMMA VerifyBearerKeeps ==
  ASSUME GatewayInv, NEW r \in HttpRequests, VerifyBearer(r)
  PROVE  GatewayInv'
<1> USE DEF GatewayInv
<1> HonestRequest(r)
  OBVIOUS
<1>0. Writes(r)' = Writes(r)
  BY DEF Writes, Service, Call, VerifyBearer, Return
<1>1. GatewayTypeOK'
  BY CodeFacts DEF GatewayTypeOK, VerifyBearer, Return
<1>2. OnlyOf(r)
  BY DEF GatewayTypeOK, OnlyOf, VerifyBearer, Return
<1>3. HonestRequest(r)'
  BY <1>0, CodeFacts DEF GatewayTypeOK, HonestRequest, VerifyBearer, Return
<1> QED  BY <1>1, <1>2, <1>3, OthersHonest

LEMMA RefusedKeeps ==
  ASSUME GatewayInv, NEW r \in HttpRequests, Refused(r)
  PROVE  GatewayInv'
<1> USE DEF GatewayInv
<1> HonestRequest(r)
  OBVIOUS
<1>0. Writes(r)' = Writes(r)
  BY DEF Writes, Service, Call, Refused, Return
<1>a. handling[r] # "idle"
  BY DEF HonestRequest, Refused
<1>b. Service(r) \in ServiceNames
  BY <1>a, RouteNames DEF HonestRequest, Service
<1>c. Named(Service(r)) \subseteq Codes \ {"OK"}
  BY <1>b, NamedCodes
<1>1. GatewayTypeOK'
  BY CodeFacts, <1>c DEF GatewayTypeOK, Refused, Return
<1>2. OnlyOf(r)
  BY DEF GatewayTypeOK, OnlyOf, Refused, Return
<1>3. HonestRequest(r)'
  BY <1>0, CodeFacts, <1>c DEF GatewayTypeOK, HonestRequest, Refused, Return
<1> QED  BY <1>1, <1>2, <1>3, OthersHonest

LEMMA FailOpenKeeps ==
  ASSUME GatewayInv, NEW r \in HttpRequests, FailOpen(r)
  PROVE  GatewayInv'
<1> USE DEF GatewayInv
<1> HonestRequest(r)
  OBVIOUS
<1>0. Writes(r)' = Writes(r)
  BY DEF Writes, Service, Call, FailOpen, Return
<1>1. GatewayTypeOK'
  BY CodeFacts DEF GatewayTypeOK, FailOpen, Return
<1>2. OnlyOf(r)
  BY DEF GatewayTypeOK, OnlyOf, FailOpen, Return
<1>3. HonestRequest(r)'
  BY <1>0, CodeFacts DEF GatewayTypeOK, HonestRequest, FailOpen, Return
<1> QED  BY <1>1, <1>2, <1>3, OthersHonest

LEMMA ServiceCommitKeeps ==
  ASSUME GatewayInv, NEW r \in HttpRequests, Commit(r)
  PROVE  GatewayInv'
<1> USE DEF GatewayInv
<1> HonestRequest(r)
  OBVIOUS
<1>0. Writes(r)' = Writes(r)
  BY DEF Writes, Service, Call, Commit
<1>1. GatewayTypeOK'
  BY CodeFacts DEF GatewayTypeOK, Commit
<1>2. OnlyOf(r)
  BY DEF GatewayTypeOK, OnlyOf, Commit
<1>3. HonestRequest(r)'
  BY <1>0, CodeFacts DEF GatewayTypeOK, HonestRequest, Commit
<1> QED  BY <1>1, <1>2, <1>3, OthersHonest

LEMMA SucceedKeeps ==
  ASSUME GatewayInv, NEW r \in HttpRequests, Succeed(r)
  PROVE  GatewayInv'
<1> USE DEF GatewayInv
<1> HonestRequest(r)
  OBVIOUS
<1>0. Writes(r)' = Writes(r)
  BY DEF Writes, Service, Call, Succeed, Return
<1>1. GatewayTypeOK'
  BY CodeFacts DEF GatewayTypeOK, Succeed, Return
<1>2. OnlyOf(r)
  BY DEF GatewayTypeOK, OnlyOf, Succeed, Return
<1>a. effect[r] \/ ~Writes(r)
  BY DEF Succeed, Writes
<1>3. HonestRequest(r)'
  BY <1>0, <1>a, CodeFacts DEF GatewayTypeOK, HonestRequest, Succeed, Return
<1> QED  BY <1>1, <1>2, <1>3, OthersHonest

LEMMA GatewayInvStep == GatewayInv /\ [GatewayNext]_gatewayVars => GatewayInv'
<1> SUFFICES ASSUME GatewayInv, [GatewayNext]_gatewayVars PROVE GatewayInv'
  OBVIOUS
<1>1. CASE UNCHANGED gatewayVars
  <2>1. GatewayTypeOK'
    BY <1>1 DEF GatewayInv, GatewayTypeOK, gatewayVars
  <2>2. ASSUME NEW r \in HttpRequests PROVE HonestRequest(r)'
    BY <1>1 DEF GatewayInv, HonestRequest, Writes, Service, Call, gatewayVars
  <2> QED  BY <2>1, <2>2 DEF GatewayInv
<1>2. ASSUME NEW r \in HttpRequests, GatewayStep(r) \/ ServiceStep(r)
      PROVE  GatewayInv'
  <2>1. CASE \E to \in Routes, token, header \in BOOLEAN : Receive(r, to, token, header)
    BY <2>1, ReceiveKeeps
  <2>2. CASE Authenticate(r)
    BY <2>2, AuthenticateKeeps
  <2>3. CASE RequireOperatorHeader(r)
    BY <2>3, RequireOperatorHeaderKeeps
  <2>4. CASE RefuseInput(r)
    BY <2>4, RefuseInputKeeps
  <2>5. CASE CallService(r)
    BY <2>5, CallServiceKeeps
  <2>6. CASE CallFails(r)
    BY <2>6, CallFailsKeeps
  <2>7. CASE CallReturns(r)
    BY <2>7, CallReturnsKeeps
  <2>8. CASE RecordBehavior(r)
    BY <2>8, RecordBehaviorKeeps
  <2>9. CASE WriteJSONValue(r)
    BY <2>9, WriteJSONValueKeeps
  <2>10. CASE ServerTimeout(r)
    BY <2>10, ServerTimeoutKeeps
  <2>11. CASE TokenExpires(r)
    BY <2>11, TokenExpiresKeeps
  <2>12. CASE VerifyBearer(r)
    BY <2>12, VerifyBearerKeeps
  <2>13. CASE Refused(r)
    BY <2>13, RefusedKeeps
  <2>14. CASE Commit(r)
    BY <2>14, ServiceCommitKeeps
  <2>15. CASE Succeed(r)
    BY <2>15, SucceedKeeps
  <2>16. CASE FailOpen(r)
    BY <2>16, FailOpenKeeps
  <2> QED  BY <1>2, <2>1, <2>2, <2>3, <2>4, <2>5, <2>6, <2>7, <2>8, <2>9, <2>10, <2>11, <2>12,
              <2>13, <2>14, <2>15, <2>16 DEF GatewayStep, ServiceStep
<1> QED  BY <1>1, <1>2 DEF GatewayNext

\* Every request that is on its way through the gateway and its service is where its answer,
\* its code, its event and what is in the database say (middleware.go, the handlers, the
\* gRPC servers).
THEOREM GatewayInvariant == GatewaySpec => []GatewayInv
BY GatewayInvInit, GatewayInvStep, PTL DEF GatewaySpec

\* A 2xx is the answer to what was done, a 4xx to what was not and will not be, but for a
\* payment another caller settles; an event is recorded only of what was done.
THEOREM HonestAnswers == GatewaySpec => []AnswersAreHonest
<1>1. GatewayInv => AnswersAreHonest
  <2> SUFFICES ASSUME GatewayInv, NEW r \in HttpRequests
               PROVE  /\ httpAnswer[r] = 200 /\ Writes(r) => effect[r]
                      /\ httpAnswer[r] \in 400 .. 499 => ~effect[r] \/ grpcCode[r] = "Aborted"
                      /\ event[r] # "none" => effect[r] \/ (~Writes(r) /\ grpcCode[r] = "OK")
    BY DEF AnswersAreHonest, Writes
  <2>1. HonestRequest(r)
    BY DEF GatewayInv
  <2> QED  BY <2>1 DEF HonestRequest
<1> QED  BY <1>1, GatewayInvariant, PTL

--------------------------------------------------------------------------------
(* OrderRecords                                                              *)

\* A row that scanOrder and loadOrderItems take.
Readable ==
  {row \in [shipping : AddressInputs, candidates : RuleLists, applied : PromotionRules \cup {None}] :
     scanOrder(row) /\ loadOrderItems(row)}

\* What a call of CreateOrder has read was checked by the program it comes from.
CreationInv ==
  /\ creation \in [pc : {"none", "products", "promotions", "item", "insert"},
                   shipping : AddressInputs \cup {None}, candidates : RuleLists,
                   applied : PromotionRules \cup {None}]
  /\ creation.pc # "none" =>
       /\ creation.shipping \in AddressInputs
       /\ validStoredAddress(creation.shipping)
       /\ Len(orderRows) < MaxOrders

RecordsInv ==
  /\ savedAddress = None \/ (savedAddress \in AddressInputs /\ validateAddress(savedAddress))
  /\ CreationInv
  /\ orderRows \in Seq(Readable)
  /\ Len(orderRows) <= MaxOrders
  /\ created = orderRows

LEMMA EmptyList == <<>> \in RuleLists
BY DEF RuleLists

LEMMA CandidatesAreRules ==
  ASSUME NEW list \in RuleLists, NEW p \in Appliable(list)
  PROVE  p \in PromotionRules \cup {None}
<1>1. [id |-> 2, type |-> "type", threshold |-> None, discount |-> "money"] \in PromotionRules
  BY DEF PromotionRules
<1>2. \A i \in DOMAIN list : list[i] \in PromotionRules
  BY <1>1 DEF RuleLists
<1> QED  BY <1>2 DEF Appliable

LEMMA NothingRead == NoCreation \in [pc : {"none"}, shipping : {None}, candidates : RuleLists, applied : {None}]
BY EmptyList DEF NoCreation

LEMMA RecordsInvInit == RecordsInit => RecordsInv
<1> SUFFICES ASSUME RecordsInit PROVE RecordsInv
  OBVIOUS
<1>1. CreationInv
  BY NothingRead DEF RecordsInit, CreationInv
<1> QED  BY <1>1, OrderRecordsAssumption DEF RecordsInit, RecordsInv

LEMMA AddressKeeps ==
  ASSUME RecordsInv, (\E input \in AddressInputs : SaveAddress(input)) \/ DeleteMyAddress
  PROVE  RecordsInv'
BY DEF RecordsInv, CreationInv, SaveAddress, DeleteMyAddress

LEMMA GiveUpKeeps ==
  ASSUME RecordsInv, GiveUpOrder
  PROVE  RecordsInv'
<1>1. CreationInv'
  BY NothingRead DEF CreationInv, GiveUpOrder
<1> QED  BY <1>1 DEF RecordsInv, GiveUpOrder

LEMMA SnapshotKeeps ==
  ASSUME RecordsInv, GetMyAddressSnapshot
  PROVE  RecordsInv'
<1>1. savedAddress \in AddressInputs /\ validStoredAddress(savedAddress)
  BY DEF RecordsInv, GetMyAddressSnapshot, validateAddress, validStoredAddress
<1>2. CreationInv'
  BY <1>1 DEF RecordsInv, CreationInv, GetMyAddressSnapshot, Reach
<1> QED  BY <1>2 DEF RecordsInv, GetMyAddressSnapshot, Reach

LEMMA ProductsKeep ==
  ASSUME RecordsInv, GetCheckoutSKUs
  PROVE  RecordsInv'
<1>1. ASSUME Reach("promotions", creation) PROVE RecordsInv'
  <2>1. CreationInv'
    BY <1>1 DEF RecordsInv, CreationInv, GetCheckoutSKUs, Reach
  <2> QED  BY <1>1, <2>1 DEF RecordsInv, Reach
<1> QED  BY <1>1, GiveUpKeeps DEF GetCheckoutSKUs

LEMMA PromotionsKeep ==
  ASSUME RecordsInv, GetPromotions
  PROVE  RecordsInv'
<1>1. CreationInv'
  BY DEF RecordsInv, CreationInv, GetPromotions, Reach
<1> QED  BY <1>1 DEF RecordsInv, GetPromotions, Reach

LEMMA PriceKeeps ==
  ASSUME RecordsInv, PriceItem
  PROVE  RecordsInv'
<1>1. ASSUME creation.pc = "item", NEW p \in Appliable(creation.candidates),
             Reach("insert", [creation EXCEPT !.applied = p])
      PROVE  RecordsInv'
  <2>1. p \in PromotionRules \cup {None}
    BY CandidatesAreRules DEF RecordsInv, CreationInv
  <2>2. CreationInv'
    BY <1>1, <2>1 DEF RecordsInv, CreationInv, Reach
  <2> QED  BY <1>1, <2>2 DEF RecordsInv, Reach
<1> QED  BY <1>1, GiveUpKeeps DEF PriceItem

LEMMA StoreKeeps ==
  ASSUME RecordsInv, StoreOrder
  PROVE  RecordsInv'
<1> DEFINE row == [shipping |-> creation.shipping, candidates |-> creation.candidates,
                   applied |-> creation.applied]
<1>1. CASE /\ marshalPromotions(creation.candidates)
           /\ creation.applied # None => validPromotion(creation.applied)
           /\ appliedPromotionMatches(creation.applied, creation.candidates)
  <2>1. scanOrder(row) /\ loadOrderItems(row)
    BY <1>1 DEF RecordsInv, CreationInv, StoreOrder, scanOrder, loadOrderItems, marshalPromotions,
                unmarshalPromotions
  <2>2. row \in Readable
    BY <2>1 DEF RecordsInv, CreationInv, StoreOrder, Readable
  <2>3. orderRows' = Append(orderRows, row) /\ created' = Append(created, row)
        /\ creation' = NoCreation /\ savedAddress' = savedAddress
    BY <1>1 DEF StoreOrder
  <2>4. orderRows' \in Seq(Readable) /\ Len(orderRows') = Len(orderRows) + 1
    BY <2>2, <2>3 DEF RecordsInv
  <2>5. CreationInv'
    BY <2>3, NothingRead DEF CreationInv
  <2>6. Len(orderRows') <= MaxOrders
    BY <2>4, OrderRecordsAssumption DEF RecordsInv, CreationInv, StoreOrder
  <2> QED  BY <2>3, <2>4, <2>5, <2>6 DEF RecordsInv
<1> QED  BY <1>1, GiveUpKeeps DEF StoreOrder

LEMMA RecordsInvStep == RecordsInv /\ [RecordsNext]_recordVars => RecordsInv'
<1> SUFFICES ASSUME RecordsInv, [RecordsNext]_recordVars PROVE RecordsInv'
  OBVIOUS
<1>1. CASE UNCHANGED recordVars
  BY <1>1 DEF RecordsInv, CreationInv, recordVars
<1>2. CASE RecordsNext
  BY <1>2, AddressKeeps, SnapshotKeeps, ProductsKeep, PromotionsKeep, PriceKeeps, StoreKeeps
  DEF RecordsNext
<1> QED  BY <1>1, <1>2

\* A saved address has passed validateAddress, an order under way has an address that passed
\* validStoredAddress and a list of promotions that the catalog can hold, and every stored
\* order is one that scanOrder and loadOrderItems accept as it was returned.
THEOREM RecordsInvariant == RecordsSpec => []RecordsInv
BY RecordsInvInit, RecordsInvStep, PTL DEF RecordsSpec

\* GetOrder and ListOrders can decode, and show the sums of, every order that CreateOrder has
\* stored, whatever was in the address, the promotions and the prices it was made of.
THEOREM StoredOrdersAreReadable == RecordsSpec => []OrdersCanBeRead
<1>1. RecordsInv => OrdersCanBeRead
  <2> SUFFICES ASSUME RecordsInv PROVE ListOrders(orderRows) = [failed |-> FALSE, orders |-> created]
    BY DEF OrdersCanBeRead
  <2>1. \A i \in DOMAIN orderRows : scanOrder(orderRows[i]) /\ loadOrderItems(orderRows[i])
    BY DEF RecordsInv, Readable
  <2> QED  BY <2>1 DEF ListOrders, RecordsInv
<1> QED  BY <1>1, RecordsInvariant, PTL

--------------------------------------------------------------------------------
(* EventContracts                                                            *)

\* What the consumer of an event will find right with it.
PassesChecks(e) ==
  /\ e.topic = "review.events" => ReviewEventValid(e)
  /\ e.topic = "inventory.reservation.confirm" => ConfirmationValid(e)
  /\ e.topic \in {"knowledge.document.ingest", "knowledge.chunk.embed"} => DocumentEventValid(e)

ContractsInv ==
  /\ \A e \in underway : PassesChecks(e)
  /\ EventsAreAccepted

LEMMA NewIdIsNotBlank == ~IsBlank(NewId) /\ ~IsBlank(OrderNo) /\ ~IsBlank(Text(40, 0))
BY DEF IsBlank, NewId, OrderNo, Text, Trimmed

LEMMA ConfirmationIsAcceptable == PassesChecks(confirmationPayload)
BY NewIdIsNotBlank DEF PassesChecks, confirmationPayload, ConfirmationValid

LEMMA IngestIsAcceptable == PassesChecks(newIngestEvent)
BY NewIdIsNotBlank DEF PassesChecks, newIngestEvent, DocumentEventValid

LEMMA EmbedIsAcceptable == PassesChecks(newChunkEmbedEvent)
BY NewIdIsNotBlank DEF PassesChecks, newIngestEvent, newChunkEmbedEvent, DocumentEventValid

LEMMA BehaviorIsAcceptable ==
  ASSUME NEW payload
  PROVE  PassesChecks(behaviorMessage(payload))
BY DEF PassesChecks, behaviorMessage

\* The bounds of SubmitReview and of its consumer are those of one and the same text.
LEMMA ReviewIsAcceptable ==
  ASSUME NEW input \in SubmitReviewInputs, AcceptsReview(input)
  PROVE  PassesChecks(reviewSubmittedPayload(input))
<1> DEFINE e == reviewSubmittedPayload(input)
<1>1. input.content \in [runes : Nat, spaces : Nat]
  BY DEF SubmitReviewInputs, Some, Text
<1> DEFINE n == input.content.runes
<1>2. StoredContent(input) = [runes |-> n, spaces |-> 0] /\ n \in Nat
  BY <1>1 DEF StoredContent, Trimmed, Text
<1>3. n + 0 \in 1 .. 1000
  <2>1. Length(Trimmed(input.content)) \in 1 .. 1000
    BY DEF AcceptsReview
  <2> QED  BY <1>2, <2>1 DEF StoredContent, Length
<1> HIDE DEF n
<1>4. ~IsBlank(StoredContent(input)) /\ Length(StoredContent(input)) <= 1000
  <2>1. n # 0 /\ n + 0 <= 1000
    BY <1>2, <1>3
  <2>2. Length(StoredContent(input)) = n + 0
    BY <1>2 DEF Length
  <2>3. [runes |-> n, spaces |-> 0] # [runes |-> 0, spaces |-> 0]
    BY <2>1
  <2>4. ~IsBlank(StoredContent(input))
    BY <1>2, <2>3 DEF IsBlank, Trimmed, Text
  <2> QED  BY <2>1, <2>2, <2>4
<1>5. input.sku # 0 /\ input.rating \in 1 .. 5
  BY DEF AcceptsReview
<1>6. ReviewEventValid(e)
  BY <1>4, <1>5, NewIdIsNotBlank DEF ReviewEventValid, reviewSubmittedPayload
<1> QED  BY <1>6 DEF PassesChecks, reviewSubmittedPayload

\* A commit, and a consumer who finds the event acceptable.
LEMMA CommitKeepsContracts ==
  ASSUME ContractsInv, NEW e, PassesChecks(e), CommitEvent(e)
  PROVE  ContractsInv'
BY DEF ContractsInv, CommitEvent, EventsAreAccepted

LEMMA ConsumeKeepsContracts ==
  ASSUME ContractsInv, NEW e \in underway,
         \/ ConsumeReview(e) \/ ConsumeConfirmation(e) \/ ConsumeBehavior(e)
         \/ HandleDocumentIngest(e) \/ HandleChunkEmbed(e)
  PROVE  ContractsInv'
<1>0. PassesChecks(e)
  BY DEF ContractsInv
<1>1. ASSUME Accept(e) PROVE ContractsInv'
  BY <1>1 DEF ContractsInv, Accept, EventsAreAccepted
<1>2. CASE ConsumeReview(e)
  BY <1>0, <1>1, <1>2 DEF PassesChecks, ConsumeReview
<1>3. CASE ConsumeConfirmation(e)
  BY <1>0, <1>1, <1>3 DEF PassesChecks, ConsumeConfirmation
<1>4. CASE ConsumeBehavior(e)
  <2>1. CASE RefuseEvent(e)
    BY <1>4, <2>1 DEF ContractsInv, RefuseEvent, ConsumeBehavior, EventsAreAccepted
  <2> QED  BY <1>1, <1>4, <2>1 DEF ConsumeBehavior
<1>5. CASE HandleDocumentIngest(e)
  <2>1. IngestDocument(e)
    BY <1>0, <1>5 DEF PassesChecks, HandleDocumentIngest
  <2>2. CASE /\ underway' = (underway \ {e}) \cup {newChunkEmbedEvent}
             /\ UNCHANGED refused
    BY <2>2, EmbedIsAcceptable DEF ContractsInv, EventsAreAccepted
  <2> QED  BY <1>1, <2>1, <2>2 DEF IngestDocument
<1>6. CASE HandleChunkEmbed(e)
  BY <1>0, <1>1, <1>6 DEF PassesChecks, HandleChunkEmbed
<1> QED  BY <1>2, <1>3, <1>4, <1>5, <1>6

LEMMA ContractsInvStep == ContractsInv /\ [ContractsNext]_contractVars => ContractsInv'
<1> SUFFICES ASSUME ContractsInv, [ContractsNext]_contractVars PROVE ContractsInv'
  OBVIOUS
<1>1. CASE UNCHANGED contractVars
  BY <1>1 DEF ContractsInv, EventsAreAccepted, contractVars
<1>2. CASE SettlePayment
  BY <1>2, ConfirmationIsAcceptable, CommitKeepsContracts DEF SettlePayment
<1>3. ASSUME NEW input \in SubmitReviewInputs, ReviewItem(input) PROVE ContractsInv'
  BY <1>3, ReviewIsAcceptable, CommitKeepsContracts DEF ReviewItem
<1>4. ASSUME NEW payload \in BehaviorPayloads, Observe(payload) PROVE ContractsInv'
  BY <1>4, BehaviorIsAcceptable, CommitKeepsContracts DEF Observe
<1>5. ASSUME NEW input \in UploadInputs, Upload(input) PROVE ContractsInv'
  BY <1>5, IngestIsAcceptable, CommitKeepsContracts DEF Upload
<1>6. CASE RetryDocument
  BY <1>6, IngestIsAcceptable, CommitKeepsContracts DEF RetryDocument
<1>7. ASSUME NEW e \in underway,
             \/ ConsumeReview(e) \/ ConsumeConfirmation(e) \/ ConsumeBehavior(e)
             \/ HandleDocumentIngest(e) \/ HandleChunkEmbed(e)
      PROVE  ContractsInv'
  BY <1>7, ConsumeKeepsContracts
<1> QED  BY <1>1, <1>2, <1>3, <1>4, <1>5, <1>6, <1>7 DEF ContractsNext

\* What SettlePayment, SubmitReview, UploadDocument and RetryDocument commit to their
\* outboxes passes the checks of the consumers; none but messages of behaviour are refused.
THEOREM EventsMeetTheirChecks == ContractsSpec => []EventsAreAccepted
<1>1. ContractsInit => ContractsInv
  BY DEF ContractsInit, ContractsInv, EventsAreAccepted
<1>2. ContractsInv => EventsAreAccepted
  BY DEF ContractsInv
<1> QED  BY <1>1, <1>2, ContractsInvStep, PTL DEF ContractsSpec

--------------------------------------------------------------------------------
(* Processes                                                                 *)

LEMMA QuotientTimes ==
  ASSUME NEW a \in Nat, NEW n \in Nat \ {0}, NEW c \in Nat, c <= a \div n
  PROVE  n * c <= a
<1> DEFINE q == a \div n
<1>1. q \in Nat /\ n * q <= a
  OBVIOUS
<1>2. n * c <= n * q
  <2> HIDE DEF q
  <2>1. q \in Nat /\ c <= q
    BY <1>1 DEF q
  <2> QED  BY <2>1
<1>3. n * c \in Nat /\ n * q \in Nat
  BY <1>1
<1> QED  BY <1>1, <1>2, <1>3

LEMMA SmallIsNotWrapped ==
  ASSUME NEW n \in 0 .. MaxInt
  PROVE  Wrapped(n) = n
BY ProcessesAssumption DEF Wrapped

LEMMA LargeIsNegative ==
  ASSUME NEW n \in MaxInt + 1 .. 2 * MaxInt + 1
  PROVE  Wrapped(n) \in Int /\ Wrapped(n) < 0
<1>0. MaxInt \in Nat
  BY ProcessesAssumption
<1>1. (n + MaxInt + 1) % (2 * MaxInt + 2) = n - MaxInt - 1
  BY <1>0
<1> QED  BY <1>0, <1>1 DEF Wrapped

LEMMA SettingsAreInts ==
  ASSUME NEW s \in Settings
  PROVE  /\ s.batch \in Int /\ s.batch <= MaxInt
         /\ s.lease \in Int /\ s.lease <= MaxInt
         /\ s.call \in Int /\ s.call <= MaxInt
         /\ MaxInt \in Nat \ {0}
<1>1. s.batch \in Sizes /\ s.lease \in Sizes /\ s.call \in Sizes
  BY DEF Settings
<1>2. \A n \in Sizes : n \in Int /\ n <= MaxInt
  BY ProcessesAssumption
<1> QED  BY <1>1, <1>2, ProcessesAssumption

LEMMA OutboxBatchFits ==
  ASSUME NEW s \in Settings, OutboxAccepts(s)
  PROVE  OutboxCalls(s.batch) * s.call <= s.lease
<1> DEFINE n == 1 + 2 * s.batch
<1>1. s.batch \in Nat \ {0} /\ s.lease \in Nat \ {0} /\ s.call \in Nat \ {0} /\ n \in 0 .. 2 * MaxInt + 1
  BY SettingsAreInts DEF OutboxAccepts, AllPositive
<1>2. s.call <= Quotient(s.lease, Wrapped(n))
  BY DEF OutboxAccepts, OutboxCalls
<1>3. n <= MaxInt
  <2> SUFFICES ASSUME n > MaxInt PROVE FALSE
    BY <1>1, SettingsAreInts
  <2>1. n \in MaxInt + 1 .. 2 * MaxInt + 1
    BY <1>1, SettingsAreInts
  <2>2. Wrapped(n) \in Int /\ Wrapped(n) < 0
    BY <2>1, LargeIsNegative
  <2> HIDE DEF n
  <2>3. Quotient(s.lease, Wrapped(n)) = -(s.lease \div (-Wrapped(n)))
    BY <2>2 DEF Quotient
  <2>4. s.lease \div (-Wrapped(n)) \in Nat
    BY <1>1, <2>2
  <2> QED  BY <1>1, <1>2, <2>3, <2>4
<1>4. Wrapped(n) = n
  BY <1>1, <1>3, SettingsAreInts, SmallIsNotWrapped
<1>5. s.call <= s.lease \div n
  BY <1>1, <1>2, <1>4 DEF Quotient
<1>6. n \in Nat \ {0}
  BY <1>1
<1> HIDE DEF n
<1>7. n * s.call <= s.lease
  BY <1>1, <1>5, <1>6, QuotientTimes
<1> QED  BY <1>7 DEF OutboxCalls, n

LEMMA RecoveryBatchFits ==
  ASSUME NEW s \in Settings, RecoveryAccepts(s)
  PROVE  RecoveryCalls(s.batch) * s.call <= s.lease
<1> DEFINE n == 1 + 5 * s.batch
<1>1. s.batch \in Nat \ {0} /\ s.lease \in Nat \ {0} /\ s.call \in Nat \ {0} /\ n \in Nat \ {0} /\ MaxInt \in Nat
  BY SettingsAreInts DEF RecoveryAccepts, AllPositive
<1>2. s.call <= MaxInt \div n /\ s.lease >= Wrapped(s.call * n)
  BY DEF RecoveryAccepts, RecoveryCalls
<1> HIDE DEF n
<1>3. n * s.call <= MaxInt
  BY <1>1, <1>2, QuotientTimes
<1>4. n * s.call = s.call * n /\ s.call * n \in Nat
  BY <1>1
<1>5. Wrapped(s.call * n) = s.call * n
  BY <1>1, <1>3, <1>4, SmallIsNotWrapped
<1> QED  BY <1>1, <1>2, <1>4, <1>5 DEF RecoveryCalls, n

\* The whole batch is up to three times what the check reckons.
LEMMA CacheBatchEnds ==
  ASSUME NEW s \in Settings, CacheAccepts(s)
  PROVE  CacheCalls(s.batch) * CappedCall(s) <= 2 * s.lease + CappedCall(s)
<1> DEFINE c == CappedCall(s)
           n == s.batch
<1>1. n > 0 /\ s.lease > 0 /\ c > 0 /\ c <= MaxInt \div n /\ s.lease >= Wrapped(c * n)
  BY DEF CacheAccepts, FitsLease
<1>2. n \in Nat \ {0} /\ s.lease \in Nat /\ MaxInt \in Nat
  BY <1>1, SettingsAreInts
<1>3. c \in Int
  BY <1>2, SettingsAreInts DEF CappedCall, Quotient
<1> HIDE DEF c, n
<1>4. n * c <= MaxInt
  BY <1>1, <1>2, <1>3, QuotientTimes
<1>5. n * c = c * n /\ c * n \in Nat
  BY <1>1, <1>2, <1>3
<1>6. Wrapped(c * n) = c * n
  BY <1>2, <1>4, <1>5, SmallIsNotWrapped
<1>7. n * c <= s.lease
  BY <1>1, <1>5, <1>6
<1>8. (1 + 2 * n) * c = c + 2 * (n * c) /\ n * c \in Int
  BY <1>2, <1>3
<1>9. (1 + 2 * n) * c <= 2 * s.lease + c
  BY <1>2, <1>3, <1>7, <1>8
<1> QED  BY <1>9 DEF CacheCalls, c, n

\* What is accepted bounds its batch.
LEMMA AcceptedBounds ==
  ASSUME NEW w \in DOMAIN Workers, NEW s \in Settings, Accepts(w, s)
  PROVE  /\ Workers[w].leases \in {"outbox", "recovery"} => LongestBatch(w, s) <= s.lease
         /\ Workers[w].leases = "cache" => LongestBatch(w, s) <= 2 * s.lease + CappedCall(s)
<1>1. CASE Workers[w].leases = "outbox"
  BY <1>1, OutboxBatchFits DEF Accepts, LongestBatch
<1>2. CASE Workers[w].leases = "recovery"
  BY <1>2, RecoveryBatchFits DEF Accepts, LongestBatch
<1>3. CASE Workers[w].leases = "cache"
  BY <1>3, CacheBatchEnds DEF Accepts, LongestBatch
<1> QED  BY <1>1, <1>2, <1>3

--------------------------------------------------------------------------------

LEMMA WorkerNames ==
  DOMAIN Workers = {"cache", "confirmation", "expiry", "outbox", "recovery", "reviews", "relay",
                    "ingest", "embed", "behavior"}
BY DEF Workers

LEMMA WorkerPrograms ==
  ASSUME NEW w \in DOMAIN Workers
  PROVE  /\ Workers[w].of \in {"product", "order", "knowledge", "gateway"}
         /\ Workers[w].under \in WorkerContexts
         /\ Workers[w].leases \in {"outbox", "recovery", "cache", "expiry", None}
<1>1. CASE w = "cache"
  BY <1>1 DEF Workers, WorkerContexts
<1>2. CASE w = "confirmation"
  BY <1>2 DEF Workers, WorkerContexts
<1>3. CASE w = "expiry"
  BY <1>3 DEF Workers, WorkerContexts
<1>4. CASE w = "outbox"
  BY <1>4 DEF Workers, WorkerContexts
<1>5. CASE w = "recovery"
  BY <1>5 DEF Workers, WorkerContexts
<1>6. CASE w = "reviews"
  BY <1>6 DEF Workers, WorkerContexts
<1>7. CASE w = "relay"
  BY <1>7 DEF Workers, WorkerContexts
<1>8. CASE w = "ingest"
  BY <1>8 DEF Workers, WorkerContexts
<1>9. CASE w = "embed"
  BY <1>9 DEF Workers, WorkerContexts
<1>10. CASE w = "behavior"
  BY <1>10 DEF Workers, WorkerContexts
<1> QED  BY <1>1, <1>2, <1>3, <1>4, <1>5, <1>6, <1>7, <1>8, <1>9, <1>10, WorkerNames

LEMMA MainsAreLists ==
  ASSUME NEW p \in DOMAIN Main
  PROVE  /\ Len(Main[p]) \in Nat /\ DOMAIN Main[p] = 1 .. Len(Main[p])
         /\ \A i, j \in DOMAIN Main[p] : Main[p][i] = Main[p][j] => i = j
<1>1. CASE p = "user"
  <2>1. Main[p] = UserMain
    BY <1>1 DEF Main
  <2>2. Len(UserMain) \in Nat /\ DOMAIN UserMain = 1 .. Len(UserMain)
    BY DEF UserMain
  <2>3. \A i, j \in DOMAIN UserMain : UserMain[i] = UserMain[j] => i = j
    BY DEF UserMain
  <2> QED  BY <2>1, <2>2, <2>3
<1>2. CASE p = "agent"
  <2>1. Main[p] = AgentMain
    BY <1>2 DEF Main
  <2>2. Len(AgentMain) \in Nat /\ DOMAIN AgentMain = 1 .. Len(AgentMain)
    BY DEF AgentMain
  <2>3. \A i, j \in DOMAIN AgentMain : AgentMain[i] = AgentMain[j] => i = j
    BY DEF AgentMain
  <2> QED  BY <2>1, <2>2, <2>3
<1>3. CASE p = "knowledge"
  <2>1. Main[p] = KnowledgeMain
    BY <1>3 DEF Main
  <2>2. Len(KnowledgeMain) \in Nat /\ DOMAIN KnowledgeMain = 1 .. Len(KnowledgeMain)
    BY DEF KnowledgeMain
  <2>3. \A i, j \in DOMAIN KnowledgeMain : KnowledgeMain[i] = KnowledgeMain[j] => i = j
    BY DEF KnowledgeMain
  <2> QED  BY <2>1, <2>2, <2>3
<1>4. CASE p = "order"
  <2>1. Main[p] = OrderMain
    BY <1>4 DEF Main
  <2>2. Len(OrderMain) \in Nat /\ DOMAIN OrderMain = 1 .. Len(OrderMain)
    BY DEF OrderMain
  <2>3. \A i, j \in DOMAIN OrderMain : OrderMain[i] = OrderMain[j] => i = j
    BY DEF OrderMain
  <2> QED  BY <2>1, <2>2, <2>3
<1>5. CASE p = "product"
  <2>1. Main[p] = ProductMain
    BY <1>5 DEF Main
  <2>2. Len(ProductMain) \in Nat /\ DOMAIN ProductMain = 1 .. Len(ProductMain)
    BY DEF ProductMain
  <2>3. \A i, j \in DOMAIN ProductMain : ProductMain[i] = ProductMain[j] => i = j
    BY DEF ProductMain
  <2> QED  BY <2>1, <2>2, <2>3
<1>6. CASE p = "gateway"
  <2>1. Main[p] = GatewayMain
    BY <1>6 DEF Main
  <2>2. Len(GatewayMain) \in Nat /\ DOMAIN GatewayMain = 1 .. Len(GatewayMain)
    BY DEF GatewayMain
  <2>3. \A i, j \in DOMAIN GatewayMain : GatewayMain[i] = GatewayMain[j] => i = j
    BY DEF GatewayMain
  <2> QED  BY <2>1, <2>2, <2>3
<1> QED  BY <1>1, <1>2, <1>3, <1>4, <1>5, <1>6 DEF Main

\* In a main, a worker's context comes after all it works with and after its settings; of
\* what it works with only its own cache or reader may be skipped.
UsesComeFirst(w, i) ==
  \A u \in Workers[w].uses :
    /\ \E j \in 1 .. i - 1 : Main[Workers[w].of][j] = u
    /\ u \notin Checks
    /\ u \in Skippable => u = w

SettingsComeFirst(w, i) ==
  Workers[w].leases # None => \E j \in 1 .. i - 1 : Main[Workers[w].of][j] = "settings"

LEMMA WorkersComeLast ==
  ASSUME NEW w \in DOMAIN Workers,
         NEW i \in DOMAIN Main[Workers[w].of], Main[Workers[w].of][i] = Workers[w].under
  PROVE  UsesComeFirst(w, i) /\ SettingsComeFirst(w, i)
<1>1. CASE w = "cache"
  <2>1. Main[Workers[w].of] = ProductMain /\ Workers[w].under = "cacheWorker"
        /\ Workers[w].uses = {"db", "cache"}
    BY <1>1 DEF Workers, Main
  <2>2. i = 9
    BY <2>1 DEF ProductMain
  <2>3. UsesComeFirst(w, i)
    BY <1>1, <2>1, <2>2 DEF UsesComeFirst, ProductMain, Checks, Skippable
  <2>4. SettingsComeFirst(w, i)
    BY <2>1, <2>2 DEF SettingsComeFirst, ProductMain
  <2> QED  BY <2>3, <2>4
<1>2. CASE w = "confirmation"
  <2>1. Main[Workers[w].of] = ProductMain /\ Workers[w].under = "workers"
        /\ Workers[w].uses = {"db", "confirmation"}
    BY <1>2 DEF Workers, Main
  <2>2. i = 10
    BY <2>1 DEF ProductMain
  <2>3. UsesComeFirst(w, i)
    BY <1>2, <2>1, <2>2 DEF UsesComeFirst, ProductMain, Checks, Skippable
  <2>4. SettingsComeFirst(w, i)
    BY <2>1, <2>2 DEF SettingsComeFirst, ProductMain
  <2> QED  BY <2>3, <2>4
<1>3. CASE w = "expiry"
  <2>1. Main[Workers[w].of] = ProductMain /\ Workers[w].under = "workers"
        /\ Workers[w].uses = {"db", "order"}
    BY <1>3 DEF Workers, Main
  <2>2. i = 10
    BY <2>1 DEF ProductMain
  <2>3. UsesComeFirst(w, i)
    BY <1>3, <2>1, <2>2 DEF UsesComeFirst, ProductMain, Checks, Skippable
  <2>4. SettingsComeFirst(w, i)
    BY <2>1, <2>2 DEF SettingsComeFirst, ProductMain
  <2> QED  BY <2>3, <2>4
<1>4. CASE w = "outbox"
  <2>1. Main[Workers[w].of] = OrderMain /\ Workers[w].under = "workers"
        /\ Workers[w].uses = {"db", "publisher"}
    BY <1>4 DEF Workers, Main
  <2>2. i = 11
    BY <2>1 DEF OrderMain
  <2>3. UsesComeFirst(w, i)
    BY <1>4, <2>1, <2>2 DEF UsesComeFirst, OrderMain, Checks, Skippable
  <2>4. SettingsComeFirst(w, i)
    BY <2>1, <2>2 DEF SettingsComeFirst, OrderMain
  <2> QED  BY <2>3, <2>4
<1>5. CASE w = "recovery"
  <2>1. Main[Workers[w].of] = OrderMain /\ Workers[w].under = "workers"
        /\ Workers[w].uses = {"db", "product"}
    BY <1>5 DEF Workers, Main
  <2>2. i = 11
    BY <2>1 DEF OrderMain
  <2>3. UsesComeFirst(w, i)
    BY <1>5, <2>1, <2>2 DEF UsesComeFirst, OrderMain, Checks, Skippable
  <2>4. SettingsComeFirst(w, i)
    BY <2>1, <2>2 DEF SettingsComeFirst, OrderMain
  <2> QED  BY <2>3, <2>4
<1>6. CASE w = "reviews"
  <2>1. Main[Workers[w].of] = OrderMain /\ Workers[w].under = "workers"
        /\ Workers[w].uses = {"db", "reviews"}
    BY <1>6 DEF Workers, Main
  <2>2. i = 11
    BY <2>1 DEF OrderMain
  <2>3. UsesComeFirst(w, i)
    BY <1>6, <2>1, <2>2 DEF UsesComeFirst, OrderMain, Checks, Skippable
  <2>4. SettingsComeFirst(w, i)
    BY <2>1, <2>2 DEF SettingsComeFirst, OrderMain
  <2> QED  BY <2>3, <2>4
<1>7. CASE w = "relay"
  <2>1. Main[Workers[w].of] = KnowledgeMain /\ Workers[w].under = "workers"
        /\ Workers[w].uses = {"db", "publisher"}
    BY <1>7 DEF Workers, Main
  <2>2. i = 12
    BY <2>1 DEF KnowledgeMain
  <2>3. UsesComeFirst(w, i)
    BY <1>7, <2>1, <2>2 DEF UsesComeFirst, KnowledgeMain, Checks, Skippable
  <2>4. SettingsComeFirst(w, i)
    BY <2>1, <2>2 DEF SettingsComeFirst, KnowledgeMain
  <2> QED  BY <2>3, <2>4
<1>8. CASE w = "ingest"
  <2>1. Main[Workers[w].of] = KnowledgeMain /\ Workers[w].under = "workers"
        /\ Workers[w].uses = {"db", "ingest"}
    BY <1>8 DEF Workers, Main
  <2>2. i = 12
    BY <2>1 DEF KnowledgeMain
  <2>3. UsesComeFirst(w, i)
    BY <1>8, <2>1, <2>2 DEF UsesComeFirst, KnowledgeMain, Checks, Skippable
  <2>4. SettingsComeFirst(w, i)
    BY <2>1, <2>2 DEF SettingsComeFirst, KnowledgeMain
  <2> QED  BY <2>3, <2>4
<1>9. CASE w = "embed"
  <2>1. Main[Workers[w].of] = KnowledgeMain /\ Workers[w].under = "workers"
        /\ Workers[w].uses = {"db", "embed"}
    BY <1>9 DEF Workers, Main
  <2>2. i = 12
    BY <2>1 DEF KnowledgeMain
  <2>3. UsesComeFirst(w, i)
    BY <1>9, <2>1, <2>2 DEF UsesComeFirst, KnowledgeMain, Checks, Skippable
  <2>4. SettingsComeFirst(w, i)
    BY <2>1, <2>2 DEF SettingsComeFirst, KnowledgeMain
  <2> QED  BY <2>3, <2>4
<1>10. CASE w = "behavior"
  <2>1. Main[Workers[w].of] = GatewayMain /\ Workers[w].under = "workers"
        /\ Workers[w].uses = {"db", "publisher"}
    BY <1>10 DEF Workers, Main
  <2>2. i = 10
    BY <2>1 DEF GatewayMain
  <2>3. UsesComeFirst(w, i)
    BY <1>10, <2>1, <2>2 DEF UsesComeFirst, GatewayMain, Checks, Skippable
  <2>4. SettingsComeFirst(w, i)
    BY <1>10 DEF SettingsComeFirst, Workers
  <2> QED  BY <2>3, <2>4
<1> QED  BY <1>1, <1>2, <1>3, <1>4, <1>5, <1>6, <1>7, <1>8, <1>9, <1>10, WorkerNames

--------------------------------------------------------------------------------

AllSteps == UNION {Steps(p) : p \in DOMAIN Main}

\* The step of the main that opens what a worker's context is has been done.
Begun(w) == \E i \in 1 .. reached : Main[program][i] = Workers[w].under

\* What a worker works with was opened before its context.
Held(w) ==
  \A k \in 1 .. Len(open) : open[k] = Workers[w].under =>
    \A u \in Workers[w].uses : \E j \in 1 .. k - 1 : open[j] = u

ProcessTypes ==
  /\ phase \in {"down", "starting", "serving", "closing", "gone"}
  /\ reached \in Nat
  /\ open \in Seq(AllSteps)
  /\ worker \in [DOMAIN Workers -> {"none", "running", "pausing", "over"}]
  /\ phase = "down" => reached = 0 /\ open = <<>> /\ tuned = None /\ \A w \in DOMAIN Workers : ~Working(w)
  /\ phase # "down" => program \in DOMAIN Main /\ reached <= Len(Main[program])

\* What is open was opened by a step that is done; while the main goes on, each of these
\* steps was a check, or what it opened is open, unless it could be skipped.
OpenInv ==
  /\ \A k \in 1 .. Len(open) : \E i \in 1 .. reached : open[k] = Main[program][i]
  /\ phase = "starting" =>
       \A i \in 1 .. reached :
         Main[program][i] \in Checks \cup Skippable \/ \E k \in 1 .. Len(open) : open[k] = Main[program][i]

WorkersInv ==
  \A w \in DOMAIN Workers : Working(w) => Workers[w].of = program /\ Begun(w) /\ Held(w)

\* Settings are accepted once they are checked.
TunedInv ==
  tuned # None =>
    /\ tuned \in (DOMAIN Workers) \X Settings
    /\ Workers[tuned[1]].leases # None
    /\ (\E i \in 1 .. reached : Main[program][i] = "settings") => Accepts(tuned[1], tuned[2])

ProcessesInv == ProcessTypes /\ OpenInv /\ WorkersInv /\ TunedInv

LEMMA ProcessesInvInit == ProcessesInit => ProcessesInv
BY DEF ProcessesInit, ProcessesInv, ProcessTypes, OpenInv, WorkersInv, TunedInv, Working

LEMMA BootKeeps ==
  ASSUME ProcessesInv, Boot
  PROVE  ProcessesInv'
<1> USE DEF ProcessesInv
<1>1. reached = 0 /\ open = <<>> /\ \A w \in DOMAIN Workers : ~Working(w)
  BY DEF Boot, ProcessTypes
<1>2. ProcessTypes'
  BY <1>1, MainsAreLists DEF Boot, ProcessTypes
<1>3. OpenInv' /\ WorkersInv'
  BY <1>1 DEF Boot, OpenInv, WorkersInv, Working
<1>4. TunedInv'
  <2>1. ASSUME tuned' # None
        PROVE  /\ tuned' \in (DOMAIN Workers) \X Settings
               /\ Workers[tuned'[1]].leases # None
    <3>1. PICK w \in WorkersOf(program'), s \in Settings :
            tuned' = <<w, s>> /\ Workers[w].leases # None
      BY <2>1 DEF Boot
    <3>2. w \in DOMAIN Workers /\ tuned'[1] = w
      BY <3>1 DEF WorkersOf
    <3> QED  BY <3>1, <3>2
  <2>2. 1 .. reached' = {}
    BY <1>1 DEF Boot
  <2> QED  BY <2>1, <2>2 DEF TunedInv
<1> QED  BY <1>2, <1>3, <1>4

LEMMA StepDone ==
  ASSUME ProcessTypes, phase = "starting", reached < Len(Main[program])
  PROVE  /\ reached + 1 \in DOMAIN Main[program] /\ reached + 1 \in Nat /\ reached + 1 <= Len(Main[program])
         /\ 1 .. reached + 1 = (1 .. reached) \cup {reached + 1}
         /\ \A i \in 1 .. reached : i \in DOMAIN Main[program] /\ Main[program][i] # NextStep
         /\ NextStep \in AllSteps
<1>1. program \in DOMAIN Main /\ reached \in Nat
  BY DEF ProcessTypes
<1>2. /\ Len(Main[program]) \in Nat /\ DOMAIN Main[program] = 1 .. Len(Main[program])
      /\ \A i, j \in DOMAIN Main[program] : Main[program][i] = Main[program][j] => i = j
  BY <1>1, MainsAreLists
<1> QED  BY <1>1, <1>2 DEF NextStep, AllSteps, Steps

\* A step of the main that opens nothing.
LEMMA PassedKeeps ==
  ASSUME ProcessesInv, Check \/ Skip
  PROVE  ProcessesInv'
<1> USE DEF ProcessesInv
<1>1. /\ phase = "starting" /\ reached < Len(Main[program]) /\ reached' = reached + 1
      /\ NextStep \in Checks \cup Skippable
      /\ UNCHANGED <<program, environment, tuned, phase, open, worker>>
  BY DEF Check, Skip, AtStep
<1>2. /\ reached + 1 \in Nat /\ reached + 1 <= Len(Main[program])
      /\ 1 .. reached + 1 = (1 .. reached) \cup {reached + 1}
  BY <1>1, StepDone
<1>3. ProcessTypes'
  BY <1>1, <1>2 DEF ProcessTypes, Working
<1>4. OpenInv'
  <2>1. ASSUME NEW k \in 1 .. Len(open)
        PROVE  \E i \in 1 .. reached + 1 : open[k] = Main[program][i]
    BY <1>2 DEF OpenInv
  <2>2. ASSUME NEW i \in 1 .. reached + 1
        PROVE  \/ Main[program][i] \in Checks \cup Skippable
               \/ \E k \in 1 .. Len(open) : open[k] = Main[program][i]
    <3>1. CASE i \in 1 .. reached
      BY <1>1, <3>1 DEF OpenInv
    <3>2. CASE i = reached + 1
      BY <1>1, <3>2 DEF NextStep
    <3> QED  BY <1>2, <3>1, <3>2
  <2> QED  BY <1>1, <2>1, <2>2 DEF OpenInv
<1>5. WorkersInv'
  BY <1>1, <1>2 DEF WorkersInv, Working, Begun, Held
<1>6. TunedInv'
  <2>1. NextStep = "settings" => (tuned # None => Accepts(tuned[1], tuned[2]))
    BY DEF Check, Skip, AtStep, MayPass, Skippable
  <2>2. (tuned # None => Accepts(tuned[1], tuned[2]))' = (tuned # None => Accepts(tuned[1], tuned[2]))
    BY <1>1 DEF Accepts
  <2> QED  BY <1>1, <1>2, <2>1, <2>2 DEF TunedInv, NextStep
<1> QED  BY <1>3, <1>4, <1>5, <1>6

LEMMA OpenNextKeeps ==
  ASSUME ProcessesInv, OpenNext
  PROVE  ProcessesInv'
<1> USE DEF ProcessesInv
<1>1. /\ phase = "starting" /\ reached < Len(Main[program]) /\ reached' = reached + 1
      /\ NextStep \notin Checks \cup WorkerContexts
      /\ open' = Append(open, NextStep)
      /\ UNCHANGED <<program, environment, tuned, phase, worker>>
  BY DEF OpenNext
<1>2. /\ reached + 1 \in Nat /\ reached + 1 <= Len(Main[program]) /\ NextStep \in AllSteps
      /\ 1 .. reached + 1 = (1 .. reached) \cup {reached + 1}
  BY <1>1, StepDone
<1>3. open \in Seq(AllSteps)
  BY DEF ProcessTypes
<1>4. /\ open' \in Seq(AllSteps) /\ 1 .. Len(open') = (1 .. Len(open)) \cup {Len(open) + 1}
      /\ open'[Len(open) + 1] = NextStep
      /\ \A k \in 1 .. Len(open) : open'[k] = open[k] /\ 1 .. k - 1 \subseteq 1 .. Len(open)
  BY <1>1, <1>2, <1>3
<1>5. ProcessTypes'
  BY <1>1, <1>2, <1>4 DEF ProcessTypes, Working
<1>6. OpenInv'
  <2>1. ASSUME NEW k \in 1 .. Len(open')
        PROVE  \E i \in 1 .. reached + 1 : open'[k] = Main[program][i]
    <3>1. CASE k = Len(open) + 1
      BY <1>2, <1>4, <3>1 DEF NextStep, ProcessTypes
    <3>2. CASE k \in 1 .. Len(open)
      <4>1. \E i \in 1 .. reached : open[k] = Main[program][i]
        BY <3>2 DEF OpenInv
      <4> QED  BY <1>2, <1>4, <3>2, <4>1
    <3> QED  BY <1>4, <3>1, <3>2
  <2>2. ASSUME NEW i \in 1 .. reached + 1
        PROVE  \/ Main[program][i] \in Checks \cup Skippable
               \/ \E k \in 1 .. Len(open') : open'[k] = Main[program][i]
    <3>1. CASE i = reached + 1
      BY <1>4, <3>1 DEF NextStep
    <3>2. CASE i \in 1 .. reached
      BY <1>1, <1>4, <3>2 DEF OpenInv
    <3> QED  BY <1>2, <3>1, <3>2
  <2> QED  BY <1>1, <2>1, <2>2 DEF OpenInv
<1>7. ASSUME NEW w \in DOMAIN Workers, Working(w)
      PROVE  Begun(w)' /\ Held(w)'
  <2>1. Begun(w) /\ Held(w)
    BY <1>7 DEF WorkersInv
  <2>2. Workers[w].under # NextStep
    BY <1>1, WorkerPrograms
  <2> QED  BY <1>1, <1>2, <1>4, <2>1, <2>2 DEF Begun, Held
<1>8. WorkersInv'
  BY <1>1, <1>7 DEF WorkersInv, Working
<1>9. TunedInv'
  <2>1. NextStep # "settings"
    BY <1>1 DEF Checks
  <2> QED  BY <1>1, <1>2, <2>1 DEF TunedInv, NextStep, Accepts
<1> QED  BY <1>5, <1>6, <1>8, <1>9

\* The workers that start find what they work with open: what they need was opened, and
\* what may have been skipped is looked for.
LEMMA StartHolds ==
  ASSUME ProcessesInv, StartWorkers, NEW w \in DOMAIN Workers, Workers[w].of = program, Startable(w),
         NEW u \in Workers[w].uses
  PROVE  \E j \in 1 .. Len(open) : open[j] = u
<1> USE DEF ProcessesInv
<1>1. phase = "starting" /\ reached < Len(Main[program]) /\ Workers[w].under = NextStep
  BY DEF StartWorkers, AtStep, Startable
<1>2. reached + 1 \in DOMAIN Main[program] /\ reached \in Nat
  BY <1>1, StepDone DEF ProcessTypes
<1>3. UsesComeFirst(w, reached + 1)
  BY <1>1, <1>2, WorkersComeLast DEF NextStep
<1>4. PICK j \in 1 .. reached : Main[program][j] = u
  BY <1>2, <1>3 DEF UsesComeFirst
<1>5. u \notin Checks /\ (u \in Skippable => u = w)
  BY <1>3 DEF UsesComeFirst
<1>6. CASE u \in Skippable
  <2>1. w \in Opened
    BY <1>5, <1>6 DEF Skippable, Startable
  <2> QED  BY <1>5, <1>6, <2>1 DEF Opened, ProcessTypes
<1>7. CASE u \notin Skippable
  BY <1>1, <1>4, <1>5, <1>7 DEF OpenInv
<1> QED  BY <1>6, <1>7

LEMMA StartWorkersKeeps ==
  ASSUME ProcessesInv, StartWorkers
  PROVE  ProcessesInv'
<1> USE DEF ProcessesInv
<1>1. /\ phase = "starting" /\ reached < Len(Main[program]) /\ reached' = reached + 1
      /\ NextStep \in WorkerContexts
      /\ open' = Append(open, NextStep)
      /\ UNCHANGED <<program, environment, tuned, phase>>
  BY DEF StartWorkers, AtStep
<1>2. /\ reached + 1 \in Nat /\ reached + 1 <= Len(Main[program]) /\ NextStep \in AllSteps
      /\ 1 .. reached + 1 = (1 .. reached) \cup {reached + 1}
      /\ \A i \in 1 .. reached : Main[program][i] # NextStep
  BY <1>1, StepDone
<1>3. open \in Seq(AllSteps)
  BY DEF ProcessTypes
<1>4. /\ open' \in Seq(AllSteps) /\ 1 .. Len(open') = (1 .. Len(open)) \cup {Len(open) + 1}
      /\ open'[Len(open) + 1] = NextStep
      /\ \A k \in 1 .. Len(open) : open'[k] = open[k] /\ 1 .. k - 1 \subseteq 1 .. Len(open)
      /\ 1 .. (Len(open) + 1) - 1 = 1 .. Len(open)
  BY <1>1, <1>2, <1>3
<1>5. ProcessTypes'
  BY <1>1, <1>2, <1>4 DEF ProcessTypes, StartWorkers, Working
<1>6. OpenInv'
  <2>1. ASSUME NEW k \in 1 .. Len(open')
        PROVE  \E i \in 1 .. reached + 1 : open'[k] = Main[program][i]
    <3>1. CASE k = Len(open) + 1
      BY <1>2, <1>4, <3>1 DEF NextStep, ProcessTypes
    <3>2. CASE k \in 1 .. Len(open)
      <4>1. \E i \in 1 .. reached : open[k] = Main[program][i]
        BY <3>2 DEF OpenInv
      <4> QED  BY <1>2, <1>4, <3>2, <4>1
    <3> QED  BY <1>4, <3>1, <3>2
  <2>2. ASSUME NEW i \in 1 .. reached + 1
        PROVE  \/ Main[program][i] \in Checks \cup Skippable
               \/ \E k \in 1 .. Len(open') : open'[k] = Main[program][i]
    <3>1. CASE i = reached + 1
      BY <1>4, <3>1 DEF NextStep
    <3>2. CASE i \in 1 .. reached
      BY <1>1, <1>4, <3>2 DEF OpenInv
    <3> QED  BY <1>2, <3>1, <3>2
  <2> QED  BY <1>1, <2>1, <2>2 DEF OpenInv
<1>7. ASSUME NEW w \in DOMAIN Workers, Working(w)'
      PROVE  Workers[w].of = program /\ Begun(w)' /\ Held(w)'
  <2>1. CASE w \in WorkersOf(program) /\ Startable(w)
    <3>1. Workers[w].of = program /\ Workers[w].under = NextStep
      BY <2>1 DEF WorkersOf, Startable
    <3>2. Begun(w)'
      BY <1>1, <1>2, <3>1 DEF Begun, NextStep
    <3>3. \A u \in Workers[w].uses : \E j \in 1 .. Len(open) : open[j] = u
      BY <2>1, <3>1, StartHolds
    <3>4. \A k \in 1 .. Len(open) : open[k] # NextStep
      BY <1>2 DEF OpenInv
    <3>5. Held(w)'
      BY <1>4, <3>1, <3>3, <3>4 DEF Held
    <3> QED  BY <3>1, <3>2, <3>5
  <2>2. CASE ~(w \in WorkersOf(program) /\ Startable(w))
    <3>1. Working(w)
      BY <1>7, <2>2 DEF StartWorkers, Working
    <3>2. Workers[w].of = program /\ Begun(w) /\ Held(w)
      BY <3>1 DEF WorkersInv
    <3>3. Workers[w].under # NextStep
      BY <1>2, <3>2 DEF Begun
    <3> QED  BY <1>1, <1>2, <1>4, <3>2, <3>3 DEF Begun, Held
  <2> QED  BY <2>1, <2>2
<1>8. WorkersInv'
  BY <1>1, <1>7 DEF WorkersInv
<1>9. TunedInv'
  <2>1. NextStep # "settings"
    BY <1>1 DEF WorkerContexts
  <2> QED  BY <1>1, <1>2, <2>1 DEF TunedInv, NextStep, Accepts
<1> QED  BY <1>5, <1>6, <1>8, <1>9

LEMMA WorkerStepKeeps ==
  ASSUME ProcessesInv, NEW w \in WorkersOf(program), WorkerFails(w) \/ RunAgain(w) \/ WorkerStops(w)
  PROVE  ProcessesInv'
<1> USE DEF ProcessesInv
<1>1. /\ UNCHANGED <<program, environment, tuned, phase, reached, open>>
      /\ worker' \in [DOMAIN Workers -> {"none", "running", "pausing", "over"}]
      /\ \A v \in DOMAIN Workers : Working(v)' => Working(v)
  BY DEF WorkerFails, RunAgain, WorkerStops, ProcessTypes, Working, WorkersOf
<1>2. ProcessTypes' /\ OpenInv' /\ TunedInv'
  BY <1>1 DEF ProcessTypes, OpenInv, TunedInv, Accepts
<1>3. WorkersInv'
  BY <1>1 DEF WorkersInv, Begun, Held
<1> QED  BY <1>2, <1>3

LEMMA PhaseKeeps ==
  ASSUME ProcessesInv, Serve \/ StartReturns
  PROVE  ProcessesInv'
<1> USE DEF ProcessesInv
<1>1. /\ UNCHANGED <<program, environment, tuned, reached, open, worker>>
      /\ phase # "down" /\ phase' \in {"serving", "closing"}
  BY DEF Serve, StartReturns
<1>2. ProcessTypes' /\ OpenInv' /\ TunedInv'
  BY <1>1 DEF ProcessTypes, OpenInv, TunedInv, Accepts
<1>3. WorkersInv'
  BY <1>1 DEF WorkersInv, Working, Begun, Held
<1> QED  BY <1>2, <1>3

LEMMA CloseLastKeeps ==
  ASSUME ProcessesInv, CloseLast
  PROVE  ProcessesInv'
<1> USE DEF ProcessesInv
<1> DEFINE n == Len(open) - 1
<1>1. /\ phase = "closing" /\ open # <<>> /\ open' = SubSeq(open, 1, n)
      /\ UNCHANGED <<program, environment, tuned, phase, reached, worker>>
  BY DEF CloseLast
<1>2. open \in Seq(AllSteps) /\ n \in Nat /\ n <= Len(open)
  BY <1>1 DEF ProcessTypes
<1> HIDE DEF n
<1>3. open' \in Seq(AllSteps) /\ Len(open') = n /\ \A k \in 1 .. n : open'[k] = open[k]
  BY <1>1, <1>2
<1>a. /\ \A k \in 1 .. n : k \in 1 .. Len(open)
      /\ \A k \in 1 .. n : 1 .. k - 1 \subseteq 1 .. n
  BY <1>2
<1>4. ProcessTypes' /\ OpenInv' /\ TunedInv'
  <2>1. ProcessTypes'
    BY <1>1, <1>3 DEF ProcessTypes
  <2>2. OpenInv'
    <3>1. \A k \in 1 .. n : \E i \in 1 .. reached : open'[k] = Main[program][i]
      BY <1>3, <1>a DEF OpenInv
    <3> QED  BY <1>1, <1>3, <3>1 DEF OpenInv
  <2>3. TunedInv'
    BY <1>1 DEF TunedInv, Accepts
  <2> QED  BY <2>1, <2>2, <2>3
<1>5. ASSUME NEW w \in DOMAIN Workers, Working(w)' PROVE Workers[w].of = program /\ Begun(w)' /\ Held(w)'
  <2>1. Workers[w].of = program /\ Begun(w) /\ Held(w)
    BY <1>1, <1>5 DEF WorkersInv, Working
  <2>2. Held(w)'
    BY <1>3, <1>a, <2>1 DEF Held
  <2> QED  BY <1>1, <2>1, <2>2 DEF Begun
<1> QED  BY <1>1, <1>4, <1>5 DEF WorkersInv

LEMMA VanishKeeps ==
  ASSUME ProcessesInv, Vanish, phase # "down"
  PROVE  ProcessesInv'
<1>1. ProcessTypes'
  BY DEF ProcessesInv, ProcessTypes, Vanish
<1>2. OpenInv' /\ WorkersInv' /\ TunedInv'
  BY DEF Vanish, OpenInv, WorkersInv, TunedInv, Working
<1> QED  BY <1>1, <1>2 DEF ProcessesInv

LEMMA ProcessesInvStep == ProcessesInv /\ [ProcessesNext]_processVars => ProcessesInv'
<1> SUFFICES ASSUME ProcessesInv, [ProcessesNext]_processVars PROVE ProcessesInv'
  OBVIOUS
<1>1. CASE UNCHANGED processVars
  <2>1. ProcessTypes' /\ OpenInv'
    BY <1>1 DEF ProcessesInv, ProcessTypes, OpenInv, Working, processVars
  <2>2. WorkersInv'
    BY <1>1 DEF ProcessesInv, WorkersInv, Working, Begun, Held, processVars
  <2>3. TunedInv'
    BY <1>1 DEF ProcessesInv, TunedInv, Accepts, processVars
  <2> QED  BY <2>1, <2>2, <2>3 DEF ProcessesInv
<1>2. CASE Fatal \/ MainReturns \/ Kill
  BY <1>2, VanishKeeps DEF Fatal, AtStep, MainReturns, Kill
<1>3. CASE Boot \/ Check \/ Skip \/ OpenNext \/ StartWorkers
  BY <1>3, BootKeeps, PassedKeeps, OpenNextKeeps, StartWorkersKeeps
<1>4. CASE Serve \/ StartReturns \/ CloseLast
  BY <1>4, PhaseKeeps, CloseLastKeeps
<1>5. ASSUME NEW w \in WorkersOf(program), WorkerFails(w) \/ RunAgain(w) \/ WorkerStops(w)
      PROVE  ProcessesInv'
  BY <1>5, WorkerStepKeeps
<1> QED  BY <1>1, <1>2, <1>3, <1>4, <1>5 DEF ProcessesNext

\* Wherever a main is: what is open is what it has passed, a worker that is at work is one of
\* its own with its connections open, and the settings it runs with passed their checks.
THEOREM ProcessesInvariant == ProcessesSpec => []ProcessesInv
BY ProcessesInvInit, ProcessesInvStep, PTL DEF ProcessesSpec

\* From the start of a process to its end, a worker whose context is not cancelled finds all
\* it works with open: closing is in the reverse of the order of opening.
THEOREM WorkersAreServed == ProcessesSpec => []WorkersHoldWhatTheyUse
<1>1. ProcessesInv => WorkersHoldWhatTheyUse
  <2> SUFFICES ASSUME ProcessesInv, NEW w \in WorkersOf(program), Working(w), ~Cancelled(w),
                      NEW u \in Workers[w].uses
               PROVE  u \in Opened
    BY DEF WorkersHoldWhatTheyUse
  <2>1. w \in DOMAIN Workers /\ Held(w)
    BY DEF ProcessesInv, WorkersInv, WorkersOf
  <2>2. DOMAIN open = 1 .. Len(open) /\ Len(open) \in Nat
    BY DEF ProcessesInv, ProcessTypes
  <2>3. PICK k \in 1 .. Len(open) : open[k] = Workers[w].under
    BY <2>2 DEF Cancelled, Opened
  <2>4. PICK j \in 1 .. k - 1 : open[j] = u
    BY <2>1, <2>3 DEF Held
  <2> QED  BY <2>2, <2>3, <2>4 DEF Opened
<1> QED  BY <1>1, ProcessesInvariant, PTL

\* Whatever the settings and whatever overflows in the checks of them: the checks are made
\* before their worker runs, so what they are worth holds of the batches it takes.
THEOREM LeasesBoundBatches == ProcessesSpec => []BatchesAreBounded
<1>1. ProcessesInv => BatchesAreBounded
  <2> SUFFICES ASSUME ProcessesInv, tuned # None, worker[tuned[1]] = "running"
               PROVE  /\ Workers[tuned[1]].leases \in {"outbox", "recovery"} =>
                           LongestBatch(tuned[1], tuned[2]) <= tuned[2].lease
                      /\ Workers[tuned[1]].leases = "cache" =>
                           LongestBatch(tuned[1], tuned[2])
                             <= 2 * tuned[2].lease + CappedCall(tuned[2])
    BY DEF BatchesAreBounded
  <2> DEFINE w == tuned[1]
  <2>a. tuned \in (DOMAIN Workers) \X Settings /\ Workers[w].leases # None
    BY DEF ProcessesInv, TunedInv
  <2>1. w \in DOMAIN Workers /\ tuned[2] \in Settings /\ Workers[w].leases # None
    BY <2>a
  <2>2. Workers[w].of = program /\ Begun(w)
    BY <2>1 DEF ProcessesInv, WorkersInv, Working
  <2>3. PICK i \in 1 .. reached : Main[program][i] = Workers[w].under
    BY <2>2 DEF Begun
  <2>4. program \in DOMAIN Main /\ reached \in Nat /\ reached <= Len(Main[program])
    BY <2>3 DEF ProcessesInv, ProcessTypes
  <2>5. i \in DOMAIN Main[program]
    BY <2>4, MainsAreLists
  <2>6. SettingsComeFirst(w, i)
    BY <2>1, <2>2, <2>3, <2>5, WorkersComeLast
  <2>7. \E j \in 1 .. i - 1 : Main[program][j] = "settings"
    BY <2>1, <2>2, <2>6 DEF SettingsComeFirst
  <2>8. \E j \in 1 .. reached : Main[program][j] = "settings"
    BY <2>4, <2>7
  <2>9. Accepts(w, tuned[2])
    BY <2>8 DEF ProcessesInv, TunedInv
  <2> HIDE DEF w
  <2> QED  BY <2>1, <2>9, AcceptedBounds DEF w
<1> QED  BY <1>1, ProcessesInvariant, PTL

--------------------------------------------------------------------------------
(* Users                                                                     *)

\* The addresses of a user, as committed or as written.
RowsOf(u) == AddressesOf(saved, u) \cup AddressesOf(written, u)

\* A call has written every address of its user, and locked their range.
AllMine(c) == RowsOf(User(c)) \subseteq Mine(c) /\ ranged[User(c)] = c

Ruled(table, u) ==
  /\ \A i, j \in DefaultsOf(table, u) : i = j
  /\ AddressesOf(table, u) # {} => DefaultsOf(table, u) # {}

Rules ==
  \A u \in Owners \ raced :
    /\ \A i, j \in DefaultsOf(saved, u) : i = j
    /\ AddressesOf(saved, u) # {} /\ u \notin demoted => DefaultsOf(saved, u) # {}

UserTypes ==
  /\ saved \in [AddressIds -> Address \cup {None}]
  /\ written \in [AddressIds -> Address \cup {None}]
  /\ writer \in [AddressIds -> AddressCalls \cup {None}]
  /\ DOMAIN ranged = Owners
  /\ nextId \in Nat \ {0}
  /\ asking \in [AddressCalls -> Statements \cup {"idle"}]
  /\ DOMAIN asked = AddressCalls
  /\ \A c \in AddressCalls : asking[c] # "idle" => asked[c] \in AddressRequests
  /\ sawDefault \in [AddressCalls -> BOOLEAN]
  /\ raced \subseteq Owners

\* What nobody writes is as it was committed, and what somebody writes is the user's own.
Locks ==
  /\ \A i \in AddressIds :
       /\ writer[i] = None => written[i] = saved[i]
       /\ writer[i] # None =>
            /\ asking[writer[i]] # "idle"
            /\ written[i] # None => written[i].owner = User(writer[i])
            /\ saved[i] # None => saved[i].owner = User(writer[i])
       /\ i >= nextId => written[i] = None /\ saved[i] = None /\ writer[i] = None

\* Calls of a user that are open at the same time, unless they may race.
Apart ==
  \A c, d \in AddressCalls :
    c # d /\ asking[c] # "idle" /\ asking[d] # "idle" /\ User(c) = User(d) /\ User(c) \notin raced =>
      /\ asked[c].op # "delete"
      /\ asked[c].op = "create" /\ asked[d].op = "create" => AddressesOf(saved, User(c)) # {}

StatementsOf ==
  [create |-> {"insert", "count", "clear", "set", "commit"},
   update |-> {"update", "others", "commit"},
   delete |-> {"read", "delete", "promote", "commit"}]

\* The row of a new address before it is marked.
NewRow(c) ==
  /\ asked[c].id \in Mine(c)
  /\ written[asked[c].id] = [owner |-> User(c), isDefault |-> FALSE]
  /\ saved[asked[c].id] = None

OnlyRow(c) == Mine(c) = {asked[c].id}

\* An address that was the user's own when the call saw it.
Known(c) ==
  /\ asked[c].id \in AddressIds
  /\ asked[c].id < nextId
  /\ \A table \in {saved, written} :
       table[asked[c].id] # None => table[asked[c].id].owner = User(c)

\* What a call that is about to commit makes of its user's addresses.
Outcome(c) ==
  LET u == User(c)
      id == asked[c].id
  IN \/ AllMine(c) /\ Ruled(written, u)
     \/ /\ asked[c].op = "create" /\ OnlyRow(c)
        /\ id \in AddressesOf(written, u) /\ saved[id] = None
        /\ written[id].isDefault <=> AddressesOf(saved, u) = {}
     \/ /\ asked[c].op = "update" /\ OnlyRow(c)
        /\ id \in AddressesOf(saved, u) \cap AddressesOf(written, u)
        /\ ~written[id].isDefault
     \/ /\ asked[c].op = "delete" /\ OnlyRow(c)
        /\ id \in AddressesOf(saved, u) /\ written[id] = None
        /\ ~saved[id].isDefault

Stage(c) ==
  LET u == User(c)
      id == asked[c].id
  IN /\ asking[c] \in StatementsOf[asked[c].op]
     /\ asking[c] \in {"insert", "update", "read", "delete"} => Mine(c) = {}
     /\ asking[c] \in {"count", "clear", "set"} => NewRow(c)
     /\ asking[c] \in {"count", "clear", "others", "promote"} => OnlyRow(c)
     /\ asking[c] = "others" => id \in AddressesOf(written, u)
     /\ asking[c] = "delete" => Known(c)
     /\ asked[c].op # "delete" => \A i \in Mine(c) : written[i] # None
     /\ asked[c].op = "update" => \A i \in Mine(c) : saved[i] # None
     /\ u \notin raced =>
          /\ asking[c] = "set" =>
               \/ AllMine(c) /\ DefaultsOf(written, u) = {}
               \/ OnlyRow(c) /\ AddressesOf(saved, u) = {}
          /\ asking[c] = "delete" =>
               id \in AddressesOf(saved, u) /\ (sawDefault[c] <=> saved[id].isDefault)
          /\ asking[c] = "promote" =>
               id \in AddressesOf(saved, u) /\ saved[id].isDefault /\ written[id] = None
          /\ asking[c] = "commit" => Outcome(c)

Stages == \A c \in AddressCalls : asking[c] # "idle" => Stage(c)

UsersInv == UserTypes /\ Locks /\ Apart /\ Stages /\ Rules


LEMMA UsersInvInit == UsersInit => UsersInv
<1> SUFFICES ASSUME UsersInit PROVE UsersInv
  OBVIOUS
<1> USE UsersConstants
<1>1. UserTypes
  BY DEF UsersInit, UserTypes
<1>2. Locks /\ Apart /\ Stages
  BY DEF UsersInit, Locks, Apart, Stages
<1>3. Rules
  BY DEF UsersInit, Rules, DefaultsOf, AddressesOf
<1> QED  BY <1>1, <1>2, <1>3 DEF UsersInv

\* A step of one call leaves alone what others ask and have locked, touches rows of its own
\* user only, and adds none to a range that another call has locked.
Frame(c) ==
  /\ \A d \in AddressCalls \ {c} :
       asking'[d] = asking[d] /\ asked'[d] = asked[d] /\ sawDefault'[d] = sawDefault[d]
  /\ \A i \in AddressIds :
       /\ writer[i] \notin {None, c} =>
            writer'[i] = writer[i] /\ written'[i] = written[i] /\ saved'[i] = saved[i]
       /\ writer'[i] \in {writer[i], c, None}
       /\ written'[i] # written[i] \/ saved'[i] # saved[i] =>
            \A table \in {written, written', saved, saved'} : table[i] # None => table[i].owner = User(c)
       /\ i < nextId /\ written[i] = None /\ saved[i] = None => written'[i] = None /\ saved'[i] = None
  /\ nextId <= nextId'
  /\ \A u \in Owners : ranged[u] \notin {None, c} => ranged'[u] = ranged[u]
  /\ \/ ranged[User(c)] \in {None, c}
     \/ AddressesOf(saved', User(c)) \cup AddressesOf(written', User(c)) \subseteq RowsOf(User(c))

\* While a user's calls are apart, addresses only become more, and a first one stays alone.
Adds(c) ==
  \A d \in AddressCalls \ {c} :
    asking[d] # "idle" /\ User(d) = User(c) /\ User(c) \notin raced =>
      /\ AddressesOf(saved, User(c)) \subseteq AddressesOf(saved', User(c))
      /\ asked[d].op = "create" /\ AddressesOf(saved, User(c)) = {} =>
           AddressesOf(saved', User(c)) = {}

\* Rows of other users.
LEMMA OtherRows ==
  ASSUME UserTypes, UserTypes', NEW c \in AddressCalls, Frame(c), NEW u \in Owners, u # User(c)
  PROVE  /\ AddressesOf(saved', u) = AddressesOf(saved, u)
         /\ AddressesOf(written', u) = AddressesOf(written, u)
         /\ DefaultsOf(saved', u) = DefaultsOf(saved, u)
         /\ DefaultsOf(written', u) = DefaultsOf(written, u)
         /\ \A i \in AddressesOf(saved, u) : saved'[i] = saved[i]
<1>1. ASSUME NEW i \in AddressIds
      PROVE  /\ i \in AddressesOf(saved', u) <=> i \in AddressesOf(saved, u)
             /\ i \in AddressesOf(written', u) <=> i \in AddressesOf(written, u)
             /\ i \in AddressesOf(saved, u) => saved'[i] = saved[i]
             /\ i \in AddressesOf(written, u) => written'[i] = written[i]
  <2>1. CASE written'[i] # written[i] \/ saved'[i] # saved[i]
    BY <2>1 DEF Frame, AddressesOf
  <2>2. CASE written'[i] = written[i] /\ saved'[i] = saved[i]
    BY <2>2 DEF AddressesOf
  <2> QED  BY <2>1, <2>2
<1>2. /\ \A table : AddressesOf(table, u) \subseteq AddressIds
  BY DEF AddressesOf
<1>3. AddressesOf(saved', u) = AddressesOf(saved, u) /\ AddressesOf(written', u) = AddressesOf(written, u)
  BY <1>1, <1>2
<1> QED  BY <1>1, <1>2, <1>3 DEF DefaultsOf

\* Who has written all addresses of its user keeps them.
LEMMA AllMineStays ==
  ASSUME UserTypes, UserTypes', Locks, NEW c \in AddressCalls, Frame(c),
         NEW d \in AddressCalls \ {c}, asking[d] # "idle",
         User(c) \in Owners, User(d) \in Owners, AllMine(d)
  PROVE  /\ AllMine(d)'
         /\ AddressesOf(saved', User(d)) = AddressesOf(saved, User(d))
         /\ AddressesOf(written', User(d)) = AddressesOf(written, User(d))
         /\ DefaultsOf(saved', User(d)) = DefaultsOf(saved, User(d))
         /\ DefaultsOf(written', User(d)) = DefaultsOf(written, User(d))
<1> USE UsersConstants
<1>1. User(d)' = User(d)
  BY DEF Frame, User
<1>2. ranged'[User(d)] = d
  BY DEF AllMine, Frame
<1>3. \A i \in Mine(d) : i \in AddressIds /\ writer'[i] = d /\ written'[i] = written[i] /\ saved'[i] = saved[i]
  BY DEF Mine, Frame
<1>4. RowsOf(User(d))' \subseteq RowsOf(User(d))
  <2>1. CASE User(c) = User(d)
    BY <1>1, <2>1 DEF AllMine, Frame, RowsOf
  <2>2. CASE User(c) # User(d)
    BY <1>1, <2>2, OtherRows DEF RowsOf
  <2> QED  BY <2>1, <2>2
<1>5. AllMine(d)'
  BY <1>1, <1>2, <1>3, <1>4 DEF AllMine, Mine
<1>6. /\ AddressesOf(saved', User(d)) = AddressesOf(saved, User(d))
      /\ AddressesOf(written', User(d)) = AddressesOf(written, User(d))
  BY <1>1, <1>3, <1>4 DEF AllMine, RowsOf, AddressesOf
<1>7. /\ DefaultsOf(saved', User(d)) = DefaultsOf(saved, User(d))
      /\ DefaultsOf(written', User(d)) = DefaultsOf(written, User(d))
  BY <1>3, <1>6 DEF AllMine, RowsOf, DefaultsOf
<1> QED  BY <1>5, <1>6, <1>7

LEMMA OwnRowsStay ==
  ASSUME UserTypes, NEW c \in AddressCalls, Frame(c), NEW d \in AddressCalls \ {c}
  PROVE  /\ Mine(d)' = Mine(d)
         /\ \A i \in Mine(d) : written'[i] = written[i] /\ saved'[i] = saved[i]
         /\ asking'[d] = asking[d] /\ asked'[d] = asked[d] /\ sawDefault'[d] = sawDefault[d]
         /\ User(d)' = User(d)
<1> USE UsersConstants
<1>1. \A i \in AddressIds : writer'[i] = d <=> writer[i] = d
  BY DEF Frame
<1> QED  BY <1>1 DEF Frame, Mine, User

\* The other calls are as far as they were.
LEMMA OthersStay ==
  ASSUME UsersInv, UserTypes', NEW c \in AddressCalls, asking[c] # "idle", Frame(c), Adds(c),
         raced \subseteq raced',
         NEW d \in AddressCalls \ {c}, asking[d] # "idle"
  PROVE  Stage(d)'
<1> USE DEF UsersInv
<1> DEFINE u == User(d)
           id == asked[d].id
<1>1. User(c) \in Owners /\ u \in Owners
  BY DEF UserTypes, User, AddressRequests
<1>2. /\ Mine(d)' = Mine(d)
      /\ \A i \in Mine(d) : i \in AddressIds /\ written'[i] = written[i] /\ saved'[i] = saved[i]
      /\ asking'[d] = asking[d] /\ asked'[d] = asked[d] /\ sawDefault'[d] = sawDefault[d]
      /\ User(d)' = u
  BY OwnRowsStay DEF Mine
<1>3. Stage(d)
  BY DEF Stages
<1>4. AllMine(d) => /\ AllMine(d)'
                    /\ DefaultsOf(written', u) = DefaultsOf(written, u)
                    /\ AddressesOf(written', u) = AddressesOf(written, u)
  BY <1>1, AllMineStays
<1>5. u \notin raced =>
        /\ asked[d].op = "create" => (AddressesOf(saved', u) = {} <=> AddressesOf(saved, u) = {})
        /\ asked[d].op = "delete" =>
             /\ AddressesOf(saved', u) = AddressesOf(saved, u)
             /\ \A i \in AddressesOf(saved, u) : saved'[i] = saved[i]
  <2>1. CASE User(c) = u
    BY <2>1 DEF Adds, Apart
  <2>2. CASE User(c) # u
    BY <1>1, <2>2, OtherRows
  <2> QED  BY <2>1, <2>2
<1>6. NewRow(d) => NewRow(d)'
  BY <1>2 DEF NewRow
<1>7. OnlyRow(d) => OnlyRow(d)' /\ id \in Mine(d)
  BY <1>2 DEF OnlyRow
<1>8. id \in Mine(d) => /\ id \in AddressesOf(saved, u) <=> id \in AddressesOf(saved', u)
                        /\ id \in AddressesOf(written, u) <=> id \in AddressesOf(written', u)
  BY <1>2 DEF AddressesOf
<1>9. ASSUME u \notin raced, asking[d] = "commit" PROVE Outcome(d)'
  <2>1. Outcome(d)
    BY <1>3, <1>9 DEF Stage
  <2>2. CASE AllMine(d) /\ Ruled(written, u)
    <3>1. Ruled(written', u)
      BY <1>4, <2>2 DEF Ruled
    <3> QED  BY <1>2, <1>4, <2>2, <3>1 DEF Outcome
  <2>3. CASE /\ asked[d].op = "create" /\ OnlyRow(d)
             /\ id \in AddressesOf(written, u) /\ saved[id] = None
             /\ written[id].isDefault <=> AddressesOf(saved, u) = {}
    BY <1>2, <1>5, <1>7, <1>8, <1>9, <2>3 DEF Outcome
  <2>4. CASE /\ asked[d].op = "update" /\ OnlyRow(d)
             /\ id \in AddressesOf(saved, u) \cap AddressesOf(written, u)
             /\ ~written[id].isDefault
    BY <1>2, <1>7, <1>8, <2>4 DEF Outcome
  <2>5. CASE /\ asked[d].op = "delete" /\ OnlyRow(d)
             /\ id \in AddressesOf(saved, u) /\ written[id] = None
             /\ ~saved[id].isDefault
    BY <1>2, <1>7, <1>8, <2>5 DEF Outcome
  <2> QED  BY <2>1, <2>2, <2>3, <2>4, <2>5 DEF Outcome
<1>10. ASSUME u \notin raced, asking[d] = "set"
       PROVE  \/ AllMine(d)' /\ DefaultsOf(written', u) = {}
              \/ OnlyRow(d)' /\ AddressesOf(saved', u) = {}
  <2>1. asked[d].op = "create"
    BY <1>3, <1>10 DEF Stage, StatementsOf, UserTypes, AddressRequests
  <2> QED  BY <1>3, <1>4, <1>5, <1>7, <1>10, <2>1 DEF Stage
<1>11. ASSUME u \notin raced, asking[d] = "delete"
       PROVE  id \in AddressesOf(saved', u) /\ (sawDefault[d] <=> saved'[id].isDefault)
  <2>1. asked[d].op = "delete"
    BY <1>3, <1>11 DEF Stage, StatementsOf, UserTypes, AddressRequests
  <2> QED  BY <1>3, <1>5, <1>11, <2>1 DEF Stage
<1>12. ASSUME u \notin raced, asking[d] = "promote"
       PROVE  id \in AddressesOf(saved', u) /\ saved'[id].isDefault /\ written'[id] = None
  BY <1>2, <1>3, <1>7, <1>8, <1>12 DEF Stage
<1>13. asking[d] = "others" => id \in AddressesOf(written', u)
  BY <1>3, <1>7, <1>8 DEF Stage
<1>14. Known(d) => Known(d)'
  <2> SUFFICES ASSUME Known(d) PROVE Known(d)'
    OBVIOUS
  <2>1. id \in AddressIds /\ id < nextId'
    BY DEF Known, Frame, UserTypes, AddressIds
  <2>2. \A table \in {saved', written'} : table[id] # None => table[id].owner = u
    <3>1. CASE written'[id] = written[id] /\ saved'[id] = saved[id]
      BY <3>1 DEF Known
    <3>2. CASE written'[id] # written[id] \/ saved'[id] # saved[id]
      BY <2>1, <3>2 DEF Known, Frame
    <3> QED  BY <3>1, <3>2
  <2> QED  BY <1>2, <2>1, <2>2 DEF Known
<1> HIDE DEF UsersInv
<1> QED  BY <1>2, <1>3, <1>6, <1>7, <1>9, <1>10, <1>11, <1>12, <1>13, <1>14 DEF Stage

\* A step of an open call keeps the invariant when its own stage, the locks and the rules do.
LEMMA CallStep ==
  ASSUME UsersInv, UserTypes', Locks', Rules', NEW c \in AddressCalls, asking[c] # "idle",
         Frame(c), Adds(c), raced' = raced,
         asking'[c] # "idle" => Stage(c)' /\ asked'[c].op = asked[c].op /\ User(c)' = User(c)
  PROVE  UsersInv'
<1> USE DEF UsersInv
<1>1. ASSUME NEW d \in AddressCalls, asking'[d] # "idle"
      PROVE  /\ Stage(d)'
             /\ asking[d] # "idle" /\ asked'[d].op = asked[d].op /\ User(d)' = User(d)
             /\ User(d) \in Owners
  <2>1. CASE d = c
    BY <1>1, <2>1 DEF UserTypes, AddressRequests, User
  <2>2. CASE d # c
    <3>1. asking'[d] = asking[d] /\ asked'[d] = asked[d]
      BY <2>2 DEF Frame
    <3>2. Stage(d)'
      BY <1>1, <2>2, <3>1, OthersStay
    <3> QED  BY <1>1, <3>1, <3>2 DEF UserTypes, AddressRequests, User
  <2> QED  BY <2>1, <2>2
<1>2. Stages'
  BY <1>1 DEF Stages
<1>3. Apart'
  <2> SUFFICES ASSUME NEW d \in AddressCalls, NEW e \in AddressCalls,
                      d # e, asking'[d] # "idle", asking'[e] # "idle",
                      User(d)' = User(e)', User(d)' \notin raced'
               PROVE  /\ asked'[d].op # "delete"
                      /\ asked'[d].op = "create" /\ asked'[e].op = "create"
                           => AddressesOf(saved', User(d)') # {}
    BY DEF Apart
  <2>1. /\ User(d)' = User(d) /\ User(e) = User(d) /\ User(d) \in Owners /\ User(d) \notin raced
        /\ asking[d] # "idle" /\ asking[e] # "idle"
        /\ asked'[d].op = asked[d].op /\ asked'[e].op = asked[e].op
    BY <1>1
  <2>2. /\ asked[d].op # "delete"
        /\ asked[d].op = "create" /\ asked[e].op = "create" => AddressesOf(saved, User(d)) # {}
    BY <2>1 DEF Apart
  <2>3. AddressesOf(saved, User(d)) \subseteq AddressesOf(saved', User(d))
    <3>1. CASE User(d) = User(c)
      <4>1. \E f \in AddressCalls \ {c} : asking[f] # "idle" /\ User(f) = User(c)
        BY <2>1, <3>1
      <4> QED  BY <2>1, <3>1, <4>1 DEF Adds
    <3>2. CASE User(d) # User(c)
      BY <2>1, <3>2, OtherRows
    <3> QED  BY <3>1, <3>2
  <2> QED  BY <2>1, <2>2, <2>3
<1> QED  BY <1>2, <1>3

\* What the statements of a transaction leave alone.
Keeps(c) ==
  /\ saved' = saved /\ nextId' = nextId
  /\ asked' = asked
  /\ raced' = raced /\ demoted' = demoted
  /\ \E s \in Statements : Proceed(c, s)

LEMMA StatementStep ==
  ASSUME UsersInv, UserTypes', Locks', NEW c \in AddressCalls, asking[c] # "idle",
         saved' = saved, raced' = raced, demoted' = demoted, Frame(c),
         asking'[c] # "idle" => Stage(c)' /\ asked'[c].op = asked[c].op /\ User(c)' = User(c)
  PROVE  UsersInv'
<1>1. Adds(c)
  BY DEF Adds
<1>2. Rules'
  BY DEF UsersInv, Rules
<1> QED  BY <1>1, <1>2, CallStep

\* A statement that writes and locks rows of its own user.
LEMMA Writing ==
  ASSUME UsersInv, NEW c \in AddressCalls, asking[c] # "idle", Keeps(c), sawDefault' = sawDefault,
         NEW rows, WriteRows(c, rows), DOMAIN rows \subseteq AddressIds,
         \A i \in DOMAIN rows :
           /\ i < nextId
           /\ rows[i] \in Address \cup {None}
           /\ rows[i] # None => written[i] # None /\ rows[i].owner = User(c)
           /\ written[i] # None => written[i].owner = User(c)
           /\ saved[i] # None => saved[i].owner = User(c),
         DOMAIN ranged' = Owners,
         \A u \in Owners : ranged[u] \notin {None, c} => ranged'[u] = ranged[u]
  PROVE  /\ UserTypes' /\ Locks' /\ Frame(c)
         /\ Mine(c)' = Mine(c) \cup DOMAIN rows
         /\ \A i \in DOMAIN rows : written'[i] = rows[i]
         /\ \A i \in AddressIds \ DOMAIN rows : written'[i] = written[i]
         /\ User(c)' = User(c) /\ User(c) \in Owners
         /\ asking'[c] \in Statements
<1> USE UsersConstants DEF UsersInv
<1>1. /\ \A i \in AddressIds :
           /\ written'[i] = (IF i \in DOMAIN rows THEN rows[i] ELSE written[i])
           /\ writer'[i] = (IF i \in DOMAIN rows THEN c ELSE writer[i])
      /\ \A i \in DOMAIN rows : writer[i] \in {None, c}
  BY DEF WriteRows
<1>2. PICK s \in Statements : asking' = [asking EXCEPT ![c] = s]
  BY DEF Keeps, Proceed
<1>3. UserTypes'
  <2>1. written' \in [AddressIds -> Address \cup {None}]
    BY DEF UserTypes, WriteRows
  <2>2. writer' \in [AddressIds -> AddressCalls \cup {None}]
    BY DEF UserTypes, WriteRows
  <2>3. asking' \in [AddressCalls -> Statements \cup {"idle"}]
    BY <1>2 DEF UserTypes
  <2>4. \A d \in AddressCalls : asking'[d] # "idle" => asking[d] # "idle"
    BY <1>2 DEF UserTypes
  <2> QED  BY <2>1, <2>2, <2>3, <2>4 DEF UserTypes, Keeps
<1>4. asking'[c] \in Statements /\ asking'[c] # "idle" /\ \A d \in AddressCalls \ {c} : asking'[d] = asking[d]
  BY <1>2 DEF UserTypes, Statements
<1>5. User(c)' = User(c) /\ User(c) \in Owners /\ \A d : User(d)' = User(d)
  BY DEF User, Keeps, UserTypes, AddressRequests
<1>6. Locks'
  <2> SUFFICES ASSUME NEW i \in AddressIds
               PROVE  /\ writer'[i] = None => written'[i] = saved'[i]
                      /\ writer'[i] # None =>
                           /\ asking'[writer'[i]] # "idle"
                           /\ written'[i] # None => written'[i].owner = asked'[writer'[i]].user
                           /\ saved'[i] # None => saved'[i].owner = asked'[writer'[i]].user
                      /\ i >= nextId' => written'[i] = None /\ saved'[i] = None /\ writer'[i] = None
    BY DEF Locks, User
  <2>1. CASE i \in DOMAIN rows
    <3>1. i < nextId /\ ~(i >= nextId')
      BY <2>1 DEF Keeps, UserTypes, AddressIds
    <3> QED  BY <1>1, <1>4, <2>1, <3>1 DEF Keeps, User
  <2>2. CASE i \notin DOMAIN rows
    <3>1. writer'[i] = writer[i] /\ written'[i] = written[i] /\ saved'[i] = saved[i] /\ nextId' = nextId
      BY <1>1, <2>2 DEF Keeps
    <3>2. writer[i] # None => writer[i] \in AddressCalls /\ asking[writer[i]] # "idle"
      BY DEF Locks, UserTypes
    <3>3. writer[i] # None => asking'[writer[i]] # "idle" /\ asked'[writer[i]] = asked[writer[i]]
      BY <1>4, <3>2 DEF Keeps
    <3> QED  BY <3>1, <3>3 DEF Locks, User
  <2> QED  BY <2>1, <2>2
<1>7. Frame(c)
  <2>1. AddressesOf(saved', User(c)) \cup AddressesOf(written', User(c)) \subseteq RowsOf(User(c))
    BY <1>1 DEF Keeps, RowsOf, AddressesOf
  <2>2. \A i \in AddressIds :
       /\ writer[i] \notin {None, c} =>
            writer'[i] = writer[i] /\ written'[i] = written[i] /\ saved'[i] = saved[i]
       /\ writer'[i] \in {writer[i], c, None}
       /\ written'[i] # written[i] \/ saved'[i] # saved[i] =>
            \A table \in {written, written', saved, saved'} : table[i] # None => table[i].owner = User(c)
       /\ i < nextId /\ written[i] = None /\ saved[i] = None => written'[i] = None /\ saved'[i] = None
    BY <1>1 DEF Keeps
  <2>3. nextId <= nextId'
    BY DEF Keeps, UserTypes
  <2> QED  BY <1>4, <2>1, <2>2, <2>3 DEF Keeps, Frame
<1>8. Mine(c)' = Mine(c) \cup DOMAIN rows
  BY <1>1 DEF Mine
<1> QED  BY <1>1, <1>3, <1>4, <1>5, <1>6, <1>7, <1>8

\* Two rows of which only one is written.
LEMMA UnlockedIsSaved ==
  ASSUME UsersInv, NEW c \in AddressCalls, NEW i \in AddressIds, writer[i] \in {None, c}, i \notin Mine(c)
  PROVE  written[i] = saved[i]
BY DEF UsersInv, Locks, Mine

\* A statement that writes, and locks, every address of its user.
MarksAll(c, marks) ==
  /\ marks \in [AddressesOf(written, User(c)) -> BOOLEAN]
  /\ Keeps(c) /\ sawDefault' = sawDefault
  /\ ranged[User(c)] \in {None, c}
  /\ \A i \in AddressesOf(saved, User(c)) : writer[i] \in {None, c}
  /\ WriteRows(c, [i \in AddressesOf(written, User(c)) |->
                      [written[i] EXCEPT !.isDefault = marks[i]]])
  /\ ranged' = [ranged EXCEPT ![User(c)] = c]

LEMMA WritingAll ==
  ASSUME UsersInv, NEW c \in AddressCalls, asking[c] # "idle", NEW marks, MarksAll(c, marks)
  PROVE  /\ UserTypes' /\ Locks' /\ Frame(c)
         /\ AllMine(c)' /\ Mine(c)' = Mine(c) \cup AddressesOf(written, User(c))
         /\ AddressesOf(written', User(c)) = AddressesOf(written, User(c))
         /\ DefaultsOf(written', User(c)) = {i \in AddressesOf(written, User(c)) : marks[i]}
         /\ \A i \in AddressesOf(written, User(c)) : written'[i] = [written[i] EXCEPT !.isDefault = marks[i]]
         /\ \A i \in AddressIds \ AddressesOf(written, User(c)) : written'[i] = written[i]
         /\ User(c)' = User(c) /\ User(c) \in Owners
<1> USE UsersConstants DEF UsersInv, MarksAll
<1> DEFINE u == User(c)
           W == AddressesOf(written, u)
           rows == [i \in W |-> [written[i] EXCEPT !.isDefault = marks[i]]]
<1>1. /\ DOMAIN rows = W /\ W \subseteq AddressIds
      /\ \A i \in W : writer[i] \in {None, c}
  BY DEF AddressesOf, WriteRows
<1>2. u \in Owners
  BY DEF User, UserTypes, AddressRequests
<1>3. \A i \in W : /\ written[i] \in Address /\ written[i] # None /\ written[i].owner = u
                   /\ rows[i] \in Address /\ rows[i].owner = u /\ rows[i].isDefault = marks[i]
  <2> SUFFICES ASSUME NEW i \in W
               PROVE  /\ written[i] \in Address /\ written[i] # None /\ written[i].owner = u
                      /\ rows[i] \in Address /\ rows[i].owner = u /\ rows[i].isDefault = marks[i]
    OBVIOUS
  <2>1. written[i] \in Address /\ written[i] # None /\ written[i].owner = u
    BY DEF AddressesOf, UserTypes
  <2> QED  BY <2>1 DEF Address
<1>4. \A i \in W : i < nextId /\ (saved[i] # None => saved[i].owner = u)
  <2> SUFFICES ASSUME NEW i \in W PROVE i < nextId /\ (saved[i] # None => saved[i].owner = u)
    OBVIOUS
  <2>1. i < nextId
    BY <1>1, <1>3 DEF Locks, UserTypes, AddressIds
  <2>2. saved[i] # None => saved[i].owner = u
    BY <1>1, <1>3 DEF Locks
  <2> QED  BY <2>1, <2>2
<1>5. /\ DOMAIN ranged' = Owners
      /\ \A v \in Owners : ranged[v] \notin {None, c} => ranged'[v] = ranged[v]
  BY <1>2 DEF UserTypes
<1>6. /\ UserTypes' /\ Locks' /\ Frame(c)
      /\ Mine(c)' = Mine(c) \cup W
      /\ \A i \in W : written'[i] = rows[i]
      /\ \A i \in AddressIds \ W : written'[i] = written[i]
      /\ User(c)' = User(c)
  <2> HIDE DEF rows
  <2>1. WriteRows(c, rows)
    BY DEF rows
  <2> QED  BY <1>1, <1>3, <1>4, <1>5, <2>1, Writing
<1>7. AddressesOf(written', u) = W
  <2>1. ASSUME NEW i \in AddressIds PROVE i \in AddressesOf(written', u) <=> i \in W
    <3>1. CASE i \in W
      <4>1. written'[i] \in Address /\ written'[i].owner = u
        BY <1>3, <1>6, <3>1
      <4> HIDE DEF rows, W
      <4> QED  BY <3>1, <4>1, UsersConstants DEF AddressesOf
    <3>2. CASE i \notin W
      BY <1>6, <3>2 DEF AddressesOf
    <3> QED  BY <3>1, <3>2
  <2> QED  BY <1>1, <2>1 DEF AddressesOf
<1>8. DefaultsOf(written', u) = {i \in W : marks[i]}
  <2>1. \A i \in W : written'[i].isDefault = marks[i]
    BY <1>3, <1>6
  <2> HIDE DEF rows
  <2> QED  BY <1>7, <2>1 DEF DefaultsOf
<1>9. AddressesOf(saved, u) \subseteq Mine(c) \cup W
  <2> SUFFICES ASSUME NEW i \in AddressesOf(saved, u), i \notin Mine(c) PROVE i \in W
    OBVIOUS
  <2> QED  BY UnlockedIsSaved DEF AddressesOf
<1>10. AllMine(c)'
  BY <1>2, <1>6, <1>7, <1>9 DEF AllMine, RowsOf, Keeps, UserTypes
<1> QED  BY <1>2, <1>6, <1>7, <1>8, <1>10

LEMMA OfCall ==
  ASSUME UsersInv, NEW c \in AddressCalls, asking[c] # "idle"
  PROVE  /\ Stage(c) /\ User(c) \in Owners /\ asked[c] \in AddressRequests
         /\ asked[c].id \in AddressIds \cup {0}
BY DEF UsersInv, Stages, UserTypes, User, AddressRequests

LEMMA InsertAddressKeeps ==
  ASSUME UsersInv, NEW c \in AddressCalls, InsertAddress(c) PROVE UsersInv'
<1> USE UsersConstants DEF UsersInv
<1> DEFINE row == [owner |-> User(c), isDefault |-> FALSE]
<1>1. /\ asking[c] = "insert" /\ nextId \in AddressIds /\ nextId' = nextId + 1
      /\ saved' = saved /\ raced' = raced /\ demoted' = demoted
      /\ ranged' = ranged /\ sawDefault' = sawDefault
      /\ ranged[User(c)] \in {None, c}
  BY DEF InsertAddress
<1>2. Stage(c) /\ User(c) \in Owners /\ asked[c] \in AddressRequests
  BY <1>1, OfCall
<1>3. /\ written'[nextId] = row /\ writer'[nextId] = c
      /\ \A i \in AddressIds \ {nextId} : written'[i] = written[i] /\ writer'[i] = writer[i]
      /\ written' \in [AddressIds -> Address \cup {None}]
      /\ writer' \in [AddressIds -> AddressCalls \cup {None}]
      /\ row \in Address
  BY <1>1, <1>2 DEF InsertAddress, UserTypes, Address
<1>4. /\ asked'[c] = [asked[c] EXCEPT !.id = nextId]
      /\ asking'[c] = "count"
      /\ \A d \in AddressCalls \ {c} : asked'[d] = asked[d] /\ asking'[d] = asking[d]
      /\ asked'[c].op = asked[c].op /\ asked'[c].id = nextId /\ User(c)' = User(c)
      /\ asked'[c] \in AddressRequests
  BY <1>1, <1>2 DEF InsertAddress, Proceed, UserTypes, AddressRequests, User
<1>5. UserTypes'
  <2>1. asking' \in [AddressCalls -> Statements \cup {"idle"}] /\ DOMAIN asked' = AddressCalls
    BY DEF InsertAddress, Proceed, UserTypes, Statements
  <2>2. \A d \in AddressCalls : asking'[d] # "idle" => asked'[d] \in AddressRequests
    BY <1>4 DEF UserTypes
  <2> QED  BY <1>1, <1>3, <2>1, <2>2 DEF UserTypes, AddressIds
<1>6. written[nextId] = None /\ saved[nextId] = None /\ writer[nextId] = None
  BY <1>1 DEF Locks, UserTypes
<1>7. Locks'
  <2> SUFFICES ASSUME NEW i \in AddressIds
               PROVE  /\ writer'[i] = None => written'[i] = saved'[i]
                      /\ writer'[i] # None =>
                           /\ asking'[writer'[i]] # "idle"
                           /\ written'[i] # None => written'[i].owner = asked'[writer'[i]].user
                           /\ saved'[i] # None => saved'[i].owner = asked'[writer'[i]].user
                      /\ i >= nextId' => written'[i] = None /\ saved'[i] = None /\ writer'[i] = None
    BY DEF Locks, User
  <2>1. CASE i = nextId
    <3>1. ~(i >= nextId')
      BY <1>1, <2>1 DEF UserTypes
    <3>2. writer'[i] = c /\ asking'[c] # "idle" /\ asked'[c].user = User(c) /\ saved'[i] = None
      BY <1>1, <1>3, <1>4, <1>6, <2>1 DEF User
    <3>3. written'[i].owner = User(c)
      BY <1>3, <2>1
    <3> QED  BY <2>1, <3>1, <3>2, <3>3
  <2>2. CASE i # nextId
    <3>1. writer'[i] = writer[i] /\ written'[i] = written[i] /\ saved'[i] = saved[i]
      BY <1>1, <1>3, <2>2
    <3>2. writer[i] # None =>
            /\ writer[i] \in AddressCalls /\ asking[writer[i]] # "idle"
            /\ asking'[writer[i]] # "idle" /\ asked'[writer[i]].user = User(writer[i])
      <4> SUFFICES ASSUME writer[i] # None
                   PROVE  /\ writer[i] \in AddressCalls /\ asking[writer[i]] # "idle"
                          /\ asking'[writer[i]] # "idle" /\ asked'[writer[i]].user = User(writer[i])
        OBVIOUS
      <4>1. writer[i] \in AddressCalls /\ asking[writer[i]] # "idle"
        BY DEF Locks, UserTypes
      <4>2. asked'[writer[i]].user = asked[writer[i]].user /\ asking'[writer[i]] # "idle"
        BY <1>4, <4>1 DEF User
      <4> QED  BY <4>1, <4>2 DEF User
    <3>3. i >= nextId' => i >= nextId
      BY <1>1 DEF UserTypes, AddressIds
    <3> QED  BY <3>1, <3>2, <3>3 DEF Locks
  <2> QED  BY <2>1, <2>2
<1>8. Frame(c)
  <2>1. \A i \in AddressIds :
       /\ writer[i] \notin {None, c} =>
            writer'[i] = writer[i] /\ written'[i] = written[i] /\ saved'[i] = saved[i]
       /\ writer'[i] \in {writer[i], c, None}
       /\ written'[i] # written[i] \/ saved'[i] # saved[i] =>
            \A table \in {written, written', saved, saved'} : table[i] # None => table[i].owner = User(c)
       /\ i < nextId /\ written[i] = None /\ saved[i] = None => written'[i] = None /\ saved'[i] = None
    BY <1>1, <1>3, <1>6 DEF UserTypes
  <2> QED  BY <1>1, <1>4, <2>1 DEF Frame, UserTypes
<1>9. Stage(c)'
  <2>1. Mine(c) = {}
    BY <1>1, <1>2 DEF Stage
  <2>2. Mine(c)' = {nextId}
    BY <1>1, <1>3, <2>1 DEF Mine
  <2>3. NewRow(c)' /\ OnlyRow(c)'
    BY <1>1, <1>3, <1>4, <1>6, <2>2 DEF NewRow, OnlyRow
  <2>4. asked[c].op = "create"
    BY <1>1, <1>2 DEF Stage, StatementsOf, AddressRequests
  <2>5. \A i \in Mine(c)' : written'[i] # None
    BY <1>3, <2>2
  <2> QED  BY <1>4, <2>3, <2>4, <2>5 DEF Stage, StatementsOf
<1> QED  BY <1>1, <1>4, <1>5, <1>7, <1>8, <1>9, StatementStep

\* A statement that only reads.
LEMMA Reading ==
  ASSUME UsersInv, NEW c \in AddressCalls, asking[c] # "idle",
         UNCHANGED <<addressRows, asked, raced, demoted>>,
         NEW s \in Statements, Proceed(c, s), NEW seen \in BOOLEAN,
         sawDefault' = [sawDefault EXCEPT ![c] = seen], Stage(c)'
  PROVE  UsersInv'
<1> USE UsersConstants DEF UsersInv, addressRows
<1>1. /\ asking' \in [AddressCalls -> Statements \cup {"idle"}] /\ asking'[c] = s /\ s # "idle"
      /\ sawDefault' \in [AddressCalls -> BOOLEAN]
      /\ \A d \in AddressCalls \ {c} : asking'[d] = asking[d] /\ sawDefault'[d] = sawDefault[d]
  BY DEF Proceed, UserTypes, Statements
<1>2. UserTypes'
  BY <1>1 DEF UserTypes
<1>3. Locks'
  <2> SUFFICES ASSUME NEW i \in AddressIds, writer[i] # None PROVE asking'[writer[i]] # "idle"
    BY DEF Locks, User
  <2> QED  BY <1>1 DEF Locks, UserTypes
<1>4. Frame(c)
  <2>1. \A i \in AddressIds : writer'[i] = writer[i] /\ written'[i] = written[i] /\ saved'[i] = saved[i]
    OBVIOUS
  <2>2. AddressesOf(saved', User(c)) \cup AddressesOf(written', User(c)) \subseteq RowsOf(User(c))
    BY DEF RowsOf
  <2> QED  BY <1>1, <2>1, <2>2 DEF Frame, UserTypes
<1> QED  BY <1>2, <1>3, <1>4, StatementStep DEF User

LEMMA CountAddressesKeeps ==
  ASSUME UsersInv, NEW c \in AddressCalls, CountAddresses(c) PROVE UsersInv'
<1> DEFINE u == User(c)
           id == asked[c].id
           first == AddressesOf(saved, u) = {}
           s == AfterCount(c, first)
<1>1. /\ asking[c] = "count" /\ Proceed(c, s)
      /\ UNCHANGED <<addressRows, asked, sawDefault, raced, demoted>>
  BY DEF CountAddresses
<1>2. /\ s \in {"clear", "set", "commit"}
      /\ s = "set" => first
      /\ s = "commit" => ~first
  BY DEF AfterCount
<1>3. Stage(c) /\ u \in Owners
  BY <1>1, OfCall
<1>4. asked[c].op = "create" /\ NewRow(c) /\ OnlyRow(c)
  BY <1>1, <1>3, OfCall DEF Stage, StatementsOf, AddressRequests
<1> HIDE DEF s
<1>5. asking'[c] = s
  BY <1>1 DEF Proceed, UsersInv, UserTypes
<1>6. /\ NewRow(c)' /\ OnlyRow(c)' /\ Mine(c)' = Mine(c) /\ User(c)' = u
      /\ asked'[c] = asked[c] /\ saved' = saved /\ written' = written
  BY <1>1, <1>4 DEF addressRows, NewRow, OnlyRow, Mine, User
<1>7. s = "commit" => Outcome(c)'
  <2> SUFFICES ASSUME s = "commit" PROVE Outcome(c)'
    OBVIOUS
  <2>1. id \in AddressesOf(written, u) /\ saved[id] = None /\ ~written[id].isDefault
    <3>1. /\ written[id] = [owner |-> u, isDefault |-> FALSE] /\ id \in AddressIds /\ saved[id] = None
          /\ written[id] \in Address
      BY <1>3, <1>4 DEF NewRow, Mine, Address
    <3> QED  BY <3>1, UsersConstants DEF AddressesOf
  <2> QED  BY <1>2, <1>4, <1>6, <2>1 DEF Outcome
<1>8. Stage(c)'
  <2>1. \A i \in Mine(c)' : written'[i] # None
    BY <1>1, <1>3, <1>4, <1>6 DEF Stage
  <2> QED  BY <1>2, <1>4, <1>5, <1>6, <1>7, <2>1 DEF Stage, StatementsOf
<1>9. sawDefault[c] \in BOOLEAN /\ sawDefault' = [sawDefault EXCEPT ![c] = sawDefault[c]]
  BY <1>1 DEF UsersInv, UserTypes
<1> QED  BY <1>1, <1>2, <1>8, <1>9, Reading DEF Statements

LEMMA ReadAddressKeeps ==
  ASSUME UsersInv, NEW c \in AddressCalls, ReadAddress(c) PROVE UsersInv'
<1> DEFINE u == User(c)
           id == asked[c].id
<1>1. /\ asking[c] = "read" /\ id \in AddressesOf(saved, u) /\ Proceed(c, "delete")
      /\ sawDefault' = [sawDefault EXCEPT ![c] = saved[id].isDefault]
      /\ UNCHANGED <<addressRows, asked, raced, demoted>>
  BY DEF ReadAddress
<1>2. Stage(c) /\ asked[c].op = "delete" /\ Mine(c) = {}
  BY <1>1, OfCall DEF Stage, StatementsOf, AddressRequests
<1>3. /\ saved[id] \in Address /\ saved[id] # None /\ saved[id].owner = u /\ id \in AddressIds
      /\ saved[id].isDefault \in BOOLEAN
  BY <1>1 DEF AddressesOf, UsersInv, UserTypes, Address
<1>4. Known(c)
  <2>1. id < nextId
    BY <1>3 DEF UsersInv, Locks, UserTypes, AddressIds
  <2>2. written[id] # None => written[id].owner = u
    BY <1>3 DEF UsersInv, Locks
  <2> QED  BY <1>3, <2>1, <2>2 DEF Known
<1>5. asking'[c] = "delete" /\ sawDefault'[c] = saved[id].isDefault
  BY <1>1 DEF Proceed, UsersInv, UserTypes
<1>6. /\ Known(c)' /\ Mine(c)' = {} /\ User(c)' = u
      /\ asked'[c] = asked[c] /\ saved' = saved
  BY <1>1, <1>2, <1>4 DEF addressRows, Known, Mine, User
<1>7. Stage(c)'
  BY <1>1, <1>2, <1>5, <1>6 DEF Stage, StatementsOf
<1> QED  BY <1>1, <1>3, <1>7, Reading DEF Statements

\* A statement that writes the row a call is about.
LEMMA WritingOne ==
  ASSUME UsersInv, NEW c \in AddressCalls, asking[c] # "idle", Keeps(c),
         sawDefault' = sawDefault, ranged' = ranged,
         Known(c), NEW row \in Address \cup {None},
         row # None => written[asked[c].id] # None /\ row.owner = User(c),
         WriteRows(c, [i \in {asked[c].id} |-> row])
  PROVE  /\ UserTypes' /\ Locks' /\ Frame(c)
         /\ Mine(c)' = Mine(c) \cup {asked[c].id}
         /\ written'[asked[c].id] = row
         /\ \A i \in AddressIds \ {asked[c].id} : written'[i] = written[i]
         /\ User(c)' = User(c) /\ User(c) \in Owners
         /\ asking'[c] \in Statements
<1> DEFINE id == asked[c].id
           rows == [i \in {id} |-> row]
<1>1. DOMAIN rows = {id} /\ \A i \in DOMAIN rows : rows[i] = row
  OBVIOUS
<1>2. WriteRows(c, rows)
  OBVIOUS
<1>3. DOMAIN ranged' = Owners
  BY DEF UsersInv, UserTypes
<1> HIDE DEF rows
<1>4. \A i \in DOMAIN rows :
           /\ i < nextId
           /\ rows[i] \in Address \cup {None}
           /\ rows[i] # None => written[i] # None /\ rows[i].owner = User(c)
           /\ written[i] # None => written[i].owner = User(c)
           /\ saved[i] # None => saved[i].owner = User(c)
  BY <1>1 DEF Known
<1>5. DOMAIN rows \subseteq AddressIds
  BY <1>1 DEF Known
<1> QED  BY <1>1, <1>2, <1>3, <1>4, <1>5, Writing

\* An address of the user's that a call may write.
LEMMA OwnIsKnown ==
  ASSUME UsersInv, NEW c \in AddressCalls, asked[c].id \in AddressesOf(written, User(c)),
         writer[asked[c].id] \in {None, c}
  PROVE  Known(c) /\ written[asked[c].id] \in Address
<1> DEFINE id == asked[c].id
<1>1. id \in AddressIds /\ written[id] \in Address /\ written[id] # None /\ written[id].owner = User(c)
  BY DEF AddressesOf, UsersInv, UserTypes
<1>2. id < nextId
  BY <1>1 DEF UsersInv, Locks, UserTypes, AddressIds
<1>3. saved[id] # None => saved[id].owner = User(c)
  BY <1>1 DEF UsersInv, Locks
<1> QED  BY <1>1, <1>2, <1>3 DEF Known

LEMMA SetDefaultKeeps ==
  ASSUME UsersInv, NEW c \in AddressCalls, SetDefault(c) PROVE UsersInv'
<1> DEFINE u == User(c)
           id == asked[c].id
           row == [written[id] EXCEPT !.isDefault = TRUE]
<1>1. /\ asking[c] = "set" /\ asking'[c] = "commit"
      /\ WriteRows(c, [i \in {id} |-> [written[i] EXCEPT !.isDefault = TRUE]])
      /\ Keeps(c) /\ sawDefault' = sawDefault /\ ranged' = ranged
      /\ asked'[c] = asked[c] /\ saved' = saved /\ raced' = raced /\ demoted' = demoted
  BY DEF SetDefault, Keeps, Statements, Proceed, UsersInv, UserTypes
<1>2. Stage(c) /\ u \in Owners /\ asked[c].op = "create" /\ NewRow(c)
  BY <1>1, OfCall DEF Stage, StatementsOf, AddressRequests
<1>3. /\ written[id] = [owner |-> u, isDefault |-> FALSE] /\ written[id] \in Address
      /\ id \in AddressIds /\ saved[id] = None /\ writer[id] = c /\ id \in Mine(c)
      /\ row \in Address /\ row.owner = u /\ row.isDefault
  <2>1. /\ written[id] = [owner |-> u, isDefault |-> FALSE]
        /\ id \in AddressIds /\ saved[id] = None /\ writer[id] = c /\ id \in Mine(c)
    BY <1>2 DEF NewRow, Mine
  <2>2. written[id] \in Address /\ written[id].owner = u
    BY <1>2, <2>1 DEF Address
  <2>3. row \in Address /\ row.owner = u /\ row.isDefault
    BY <2>2 DEF Address
  <2> QED  BY <2>1, <2>2, <2>3
<1>4. id \in AddressesOf(written, u)
  BY <1>3, UsersConstants DEF AddressesOf
<1>5. Known(c)
  BY <1>3, <1>4, OwnIsKnown
<1>6. WriteRows(c, [i \in {id} |-> row])
  BY <1>1, Zenon
<1> HIDE DEF row
<1>7. /\ UserTypes' /\ Locks' /\ Frame(c)
      /\ Mine(c)' = Mine(c) \cup {id} /\ written'[id] = row
      /\ \A i \in AddressIds \ {id} : written'[i] = written[i]
      /\ User(c)' = u
  <2>1. row # None => written[id] # None /\ row.owner = u
    BY <1>3, UsersConstants
  <2> QED  BY <1>1, <1>3, <1>5, <1>6, <2>1, WritingOne
<1>8. /\ Mine(c)' = Mine(c) /\ AddressesOf(written', u) = AddressesOf(written, u)
      /\ id \in AddressesOf(written', u)
  <2>1. row # None /\ row.owner = u
    BY <1>3, UsersConstants
  <2> QED  BY <1>3, <1>4, <1>7, <2>1 DEF AddressesOf
<1>9. u \notin raced => Outcome(c)'
  <2>1. CASE AllMine(c) /\ DefaultsOf(written, u) = {}
    <3>1. AllMine(c)'
      BY <1>1, <1>7, <1>8, <2>1 DEF AllMine, RowsOf
    <3>2. \A i \in DefaultsOf(written', u) : i = id
      BY <1>7, <1>8, <2>1 DEF DefaultsOf, AddressesOf
    <3>3. id \in DefaultsOf(written', u)
      BY <1>3, <1>7, <1>8 DEF DefaultsOf
    <3> QED  BY <1>7, <3>1, <3>2, <3>3 DEF Outcome, Ruled
  <2>2. CASE OnlyRow(c) /\ AddressesOf(saved, u) = {}
    <3>1. OnlyRow(c)' /\ written'[id].isDefault
      BY <1>1, <1>3, <1>7, <1>8, <2>2 DEF OnlyRow
    <3> QED  BY <1>1, <1>2, <1>3, <1>7, <1>8, <2>2, <3>1 DEF Outcome
  <2> QED  BY <1>1, <1>2, <2>1, <2>2 DEF Stage
<1>10. Stage(c)'
  <2>1. \A i \in Mine(c)' : written'[i] # None
    <3>1. \A i \in Mine(c) : i \in AddressIds /\ written[i] # None
      BY <1>1, <1>2 DEF Stage, Mine
    <3> QED  BY <1>3, <1>7, <1>8, <3>1, UsersConstants
  <2> QED  BY <1>1, <1>2, <1>7, <1>9, <2>1 DEF Stage, StatementsOf
<1> QED  BY <1>1, <1>7, <1>10, StatementStep

LEMMA UpdateAddressKeeps ==
  ASSUME UsersInv, NEW c \in AddressCalls, UpdateAddress(c) PROVE UsersInv'
<1> DEFINE u == User(c)
           id == asked[c].id
           row == [written[id] EXCEPT !.isDefault = asked[c].isDefault]
<1>1. /\ asking[c] = "update" /\ asking'[c] = (IF asked[c].isDefault THEN "others" ELSE "commit")
      /\ WriteRows(c, [i \in {id} |-> [written[i] EXCEPT !.isDefault = asked[c].isDefault]])
      /\ Keeps(c) /\ sawDefault' = sawDefault /\ ranged' = ranged
      /\ asked'[c] = asked[c] /\ saved' = saved /\ raced' = raced /\ demoted' = demoted
      /\ id \in AddressesOf(written, u)
  BY DEF UpdateAddress, Found, Keeps, Statements, Proceed, UsersInv, UserTypes
<1>2. /\ Stage(c) /\ u \in Owners /\ asked[c].op = "update" /\ Mine(c) = {}
      /\ asked[c].isDefault \in BOOLEAN
  BY <1>1, OfCall DEF Stage, StatementsOf, AddressRequests
<1>3. writer[id] = None /\ id \in AddressIds
  BY <1>1, <1>2 DEF WriteRows, Mine, AddressesOf
<1>4. Known(c) /\ written[id] \in Address /\ saved[id] = written[id]
  BY <1>1, <1>3, OwnIsKnown DEF UsersInv, Locks
<1>5. /\ row \in Address /\ row.owner = u /\ row.isDefault = asked[c].isDefault
      /\ row # None /\ written[id] # None
  BY <1>1, <1>2, <1>4, UsersConstants DEF Address, AddressesOf
<1>6. WriteRows(c, [i \in {id} |-> row])
  BY <1>1, Zenon
<1> HIDE DEF row
<1>7. /\ UserTypes' /\ Locks' /\ Frame(c)
      /\ Mine(c)' = {id} /\ written'[id] = row
      /\ User(c)' = u
  BY <1>1, <1>2, <1>4, <1>5, <1>6, WritingOne
<1>8. /\ OnlyRow(c)' /\ id \in AddressesOf(written', u) /\ id \in AddressesOf(saved, u)
  BY <1>1, <1>3, <1>4, <1>5, <1>7 DEF OnlyRow, AddressesOf
<1>9. /\ \A i \in Mine(c)' : written'[i] # None
      /\ \A i \in Mine(c)' : saved'[i] # None
  BY <1>1, <1>4, <1>5, <1>7
<1>10. ~asked[c].isDefault => Outcome(c)'
  BY <1>1, <1>2, <1>5, <1>7, <1>8 DEF Outcome
<1>11. Stage(c)'
  BY <1>1, <1>2, <1>7, <1>8, <1>9, <1>10 DEF Stage, StatementsOf
<1> QED  BY <1>1, <1>7, <1>11, StatementStep

LEMMA DeleteOwnAddressKeeps ==
  ASSUME UsersInv, NEW c \in AddressCalls, DeleteOwnAddress(c) PROVE UsersInv'
<1> DEFINE u == User(c)
           id == asked[c].id
<1>1. /\ asking[c] = "delete" /\ asking'[c] = (IF sawDefault[c] THEN "promote" ELSE "commit")
      /\ WriteRows(c, [i \in {id} |-> None])
      /\ Keeps(c) /\ sawDefault' = sawDefault /\ ranged' = ranged
      /\ asked'[c] = asked[c] /\ saved' = saved /\ raced' = raced /\ demoted' = demoted
  BY DEF DeleteOwnAddress, Keeps, Statements, Proceed, UsersInv, UserTypes
<1>2. Stage(c) /\ u \in Owners /\ asked[c].op = "delete" /\ Mine(c) = {} /\ Known(c)
  BY <1>1, OfCall DEF Stage, StatementsOf, AddressRequests
<1>3. /\ UserTypes' /\ Locks' /\ Frame(c)
      /\ Mine(c)' = {id} /\ written'[id] = None
      /\ User(c)' = u
  BY <1>1, <1>2, WritingOne
<1>4. OnlyRow(c)'
  BY <1>1, <1>3 DEF OnlyRow
<1>5. u \notin raced => id \in AddressesOf(saved, u) /\ (sawDefault[c] <=> saved[id].isDefault)
  BY <1>1, <1>2 DEF Stage
<1>6. u \notin raced /\ ~sawDefault[c] => Outcome(c)'
  BY <1>1, <1>2, <1>3, <1>4, <1>5 DEF Outcome
<1>7. Stage(c)'
  BY <1>1, <1>2, <1>3, <1>4, <1>5, <1>6 DEF Stage, StatementsOf
<1> QED  BY <1>1, <1>3, <1>7, StatementStep

LEMMA Unmarked ==
  ASSUME NEW u \in Owners, NEW row \in Address, row.owner = u
  PROVE  [row EXCEPT !.isDefault = FALSE] = [owner |-> u, isDefault |-> FALSE]
<1> DEFINE unmarked == [row EXCEPT !.isDefault = FALSE]
<1>1. unmarked \in Address /\ unmarked.owner = u /\ unmarked.isDefault = FALSE
  BY DEF Address
<1> HIDE DEF unmarked
<1>2. unmarked = [owner |-> u, isDefault |-> FALSE]
  BY <1>1 DEF Address
<1> QED  BY <1>2 DEF unmarked

LEMMA ClearDefaultKeeps ==
  ASSUME UsersInv, NEW c \in AddressCalls, ClearDefault(c) PROVE UsersInv'
<1> DEFINE u == User(c)
           id == asked[c].id
           marks == [i \in AddressesOf(written, u) |-> FALSE]
<1>1. /\ asking[c] = "clear" /\ asking'[c] = "set"
      /\ ranged[u] \in {None, c} /\ ranged' = [ranged EXCEPT ![u] = c]
      /\ \A i \in AddressesOf(saved, u) : writer[i] \in {None, c}
      /\ Keeps(c) /\ sawDefault' = sawDefault
      /\ asked'[c] = asked[c] /\ saved' = saved /\ raced' = raced /\ demoted' = demoted
  BY DEF ClearDefault, WriteAll, Keeps, Statements, Proceed, UsersInv, UserTypes
<1>2. WriteRows(c, [i \in AddressesOf(written, u) |-> [written[i] EXCEPT !.isDefault = marks[i]]])
  <2>1. WriteRows(c, [i \in AddressesOf(written, u) |-> [written[i] EXCEPT !.isDefault = FALSE]])
    BY DEF ClearDefault, WriteAll
  <2>2. [i \in AddressesOf(written, u) |-> [written[i] EXCEPT !.isDefault = marks[i]]]
          = [i \in AddressesOf(written, u) |-> [written[i] EXCEPT !.isDefault = FALSE]]
    OBVIOUS
  <2> QED  BY <2>1, <2>2, Zenon
<1>3. /\ marks \in [AddressesOf(written, u) -> BOOLEAN]
      /\ \A i \in AddressesOf(written, u) : ~marks[i]
  OBVIOUS
<1>4. Stage(c) /\ u \in Owners /\ asked[c].op = "create" /\ NewRow(c)
  BY <1>1, OfCall DEF Stage, StatementsOf, AddressRequests
<1> HIDE DEF marks
<1>5. /\ UserTypes' /\ Locks' /\ Frame(c)
      /\ AllMine(c)' /\ Mine(c)' = Mine(c) \cup AddressesOf(written, u)
      /\ AddressesOf(written', u) = AddressesOf(written, u)
      /\ DefaultsOf(written', u) = {i \in AddressesOf(written, u) : marks[i]}
      /\ \A i \in AddressesOf(written, u) : written'[i] = [written[i] EXCEPT !.isDefault = marks[i]]
      /\ \A i \in AddressIds \ AddressesOf(written, u) : written'[i] = written[i]
      /\ User(c)' = u
  <2>1. MarksAll(c, marks)
    BY <1>1, <1>2, <1>3 DEF MarksAll
  <2> QED  BY <1>1, <2>1, WritingAll
<1>6. DefaultsOf(written', u) = {}
  BY <1>3, <1>5
<1>7. /\ id \in AddressesOf(written, u) /\ written[id] = [owner |-> u, isDefault |-> FALSE]
      /\ id \in Mine(c) /\ saved[id] = None
  <2>1. /\ written[id] = [owner |-> u, isDefault |-> FALSE]
        /\ id \in Mine(c) /\ saved[id] = None /\ id \in AddressIds
    BY <1>4 DEF NewRow, Mine
  <2>2. written[id] \in Address /\ written[id].owner = u
    BY <1>4, <2>1 DEF Address
  <2> QED  BY <2>1, <2>2, UsersConstants DEF AddressesOf
<1>8. written'[id] = written[id]
  <2>1. written'[id] = [written[id] EXCEPT !.isDefault = FALSE]
    <3>1. marks[id] = FALSE
      BY <1>3, <1>7
    <3> QED  BY <1>5, <1>7, <3>1
  <2>2. written[id] \in Address /\ written[id].owner = u
    BY <1>4, <1>7 DEF Address
  <2> QED  BY <1>4, <1>7, <2>1, <2>2, Unmarked, Zenon
<1>9. NewRow(c)'
  BY <1>1, <1>5, <1>7, <1>8 DEF NewRow
<1>10. \A i \in Mine(c)' : written'[i] # None
  <2>1. \A i \in AddressesOf(written', u) : written'[i] # None
    BY DEF AddressesOf
  <2>2. \A i \in Mine(c) : i \in AddressIds /\ written[i] # None
    BY <1>4 DEF Stage, Mine
  <2> QED  BY <1>5, <2>1, <2>2
<1>11. Stage(c)'
  BY <1>1, <1>4, <1>5, <1>6, <1>9, <1>10 DEF Stage, StatementsOf
<1> QED  BY <1>1, <1>5, <1>11, StatementStep

LEMMA ClearOthersKeeps ==
  ASSUME UsersInv, NEW c \in AddressCalls, ClearOthers(c) PROVE UsersInv'
<1> DEFINE u == User(c)
           id == asked[c].id
           marks == [i \in AddressesOf(written, u) |-> i = id]
<1>1. /\ asking[c] = "others" /\ asking'[c] = "commit"
      /\ ranged[u] \in {None, c} /\ ranged' = [ranged EXCEPT ![u] = c]
      /\ \A i \in AddressesOf(saved, u) : writer[i] \in {None, c}
      /\ Keeps(c) /\ sawDefault' = sawDefault
      /\ asked'[c] = asked[c] /\ saved' = saved /\ raced' = raced /\ demoted' = demoted
  BY DEF ClearOthers, WriteAll, Keeps, Statements, Proceed, UsersInv, UserTypes
<1>2. WriteRows(c, [i \in AddressesOf(written, u) |-> [written[i] EXCEPT !.isDefault = marks[i]]])
  <2>1. WriteRows(c, [i \in AddressesOf(written, u) |-> [written[i] EXCEPT !.isDefault = (i = id)]])
    BY DEF ClearOthers, WriteAll
  <2>2. [i \in AddressesOf(written, u) |-> [written[i] EXCEPT !.isDefault = marks[i]]]
          = [i \in AddressesOf(written, u) |-> [written[i] EXCEPT !.isDefault = (i = id)]]
    OBVIOUS
  <2> QED  BY <2>1, <2>2, Zenon
<1>3. /\ marks \in [AddressesOf(written, u) -> BOOLEAN]
      /\ \A i \in AddressesOf(written, u) : marks[i] <=> i = id
  OBVIOUS
<1>4. Stage(c) /\ u \in Owners /\ asked[c].op = "update" /\ OnlyRow(c) /\ id \in AddressesOf(written, u)
  BY <1>1, OfCall DEF Stage, StatementsOf, AddressRequests
<1> HIDE DEF marks
<1>5. /\ UserTypes' /\ Locks' /\ Frame(c)
      /\ AllMine(c)' /\ Mine(c)' = Mine(c) \cup AddressesOf(written, u)
      /\ AddressesOf(written', u) = AddressesOf(written, u)
      /\ DefaultsOf(written', u) = {i \in AddressesOf(written, u) : marks[i]}
      /\ User(c)' = u
  <2>1. MarksAll(c, marks)
    BY <1>1, <1>2, <1>3 DEF MarksAll
  <2> QED  BY <1>1, <2>1, WritingAll
<1>6. Outcome(c)'
  <2>1. DefaultsOf(written', u) = {id}
    BY <1>3, <1>4, <1>5
  <2> QED  BY <1>5, <2>1 DEF Outcome, Ruled
<1>7. Mine(c)' = AddressesOf(written', u)
  BY <1>4, <1>5 DEF OnlyRow
<1>8. \A i \in Mine(c)' : written'[i] # None
  BY <1>7 DEF AddressesOf
<1>9. ASSUME NEW i \in Mine(c)' PROVE saved'[i] # None
  <2>1. CASE i \in Mine(c)
    BY <1>1, <1>4, <2>1 DEF Stage
  <2>2. CASE i \notin Mine(c)
    <3>1. i \in AddressesOf(written, u) /\ i \in AddressIds /\ written[i] # None
      BY <1>5, <2>2 DEF AddressesOf
    <3>2. writer[i] \in {None, c}
      <4> DEFINE rows == [j \in AddressesOf(written, u) |-> [written[j] EXCEPT !.isDefault = marks[j]]]
      <4>1. DOMAIN rows = AddressesOf(written, u) /\ WriteRows(c, rows)
        BY <1>2
      <4> HIDE DEF rows
      <4> QED  BY <3>1, <4>1 DEF WriteRows
    <3> QED  BY <1>1, <2>2, <3>1, <3>2, UnlockedIsSaved
  <2> QED  BY <2>1, <2>2
<1>10. Stage(c)'
  BY <1>1, <1>4, <1>5, <1>6, <1>8, <1>9 DEF Stage, StatementsOf
<1> QED  BY <1>1, <1>5, <1>10, StatementStep

LEMMA PromoteLowestKeeps ==
  ASSUME UsersInv, NEW c \in AddressCalls, PromoteLowest(c) PROVE UsersInv'
<1> DEFINE u == User(c)
           id == asked[c].id
           W == AddressesOf(written, u)
           marks == [i \in W |-> (written[i].isDefault \/ \A j \in W : i <= j)]
<1>1. /\ asking[c] = "promote" /\ asking'[c] = "commit"
      /\ ranged[u] \in {None, c} /\ ranged' = [ranged EXCEPT ![u] = c]
      /\ \A i \in AddressesOf(saved, u) : writer[i] \in {None, c}
      /\ Keeps(c) /\ sawDefault' = sawDefault
      /\ asked'[c] = asked[c] /\ saved' = saved /\ raced' = raced /\ demoted' = demoted
  BY DEF PromoteLowest, WriteAll, Keeps, Statements, Proceed, UsersInv, UserTypes
<1>2. WriteRows(c, [i \in W |-> [written[i] EXCEPT !.isDefault = marks[i]]])
  <2>1. WriteRows(c, [i \in W |->
                 [written[i] EXCEPT !.isDefault = (written[i].isDefault \/ \A j \in W : i <= j)]])
    BY DEF PromoteLowest, WriteAll
  <2>2. [i \in W |-> [written[i] EXCEPT !.isDefault = marks[i]]]
          = [i \in W |-> [written[i] EXCEPT !.isDefault = (written[i].isDefault \/ \A j \in W : i <= j)]]
    <3> HIDE DEF W
    <3> QED OBVIOUS
  <2> QED  BY <2>1, <2>2, Zenon
<1>3. \A i \in W : written[i] \in Address /\ written[i].isDefault \in BOOLEAN /\ i \in Nat
  BY UsersConstants DEF AddressesOf, UsersInv, UserTypes, Address, AddressIds
<1>4. /\ marks \in [W -> BOOLEAN]
      /\ \A i \in W : marks[i] <=> (written[i].isDefault \/ \A j \in W : i <= j)
  <2> HIDE DEF W
  <2> QED  BY <1>3
<1>5. Stage(c) /\ u \in Owners /\ asked[c].op = "delete" /\ OnlyRow(c)
  BY <1>1, OfCall DEF Stage, StatementsOf, AddressRequests
<1> HIDE DEF marks
<1>6. /\ UserTypes' /\ Locks' /\ Frame(c)
      /\ AllMine(c)'
      /\ AddressesOf(written', u) = W
      /\ DefaultsOf(written', u) = {i \in W : marks[i]}
      /\ User(c)' = u
  <2>1. MarksAll(c, marks)
    BY <1>1, <1>2, <1>4 DEF MarksAll
  <2> QED  BY <1>1, <2>1, WritingAll
<1>7. ASSUME u \notin raced PROVE Outcome(c)'
  <2>1. id \in AddressesOf(saved, u) /\ saved[id].isDefault /\ written[id] = None
    BY <1>1, <1>5, <1>7 DEF Stage
  <2>2. ASSUME NEW i \in W, written[i].isDefault PROVE FALSE
    <3>1. i \in AddressIds /\ written[i] # None /\ i # id
      BY <2>1 DEF AddressesOf
    <3>2. writer[i] \in {None, c}
      <4> DEFINE rows == [j \in W |-> [written[j] EXCEPT !.isDefault = marks[j]]]
      <4>1. DOMAIN rows = W /\ WriteRows(c, rows)
        BY <1>2
      <4> HIDE DEF rows
      <4> QED  BY <4>1 DEF WriteRows
    <3>3. i \notin Mine(c)
      BY <1>5, <3>1 DEF OnlyRow
    <3>4. written[i] = saved[i]
      BY <3>1, <3>2, <3>3, UnlockedIsSaved
    <3>5. i \in DefaultsOf(saved, u) /\ id \in DefaultsOf(saved, u)
      BY <2>1, <2>2, <3>1, <3>4 DEF AddressesOf, DefaultsOf
    <3> QED  BY <1>5, <1>7, <3>1, <3>5 DEF UsersInv, Rules
  <2>3. \A i, j \in W : marks[i] /\ marks[j] => i = j
    <3> HIDE DEF W
    <3> QED  BY <1>3, <1>4, <2>2
  <2>4. W # {} => \E i \in W : marks[i]
    <3> SUFFICES ASSUME NEW w \in W PROVE \E i \in W : marks[i]
      OBVIOUS
    <3>1. W \subseteq Nat
      BY <1>3
    <3>2. \E i \in W : \A j \in W : i <= j
      BY <3>1, LeastOf
    <3> HIDE DEF W
    <3> QED  BY <1>4, <3>2
  <2>5. Ruled(written', u)
    <3> HIDE DEF W
    <3> QED  BY <1>6, <2>3, <2>4 DEF Ruled
  <2> QED  BY <1>6, <2>5 DEF Outcome
<1>8. Stage(c)'
  BY <1>1, <1>5, <1>6, <1>7 DEF Stage, StatementsOf
<1> QED  BY <1>1, <1>6, <1>8, StatementStep

\* The end of a transaction: its rows are as committed, and free.
LEMMA Ending ==
  ASSUME UsersInv, NEW c \in AddressCalls, asking[c] # "idle", Unlocked(c), Ended(c),
         nextId' = nextId, raced' = raced,
         \A i \in Mine(c) : written'[i] = saved'[i] /\ saved'[i] \in {written[i], saved[i]},
         \A i \in AddressIds \ Mine(c) : written'[i] = written[i] /\ saved'[i] = saved[i],
         DOMAIN written' = AddressIds, DOMAIN saved' = AddressIds,
         written' = [i \in AddressIds |-> written'[i]], saved' = [i \in AddressIds |-> saved'[i]]
  PROVE  UserTypes' /\ Locks' /\ Frame(c) /\ asking'[c] = "idle"
<1> USE UsersConstants DEF UsersInv
<1>1. /\ asking' = [asking EXCEPT ![c] = "idle"] /\ asked' = [asked EXCEPT ![c] = None]
      /\ sawDefault' = [sawDefault EXCEPT ![c] = FALSE]
  BY DEF Ended, Proceed
<1>2. /\ asking'[c] = "idle"
      /\ \A d \in AddressCalls \ {c} :
           asking'[d] = asking[d] /\ asked'[d] = asked[d] /\ sawDefault'[d] = sawDefault[d]
  BY <1>1 DEF UserTypes
<1>3. /\ \A i \in AddressIds : writer'[i] = (IF writer[i] = c THEN None ELSE writer[i])
      /\ DOMAIN ranged' = Owners
      /\ \A v \in Owners : ranged[v] # c => ranged'[v] = ranged[v]
      /\ writer' \in [AddressIds -> AddressCalls \cup {None}]
  BY DEF Unlocked, UserTypes
<1>4. UserTypes'
  <2>1. \A i \in AddressIds : saved'[i] \in Address \cup {None} /\ written'[i] \in Address \cup {None}
    <3> SUFFICES ASSUME NEW i \in AddressIds
                 PROVE  saved'[i] \in Address \cup {None} /\ written'[i] \in Address \cup {None}
      OBVIOUS
    <3>1. CASE i \in Mine(c)
      BY <3>1 DEF UserTypes
    <3>2. CASE i \notin Mine(c)
      BY <3>2 DEF UserTypes
    <3> QED  BY <3>1, <3>2
  <2>2. saved' \in [AddressIds -> Address \cup {None}] /\ written' \in [AddressIds -> Address \cup {None}]
    BY <2>1
  <2>3. /\ asking' \in [AddressCalls -> Statements \cup {"idle"}]
        /\ sawDefault' \in [AddressCalls -> BOOLEAN] /\ DOMAIN asked' = AddressCalls
    BY <1>1 DEF UserTypes
  <2>4. \A d \in AddressCalls : asking'[d] # "idle" => asked'[d] \in AddressRequests
    BY <1>2 DEF UserTypes
  <2> QED  BY <1>3, <2>2, <2>3, <2>4 DEF UserTypes
<1>5. \A i \in AddressIds : i \in Mine(c) <=> writer[i] = c
  BY DEF Mine
<1>6. Locks'
  <2> SUFFICES ASSUME NEW i \in AddressIds
               PROVE  /\ writer'[i] = None => written'[i] = saved'[i]
                      /\ writer'[i] # None =>
                           /\ asking'[writer'[i]] # "idle"
                           /\ written'[i] # None => written'[i].owner = asked'[writer'[i]].user
                           /\ saved'[i] # None => saved'[i].owner = asked'[writer'[i]].user
                      /\ i >= nextId' => written'[i] = None /\ saved'[i] = None /\ writer'[i] = None
    BY DEF Locks, User
  <2>1. CASE i \in Mine(c)
    <3>1. ~(i >= nextId)
      BY <1>5, <2>1 DEF Locks
    <3> QED  BY <1>3, <1>5, <2>1, <3>1
  <2>2. CASE i \notin Mine(c)
    <3>1. writer'[i] = writer[i] /\ written'[i] = written[i] /\ saved'[i] = saved[i] /\ writer[i] # c
      BY <1>3, <1>5, <2>2
    <3>2. writer[i] # None =>
            /\ writer[i] \in AddressCalls \ {c}
            /\ asking[writer[i]] # "idle" /\ asked[writer[i]].user = User(writer[i])
      BY <3>1 DEF Locks, UserTypes, User
    <3>3. writer[i] # None =>
            asking'[writer[i]] # "idle" /\ asked'[writer[i]].user = User(writer[i])
      BY <1>2, <3>2
    <3> QED  BY <3>1, <3>3 DEF Locks
  <2> QED  BY <2>1, <2>2
<1>7. Frame(c)
  <2>1. ASSUME NEW i \in AddressIds
        PROVE  /\ writer[i] \notin {None, c} =>
                    writer'[i] = writer[i] /\ written'[i] = written[i] /\ saved'[i] = saved[i]
               /\ writer'[i] \in {writer[i], c, None}
               /\ written'[i] # written[i] \/ saved'[i] # saved[i] =>
                    \A table \in {written, written', saved, saved'} :
                      table[i] # None => table[i].owner = User(c)
               /\ i < nextId /\ written[i] = None /\ saved[i] = None => written'[i] = None /\ saved'[i] = None
    <3>1. CASE i \in Mine(c)
      <4>1. /\ written[i] # None => written[i].owner = User(c)
            /\ saved[i] # None => saved[i].owner = User(c)
        BY <1>5, <3>1 DEF Locks
      <4> QED  BY <1>3, <1>5, <3>1, <4>1
    <3>2. CASE i \notin Mine(c)
      BY <1>3, <1>5, <3>2
    <3> QED  BY <3>1, <3>2
  <2>2. AddressesOf(saved', User(c)) \cup AddressesOf(written', User(c)) \subseteq RowsOf(User(c))
    <3>1. ASSUME NEW i \in AddressIds
          PROVE  saved'[i] \in {written[i], saved[i]} /\ written'[i] \in {written[i], saved[i]}
      <4>1. CASE i \in Mine(c)
        BY <4>1
      <4>2. CASE i \notin Mine(c)
        BY <4>2
      <4> QED  BY <4>1, <4>2
    <3> QED  BY <3>1 DEF RowsOf, AddressesOf
  <2> QED  BY <1>2, <1>3, <2>1, <2>2 DEF Frame, UserTypes
<1> QED  BY <1>2, <1>4, <1>6, <1>7

LEMMA RollBackKeeps ==
  ASSUME UsersInv, NEW c \in AddressCalls, RollBack(c) PROVE UsersInv'
<1>1. /\ asking[c] # "idle" /\ Unlocked(c) /\ Ended(c)
      /\ saved' = saved /\ nextId' = nextId /\ raced' = raced /\ demoted' = demoted
      /\ written' = [i \in AddressIds |-> IF i \in Mine(c) THEN saved[i] ELSE written[i]]
  BY DEF RollBack
<1>2. /\ DOMAIN written' = AddressIds /\ DOMAIN saved' = AddressIds
      /\ written' = [i \in AddressIds |-> written'[i]] /\ saved' = [i \in AddressIds |-> saved'[i]]
      /\ \A i \in AddressIds : written'[i] = (IF i \in Mine(c) THEN saved[i] ELSE written[i])
  BY <1>1 DEF UsersInv, UserTypes
<1>3. Mine(c) \subseteq AddressIds
  BY DEF Mine
<1>4. UserTypes' /\ Locks' /\ Frame(c) /\ asking'[c] = "idle"
  BY <1>1, <1>2, <1>3, Ending
<1> QED  BY <1>1, <1>4, StatementStep

LEMMA CommitAddressesKeeps ==
  ASSUME UsersInv, NEW c \in AddressCalls, CommitAddresses(c) PROVE UsersInv'
<1> DEFINE u == User(c)
           id == asked[c].id
<1>1. /\ asking[c] = "commit" /\ Unlocked(c) /\ Ended(c)
      /\ written' = written /\ nextId' = nextId /\ raced' = raced
      /\ saved' = [i \in AddressIds |-> IF i \in Mine(c) THEN written[i] ELSE saved[i]]
      /\ demoted' = IF DefaultsOf(saved', u) # {} THEN demoted \ {u}
                    ELSE IF asked[c].op = "update" THEN demoted \cup {u}
                    ELSE demoted
  BY DEF CommitAddresses
<1>2. /\ DOMAIN written' = AddressIds /\ DOMAIN saved' = AddressIds
      /\ written' = [i \in AddressIds |-> written'[i]] /\ saved' = [i \in AddressIds |-> saved'[i]]
      /\ \A i \in AddressIds : saved'[i] = (IF i \in Mine(c) THEN written[i] ELSE saved[i])
  BY <1>1 DEF UsersInv, UserTypes
<1>3. Mine(c) \subseteq AddressIds
  BY DEF Mine
<1>4. UserTypes' /\ Locks' /\ Frame(c) /\ asking'[c] = "idle"
  BY <1>1, <1>2, <1>3, Ending
<1>5. Stage(c) /\ u \in Owners /\ asked[c].op \in {"create", "update", "delete"}
  BY <1>1, OfCall DEF AddressRequests
<1>6. \A i \in Mine(c) : /\ written[i] # None => written[i].owner = u
                         /\ saved[i] # None => saved[i].owner = u
  BY UsersConstants DEF UsersInv, Locks, Mine
<1>7. \A i \in AddressIds :
        i \in AddressesOf(saved', u) <=>
          IF i \in Mine(c) THEN written[i] # None ELSE i \in AddressesOf(saved, u)
  BY <1>2, <1>6 DEF AddressesOf
<1>8. Adds(c)
  <2> SUFFICES ASSUME NEW d \in AddressCalls \ {c}, asking[d] # "idle", User(d) = u, u \notin raced
               PROVE  /\ AddressesOf(saved, u) \subseteq AddressesOf(saved', u)
                      /\ asked[d].op = "create" /\ AddressesOf(saved, u) = {} => AddressesOf(saved', u) = {}
    BY DEF Adds
  <2>1. /\ asked[c].op # "delete"
        /\ asked[d].op = "create" /\ asked[c].op = "create" => AddressesOf(saved, u) # {}
    BY <1>1 DEF UsersInv, Apart
  <2>2. \A i \in Mine(c) : written[i] # None
    BY <1>5, <2>1 DEF Stage
  <2>3. \A i \in AddressesOf(saved, u) : i \in AddressIds
    BY DEF AddressesOf
  <2>4. AddressesOf(saved, u) \subseteq AddressesOf(saved', u)
    BY <1>7, <2>2, <2>3
  <2>5. ASSUME asked[d].op = "create", AddressesOf(saved, u) = {} PROVE AddressesOf(saved', u) = {}
    <3>1. asked[c].op = "update"
      BY <1>5, <2>1, <2>5
    <3>2. \A i \in Mine(c) : saved[i] # None
      BY <1>5, <3>1 DEF Stage
    <3>3. \A i \in Mine(c) : i \in AddressesOf(saved, u)
      BY <1>3, <1>6, <3>2 DEF AddressesOf
    <3>4. \A i \in AddressesOf(saved', u) : i \in AddressIds
      BY DEF AddressesOf
    <3> QED  BY <1>7, <2>5, <3>3, <3>4
  <2> QED  BY <2>4, <2>5
<1>9. ASSUME NEW v \in Owners \ raced
      PROVE  /\ \A i, j \in DefaultsOf(saved', v) : i = j
             /\ AddressesOf(saved', v) # {} /\ v \notin demoted' => DefaultsOf(saved', v) # {}
  <2>1. CASE v # u
    <3>1. AddressesOf(saved', v) = AddressesOf(saved, v) /\ DefaultsOf(saved', v) = DefaultsOf(saved, v)
      BY <1>4, <2>1, OtherRows DEF UsersInv
    <3>2. v \notin demoted' => v \notin demoted
      BY <1>1, <2>1
    <3> QED  BY <3>1, <3>2 DEF UsersInv, Rules
  <2>2. CASE v = u
    <3>1. Outcome(c)
      BY <1>1, <1>5, <2>2 DEF Stage
    <3>2. /\ \A i, j \in DefaultsOf(saved, u) : i = j
          /\ AddressesOf(saved, u) # {} /\ u \notin demoted => DefaultsOf(saved, u) # {}
      BY <2>2 DEF UsersInv, Rules
    <3>3. \A table : AddressesOf(table, u) \subseteq AddressIds
      BY DEF AddressesOf
    <3>4. CASE AllMine(c) /\ Ruled(written, u)
      <4>1. ASSUME NEW i \in AddressIds PROVE i \in AddressesOf(saved', u) <=> i \in AddressesOf(written, u)
        BY <1>6, <1>7, <3>4 DEF AllMine, RowsOf, AddressesOf
      <4>2. AddressesOf(saved', u) = AddressesOf(written, u)
        BY <3>3, <4>1
      <4>3. \A i \in AddressesOf(written, u) : saved'[i] = written[i]
        BY <1>2, <3>3, <3>4 DEF AllMine, RowsOf
      <4>4. DefaultsOf(saved', u) = DefaultsOf(written, u)
        BY <4>2, <4>3 DEF DefaultsOf
      <4> QED  BY <2>2, <3>4, <4>2, <4>4 DEF Ruled
    <3>5. CASE /\ asked[c].op = "create" /\ OnlyRow(c)
               /\ id \in AddressesOf(written, u) /\ saved[id] = None
               /\ written[id].isDefault <=> AddressesOf(saved, u) = {}
      <4>1. /\ AddressesOf(saved', u) = AddressesOf(saved, u) \cup {id}
            /\ id \notin AddressesOf(saved, u) /\ id \in AddressIds
        BY <1>7, <3>3, <3>5 DEF OnlyRow, AddressesOf
      <4>2. /\ saved'[id] = written[id]
            /\ \A i \in AddressesOf(saved, u) : saved'[i] = saved[i]
        BY <1>2, <3>3, <3>5, <4>1 DEF OnlyRow
      <4>3. DefaultsOf(saved', u) = DefaultsOf(saved, u) \cup {i \in {id} : written[i].isDefault}
        BY <4>1, <4>2 DEF DefaultsOf
      <4>4. AddressesOf(saved, u) = {} => DefaultsOf(saved, u) = {}
        BY DEF DefaultsOf
      <4>5. u \notin demoted' /\ AddressesOf(saved, u) # {} => DefaultsOf(saved', u) # {}
        BY <1>1, <3>2, <3>5, <4>3
      <4> QED  BY <2>2, <3>2, <3>5, <4>3, <4>4, <4>5
    <3>6. CASE /\ asked[c].op = "update" /\ OnlyRow(c)
               /\ id \in AddressesOf(saved, u) \cap AddressesOf(written, u)
               /\ ~written[id].isDefault
      <4>1. /\ saved'[id] = written[id]
            /\ \A i \in AddressIds \ {id} : saved'[i] = saved[i]
        BY <1>2, <3>3, <3>6 DEF OnlyRow
      <4>2. DefaultsOf(saved', u) \subseteq DefaultsOf(saved, u)
        BY <3>6, <4>1 DEF DefaultsOf, AddressesOf
      <4> QED  BY <1>1, <2>2, <3>2, <3>6, <4>2
    <3>7. CASE /\ asked[c].op = "delete" /\ OnlyRow(c)
               /\ id \in AddressesOf(saved, u) /\ written[id] = None
               /\ ~saved[id].isDefault
      <4>1. /\ saved'[id] = None
            /\ \A i \in AddressIds \ {id} : saved'[i] = saved[i]
        BY <1>2, <3>3, <3>7 DEF OnlyRow
      <4>2. DefaultsOf(saved', u) = DefaultsOf(saved, u)
        BY <3>7, <4>1 DEF DefaultsOf, AddressesOf
      <4> QED  BY <1>1, <2>2, <3>2, <3>7, <4>2
    <3> QED  BY <3>1, <3>4, <3>5, <3>6, <3>7 DEF Outcome
  <2> QED  BY <2>1, <2>2
<1>10. Rules'
  BY <1>1, <1>9 DEF Rules
<1> QED  BY <1>1, <1>4, <1>8, <1>10, CallStep

LEMMA BeginAddressCallKeeps ==
  ASSUME UsersInv, NEW c \in AddressCalls, NEW r \in AddressRequests, BeginAddressCall(c, r) PROVE UsersInv'
<1> USE UsersConstants DEF UsersInv
<1>1. /\ asking[c] = "idle"
      /\ asked' = [asked EXCEPT ![c] = r]
      /\ asking' = [asking EXCEPT ![c] = FirstStatement[r.op]]
      /\ saved' = saved /\ written' = written /\ writer' = writer /\ ranged' = ranged
      /\ nextId' = nextId /\ sawDefault' = sawDefault /\ demoted' = demoted
      /\ raced' = IF \E d \in AddressCalls \ {c} :
                       asking[d] # "idle" /\ User(d) = r.user /\ MayRace(asked[d], r)
                  THEN raced \cup {r.user} ELSE raced
  BY DEF BeginAddressCall, Proceed, addressRows
<1>2. /\ r.op \in {"create", "update", "delete"} /\ r.user \in Owners
      /\ FirstStatement[r.op] \in Statements
      /\ FirstStatement[r.op] \in StatementsOf[r.op] \cap {"insert", "update", "read"}
  BY DEF AddressRequests, FirstStatement, StatementsOf, Statements
<1>3. /\ asked'[c] = r /\ asking'[c] = FirstStatement[r.op] /\ User(c)' = r.user
      /\ \A d \in AddressCalls \ {c} : asked'[d] = asked[d] /\ asking'[d] = asking[d]
  BY <1>1 DEF UserTypes, User
<1>4. raced \subseteq raced' /\ raced' \subseteq Owners
  BY <1>1, <1>2 DEF UserTypes
<1>5. UserTypes'
  <2>1. asking' \in [AddressCalls -> Statements \cup {"idle"}] /\ DOMAIN asked' = AddressCalls
    BY <1>1, <1>2 DEF UserTypes
  <2>2. \A d \in AddressCalls : asking'[d] # "idle" => asked'[d] \in AddressRequests
    BY <1>3 DEF UserTypes
  <2> QED  BY <1>1, <1>4, <2>1, <2>2 DEF UserTypes
<1>6. \A i \in AddressIds : writer[i] # c
  BY <1>1 DEF Locks
<1>7. Locks'
  <2> SUFFICES ASSUME NEW i \in AddressIds, writer[i] # None
               PROVE  /\ asking'[writer[i]] # "idle"
                      /\ written[i] # None => written[i].owner = asked'[writer[i]].user
                      /\ saved[i] # None => saved[i].owner = asked'[writer[i]].user
    BY <1>1 DEF Locks, User
  <2>1. writer[i] \in AddressCalls \ {c}
    BY <1>6 DEF UserTypes
  <2>2. asked'[writer[i]] = asked[writer[i]] /\ asking'[writer[i]] = asking[writer[i]]
    BY <1>3, <2>1
  <2> QED  BY <2>2 DEF Locks, User
<1>8. Stages'
  <2> SUFFICES ASSUME NEW d \in AddressCalls, asking'[d] # "idle" PROVE Stage(d)'
    BY DEF Stages
  <2>1. CASE d = c
    <3>1. Mine(c)' = {}
      BY <1>1, <1>6 DEF Mine
    <3> QED  BY <1>2, <1>3, <2>1, <3>1 DEF Stage
  <2>2. CASE d # c
    <3>1. asked'[d] = asked[d] /\ asking'[d] = asking[d] /\ Mine(d)' = Mine(d) /\ User(d)' = User(d)
      BY <1>1, <1>3, <2>2 DEF Mine, User
    <3>2. Stage(d)
      BY <2>2, <3>1 DEF Stages
    <3>3. /\ NewRow(d)' <=> NewRow(d)
          /\ OnlyRow(d)' <=> OnlyRow(d)
          /\ Known(d)' <=> Known(d)
          /\ AllMine(d)' <=> AllMine(d)
      BY <1>1, <3>1 DEF NewRow, OnlyRow, Known, AllMine, RowsOf
    <3>4. Outcome(d)' <=> Outcome(d)
      BY <1>1, <3>1, <3>3 DEF Outcome
    <3> QED  BY <1>1, <1>4, <3>1, <3>2, <3>3, <3>4 DEF Stage
  <2> QED  BY <2>1, <2>2
<1>9. Apart'
  <2> SUFFICES ASSUME NEW d \in AddressCalls, NEW e \in AddressCalls,
                      d # e, asking'[d] # "idle", asking'[e] # "idle",
                      asked'[d].user = asked'[e].user, asked'[d].user \notin raced'
               PROVE  /\ asked'[d].op # "delete"
                      /\ asked'[d].op = "create" /\ asked'[e].op = "create"
                           => AddressesOf(saved, asked'[d].user) # {}
    BY <1>1 DEF Apart, User
  <2>1. ASSUME NEW f \in AddressCalls \ {c}, asking[f] # "idle", User(f) = r.user, r.user \notin raced'
        PROVE  ~MayRace(asked[f], r)
    BY <1>1, <2>1
  <2>2. CASE d = c
    <3>1. ~MayRace(asked[e], r)
      BY <1>3, <2>1, <2>2 DEF User
    <3> QED  BY <1>1, <1>3, <2>2, <3>1 DEF MayRace, User
  <2>3. CASE e = c
    <3>1. ~MayRace(asked[d], r) /\ asked'[d] = asked[d] /\ asked[d].user = r.user
      BY <1>3, <2>1, <2>3 DEF User
    <3> QED  BY <1>3, <2>3, <3>1 DEF MayRace
  <2>4. CASE d # c /\ e # c
    <3>1. asked'[d] = asked[d] /\ asked'[e] = asked[e] /\ asking'[d] = asking[d] /\ asking'[e] = asking[e]
      BY <1>3, <2>4
    <3> QED  BY <1>4, <3>1 DEF Apart, User
  <2> QED  BY <2>2, <2>3, <2>4
<1>10. Rules'
  BY <1>1, <1>4 DEF Rules
<1> QED  BY <1>5, <1>7, <1>8, <1>9, <1>10

LEMMA ProfilesKeep ==
  ASSUME UsersInv, UNCHANGED <<addressRows, addressCalls, raced, demoted>> PROVE UsersInv'
<1> USE DEF UsersInv, addressRows, addressCalls
<1>1. UserTypes' /\ Rules'
  BY DEF UserTypes, Rules
<1>2. Locks' /\ Apart'
  BY DEF Locks, Apart, User
<1>3. ASSUME NEW c \in AddressCalls, asking[c] # "idle" PROVE Stage(c)'
  <2>1. Mine(c)' = Mine(c) /\ User(c)' = User(c)
    BY DEF Mine, User
  <2>2. /\ NewRow(c)' <=> NewRow(c)
        /\ OnlyRow(c)' <=> OnlyRow(c)
        /\ Known(c)' <=> Known(c)
        /\ AllMine(c)' <=> AllMine(c)
    BY <2>1 DEF NewRow, OnlyRow, Known, AllMine, RowsOf
  <2>3. Outcome(c)' <=> Outcome(c)
    BY <2>1, <2>2 DEF Outcome
  <2> QED  BY <1>3, <2>1, <2>2, <2>3 DEF Stages, Stage
<1> QED  BY <1>1, <1>2, <1>3 DEF Stages

\* However many addresses, and calls of address.go at any statement of their transactions:
\* rows that nobody writes are as committed, who is about to commit has either locked every
\* address of the user or has written a single row that leaves the default alone, and the
\* other calls of the user, as long as they do not race, do not change that.
THEOREM UsersInvariant == UsersSpec => []UsersInv
<1>1. UsersInv /\ [UsersNext]_userVars => UsersInv'
  <2> SUFFICES ASSUME UsersInv, [UsersNext]_userVars PROVE UsersInv'
    OBVIOUS
  <2>1. ASSUME NEW u \in Owners, CreateUserWithProfile(u) \/ UpdateProfile(u) PROVE UsersInv'
    BY <2>1, ProfilesKeep DEF CreateUserWithProfile, UpdateProfile
  <2>2. ASSUME NEW c \in AddressCalls, AddressStep(c) PROVE UsersInv'
    BY <2>2, BeginAddressCallKeeps, InsertAddressKeeps, CountAddressesKeeps, ClearDefaultKeeps,
       SetDefaultKeeps, UpdateAddressKeeps, ClearOthersKeeps, ReadAddressKeeps,
       DeleteOwnAddressKeeps, PromoteLowestKeeps, CommitAddressesKeeps, RollBackKeeps
       DEF AddressStep
  <2>3. CASE UNCHANGED userVars
    BY <2>3, ProfilesKeep DEF userVars
  <2> QED  BY <2>1, <2>2, <2>3 DEF UsersNext
<1> QED  BY <1>1, UsersInvInit, PTL DEF UsersSpec

\* CreateAddress, UpdateAddress and DeleteAddress leave a user with exactly one default
\* address as soon as there is one, unless the user took the mark away, however many of
\* them overlap: the row locks and the lock on the user's range are enough where no
\* deletion and no two first addresses race.
THEOREM DefaultsAreKept == UsersSpec => []DefaultsFollowTheRules
<1>1. UsersInv => DefaultsFollowTheRules
  <2> SUFFICES ASSUME UsersInv, NEW u \in Owners \ raced
               PROVE  /\ Cardinality(DefaultsOf(saved, u)) <= 1
                      /\ AddressesOf(saved, u) # {} /\ u \notin demoted => DefaultsOf(saved, u) # {}
    BY DEF DefaultsFollowTheRules
  <2> DEFINE D == DefaultsOf(saved, u)
  <2>1. /\ \A i, j \in D : i = j
        /\ AddressesOf(saved, u) # {} /\ u \notin demoted => D # {}
    BY DEF UsersInv, Rules
  <2> HIDE DEF D
  <2>2. CASE D = {}
    BY <2>1, <2>2, FS_EmptySet DEF D
  <2>3. CASE D # {}
    <3>1. PICK i : D = {i}
      BY <2>1, <2>3
    <3>2. Cardinality(D) = 1
      BY <3>1, FS_Singleton
    <3> QED  BY <2>1, <3>2 DEF D
  <2> QED  BY <2>2, <2>3
<1> QED  BY <1>1, UsersInvariant, PTL

================================================================================
