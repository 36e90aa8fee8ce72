----------------------------- MODULE BatchStore -----------------------------
(***************************************************************************)
(* The batch store of one validator: the in-memory cache of batches with   *)
(* its quotas and expirations, the batches on disk, the tasks that persist *)
(* batches (received from their author, or fetched from peers), and the    *)
(* readers that wait for the batches of a block (BatchReaderImpl with the  *)
(* batch requester, and the status of a payload).                          *)
(*                                                                         *)
(* Persisting tasks, readers and the task that reports committed blocks    *)
(* run in parallel.  Each of their steps is a critical section of the code *)
(* (an entry lock of a DashMap, the lock of the expirations, a write to    *)
(* disk).  The digest of a batch covers its author and transactions only,  *)
(* so the same digest may come with several expirations.  Every batch has  *)
(* one byte.  A cached batch is a set of at most one element.              *)
(***************************************************************************)
EXTENDS Integers, FiniteSets, FiniteSetsExt, Functions

CONSTANTS
  Digest, Peer,     \* digests and authors
  Author,           \* Digest -> Peer
  Expiration,       \* expirations a batch may come with
  MemoryQuota, DbQuota, BatchQuota,  \* per author
  Task, Reader,     \* parallel persisting tasks and readers
  Racing,           \* whether two tasks may persist one digest at a time
  MaxTime, MaxRetries, MaxCrashes    \* bounds

VARIABLES
  cache,      \* db_cache: Digest -> {} or {[exp, in_memory]}
  quota,      \* peer_quota: Peer -> [memory, db, batch] left
  heap,       \* expirations: {<<exp, digest>>}
  certified,  \* last_certified_time
  clearing,   \* digests clear_expired_payload has still to visit
  db,         \* durable: digests on disk
  subs,       \* persist_subscribers: Digest -> set of readers
  task,       \* Task -> [pc, digest, exp]
  reader,     \* Reader -> [pc, digest, retries, got]
  signed,     \* digests whose signature this node has sent
  panicked,
  crashes
vars == <<cache, quota, heap, certified, clearing, db, subs, task, reader, signed,
          panicked, crashes>>

IdleTask == [pc |-> "idle"]
NewQuota == [memory |-> MemoryQuota, db |-> DbQuota, batch |-> BatchQuota]

-----------------------------------------------------------------------------
(* Quotas *)

HasQuota(q) == q.batch > 0 /\ q.db > 0
InMemory(q) == q.memory > 0

update_quota(q) ==
  [memory |-> IF InMemory(q) THEN q.memory - 1 ELSE q.memory,
   db |-> q.db - 1, batch |-> q.batch - 1]

free_quota_KeepMemory(q, v) == [q EXCEPT !.db = @ + 1, !.batch = @ + 1]

free_quota(q, v) ==
  [memory |-> IF v.in_memory THEN q.memory + 1 ELSE q.memory,
   db |-> q.db + 1, batch |-> q.batch + 1]

-----------------------------------------------------------------------------
(* Persisting a batch *)

\* A batch arrives: from its author (batch coordinator, or this node's own batch
\* generator), to be persisted and signed.
Persist(t) ==
  /\ task[t].pc = "idle"
  /\ \E d \in Digest, e \in Expiration :
       /\ Racing \/ \A u \in Task : task[u].pc # "idle" => task[u].digest # d
       /\ task' = [task EXCEPT ![t] = [pc |-> "save", digest |-> d, exp |-> e]]
  /\ UNCHANGED <<cache, quota, heap, certified, clearing, db, subs, reader, signed,
                 panicked, crashes>>

\* save_fetched_batch_to_db, then persist: the batch a reader fetched.
SaveFetched(t) ==
  /\ task[t].pc = "fetched"
  /\ db' = db \union {task[t].digest}
  /\ task' = [task EXCEPT ![t].pc = "save"]
  /\ UNCHANGED <<cache, quota, heap, certified, clearing, subs, reader, signed,
                 panicked, crashes>>

\* save: the expiration is compared with the certified time before the entry is
\* locked; a batch that is too old is refused.
Save(t) ==
  /\ task[t].pc = "save"
  /\ task' = [task EXCEPT ![t] = IF @.exp > certified THEN [@ EXCEPT !.pc = "insert"]
                                 ELSE IdleTask]
  /\ UNCHANGED <<cache, quota, heap, certified, clearing, db, subs, reader, signed,
                 panicked, crashes>>

\* insert_to_cache under the lock of the entry.  A cached batch that lives at
\* least as long stays and needs no write to disk; a new one needs quota, and
\* replaces (and frees) one that expires earlier.
InsertToCache(t) ==
  LET d == task[t].digest
      a == Author[d]
      stays == \E v \in cache[d] : v.exp >= task[t].exp
      used == update_quota(quota[a])
      Free(v, q) == free_quota(q, v)
  IN /\ task[t].pc = "insert"
     /\ \/ /\ stays
           /\ task' = [task EXCEPT ![t].pc = "sign"]
           /\ UNCHANGED <<cache, quota>>
        \/ /\ ~stays /\ ~HasQuota(quota[a])
           /\ task' = [task EXCEPT ![t] = IdleTask]
           /\ UNCHANGED <<cache, quota>>
        \/ /\ ~stays /\ HasQuota(quota[a])
           /\ cache' = [cache EXCEPT ![d] = {[exp |-> task[t].exp, in_memory |-> InMemory(quota[a])]}]
           /\ quota' = [quota EXCEPT ![a] = FoldSet(Free, used, cache[d])]
           /\ task' = [task EXCEPT ![t].pc = "expiration"]
     /\ UNCHANGED <<heap, certified, clearing, db, subs, reader, signed, panicked, crashes>>

\* "Add expiration for the inserted entry, no need to be atomic w. insertion."
AddExpiration(t) ==
  /\ task[t].pc = "expiration"
  /\ heap' = heap \union {<<task[t].exp, task[t].digest>>}
  /\ task' = [task EXCEPT ![t].pc = "write"]
  /\ UNCHANGED <<cache, quota, certified, clearing, db, subs, reader, signed, panicked, crashes>>

SaveBatch_AfterSigning(t) ==
  /\ task[t].pc = "write"
  /\ signed' = signed \union {task[t].digest}
  /\ \/ db' = db \union {task[t].digest} /\ task' = [task EXCEPT ![t].pc = "sign"]
     \/ UNCHANGED <<db, task>>
  /\ UNCHANGED <<cache, quota, heap, certified, clearing, subs, reader, panicked, crashes>>

SaveBatch(t) ==
  /\ task[t].pc = "write"
  /\ db' = db \union {task[t].digest}
  /\ task' = [task EXCEPT ![t].pc = "sign"]
  /\ UNCHANGED <<cache, quota, heap, certified, clearing, subs, reader, signed, panicked, crashes>>

\* notify_subscribers: a reader that no longer waits has dropped its channel.
Notified(R) ==
  [r \in Reader |-> IF r \in R /\ reader[r].pc \in {"recheck", "waiting"}
                   THEN [reader[r] EXCEPT !.got = TRUE] ELSE reader[r]]

\* The batch is signed, its subscribers get it and the signature leaves.
SignAndNotify(t) ==
  LET d == task[t].digest
  IN /\ task[t].pc = "sign"
     /\ signed' = signed \union {d}
     /\ reader' = Notified(subs[d])
     /\ subs' = [subs EXCEPT ![d] = {}]
     /\ task' = [task EXCEPT ![t] = IdleTask]
     /\ UNCHANGED <<cache, quota, heap, certified, clearing, db, panicked, crashes>>

-----------------------------------------------------------------------------
(* Expiration *)

\* update_certified_timestamp with the time of a committed block, then the
\* expired digests one entry at a time.
UpdateCertifiedTimestamp ==
  /\ clearing = {}
  /\ \E time \in certified + 1 .. MaxTime :
       /\ certified' = time
       /\ clearing' = {h[2] : h \in {h \in heap : h[1] <= time}}
       /\ heap' = {h \in heap : h[1] > time}
  /\ UNCHANGED <<cache, quota, db, subs, task, reader, signed, panicked, crashes>>

\* One digest of clear_expired_payload.  The entry may have been extended since;
\* a vacant one is `unreachable!`.
ClearExpired ==
  \E d \in clearing :
    LET gone == {v \in cache[d] : v.exp <= certified}
        Free(v, q) == free_quota(q, v)
    IN /\ clearing' = clearing \ {d}
       /\ panicked' = (panicked \/ cache[d] = {})
       /\ cache' = [cache EXCEPT ![d] = @ \ gone]
       /\ quota' = [quota EXCEPT ![Author[d]] = FoldSet(Free, @, gone)]
       /\ subs' = IF gone = {} THEN subs ELSE [subs EXCEPT ![d] = {}]
       /\ UNCHANGED <<heap, certified, db, task, reader, signed, crashes>>

-----------------------------------------------------------------------------
(* Readers *)

\* get_batch_from_local
Local(d) == (\E v \in cache[d] : v.in_memory) \/ d \in db

\* get_batch: a batch that is here is served; for another the reader subscribes.
GetBatch(r) ==
  /\ reader[r].pc = "idle"
  /\ \E d \in Digest :
       reader' = [reader EXCEPT ![r] = [pc |-> IF Local(d) THEN "served" ELSE "subscribe",
                                        digest |-> d, retries |-> 0, got |-> FALSE]]
  /\ UNCHANGED <<cache, quota, heap, certified, clearing, db, subs, task, signed,
                 panicked, crashes>>

Subscribe(r) ==
  /\ reader[r].pc = "subscribe"
  /\ subs' = [subs EXCEPT ![reader[r].digest] = @ \union {r}]
  /\ reader' = [reader EXCEPT ![r].pc = "recheck"]
  /\ UNCHANGED <<cache, quota, heap, certified, clearing, db, task, signed, panicked, crashes>>

Recheck_Skipped(r) ==
  /\ reader[r].pc = "recheck"
  /\ reader' = [reader EXCEPT ![r].pc = "waiting"]
  /\ UNCHANGED <<cache, quota, heap, certified, clearing, db, subs, task, signed,
                 panicked, crashes>>

\* "This is to account for the race where this subscribe call happens after the
\* persist call."
Recheck(r) ==
  LET d == reader[r].digest
      here == Local(d)
  IN /\ reader[r].pc = "recheck"
     /\ reader' = [Notified(IF here THEN subs[d] ELSE {}) EXCEPT ![r].pc = "waiting"]
     /\ subs' = IF here THEN [subs EXCEPT ![d] = {}] ELSE subs
     /\ UNCHANGED <<cache, quota, heap, certified, clearing, db, task, signed, panicked, crashes>>

\* request_batch: the subscription delivers the batch,
Delivered(r) ==
  /\ reader[r].pc = "waiting" /\ reader[r].got
  /\ reader' = [reader EXCEPT ![r].pc = "served"]
  /\ UNCHANGED <<cache, quota, heap, certified, clearing, db, subs, task, signed,
                 panicked, crashes>>

\* or a peer answers with the batch, which is then persisted by a
\* task; or says that the chain is past its expiration; or fails and is asked
\* again until the retries end.
Answered(r) ==
  /\ reader[r].pc = "waiting"
  /\ \E t \in Task, e \in Expiration :
       /\ task[t].pc = "idle"
       /\ Racing \/ \A u \in Task : task[u].pc # "idle" => task[u].digest # reader[r].digest
       /\ task' = [task EXCEPT ![t] = [pc |-> "fetched", digest |-> reader[r].digest, exp |-> e]]
  /\ reader' = [reader EXCEPT ![r].pc = "served"]
  /\ UNCHANGED <<cache, quota, heap, certified, clearing, db, subs, signed, panicked, crashes>>

Unanswered(r) ==
  /\ reader[r].pc = "waiting"
  /\ reader' = [reader EXCEPT ![r] = IF @.retries < MaxRetries THEN [@ EXCEPT !.retries = @ + 1]
                                     ELSE [@ EXCEPT !.pc = "failed"]]
  /\ UNCHANGED <<cache, quota, heap, certified, clearing, db, subs, task, signed,
                 panicked, crashes>>

Expired(r) ==
  /\ reader[r].pc = "waiting"
  /\ reader' = [reader EXCEPT ![r].pc = "failed"]
  /\ UNCHANGED <<cache, quota, heap, certified, clearing, db, subs, task, signed,
                 panicked, crashes>>

\* process_payload: a failed batch is requested again and the caller told, who
\* asks for the payload again; a payload that is here stays in its block.
Rerequest(r) ==
  /\ reader[r].pc = "failed"
  /\ reader' = [reader EXCEPT ![r].pc = IF Local(reader[r].digest) THEN "served" ELSE "subscribe",
                              ![r].retries = 0, ![r].got = FALSE]
  /\ UNCHANGED <<cache, quota, heap, certified, clearing, db, subs, task, signed,
                 panicked, crashes>>

-----------------------------------------------------------------------------
\* A restart: the cache is not filled from disk.
Crash ==
  /\ crashes < MaxCrashes
  /\ crashes' = crashes + 1
  /\ cache' = [d \in Digest |-> {}]
  /\ quota' = [p \in Peer |-> NewQuota]
  /\ heap' = {} /\ clearing' = {}
  /\ subs' = [d \in Digest |-> {}]
  /\ task' = [t \in Task |-> IdleTask]
  /\ reader' = [r \in Reader |-> IdleTask]
  /\ UNCHANGED <<certified, db, signed, panicked>>

Init ==
  /\ cache = [d \in Digest |-> {}]
  /\ quota = [p \in Peer |-> NewQuota]
  /\ heap = {} /\ certified = 0 /\ clearing = {} /\ db = {}
  /\ subs = [d \in Digest |-> {}]
  /\ task = [t \in Task |-> IdleTask]
  /\ reader = [r \in Reader |-> IdleTask]
  /\ signed = {} /\ panicked = FALSE /\ crashes = 0

Next ==
  /\ ~panicked
  /\ \/ \E t \in Task : \/ Persist(t) \/ SaveFetched(t) \/ Save(t) \/ InsertToCache(t)
                        \/ AddExpiration(t) \/ SaveBatch(t) \/ SignAndNotify(t)
     \/ \E r \in Reader : \/ GetBatch(r) \/ Subscribe(r) \/ Recheck(r) \/ Delivered(r) \/ Answered(r)
                          \/ Unanswered(r) \/ Expired(r) \/ Rerequest(r)
     \/ UpdateCertifiedTimestamp \/ ClearExpired \/ Crash

Spec == Init /\ [][Next]_vars

-----------------------------------------------------------------------------
(* Properties *)

Cached(p) == {d \in Digest : Author[d] = p /\ cache[d] # {}}

\* What an author has left of each quota is the quota less what the cache holds
\* of that author, through replaced, extended and expired entries: free_quota
\* never fails its assertion, and no author is starved by a leak.  Every cached
\* entry has an expiration (or the task that inserted it is about to add it),
\* so none stays forever.
QuotaExact ==
  /\ \A p \in Peer :
       /\ quota[p].batch = BatchQuota - Cardinality(Cached(p))
       /\ quota[p].db = DbQuota - Cardinality(Cached(p))
       /\ quota[p].memory = MemoryQuota
            - Cardinality({d \in Cached(p) : \E v \in cache[d] : v.in_memory})
  /\ \A d \in Digest : \A v \in cache[d] :
       \/ <<v.exp, d>> \in heap \/ d \in clearing
       \/ \E t \in Task : task[t].pc = "expiration" /\ task[t].digest = d /\ task[t].exp = v.exp

\* A batch this node has signed for is on its disk, whenever the node stops: a
\* proof of store stands for a quorum of validators that can serve the batch.
SignedStored == signed \subseteq db

\* A reader is not left waiting for a batch that is here: persisting and
\* subscribing may cross, but one of the two sees the other.  (A batch that has
\* expired meanwhile loses its subscribers; its readers go on asking peers.)
NoReaderForgotten ==
  \A r \in Reader : reader[r].pc = "waiting" /\ ~reader[r].got
                  /\ r \in subs[reader[r].digest] =>
    LET d == reader[r].digest
    IN Local(d) => \E t \in Task : task[t].pc # "idle" /\ task[t].digest = d

\* "Expired entry not in cache" is unreachable: clear_expired_payload finds every
\* digest it takes from the expirations in the cache.
ExpiredIsCached == ~panicked

=============================================================================
