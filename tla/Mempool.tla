------------------------------ MODULE Mempool ------------------------------
(***************************************************************************)
(* The mempool between reth's transaction pool and consensus.              *)
(*                                                                         *)
(* Packing: best_txns keeps an iterator over the pool's best transactions  *)
(* between pulls, with the last nonce it passed per sender, and            *)
(* get_batch_inner cuts what it yields to the byte budget.                 *)
(*                                                                         *)
(* Broadcasting: the store projects the pool's pending transactions on one *)
(* timeline per sender bucket (one is modelled), from which peers read     *)
(* past their cursor.                                                      *)
(*                                                                         *)
(* A transaction is <<sender, nonce>>.  Reth's pool is external: per       *)
(* sender it offers the pending transactions in nonce order, the senders   *)
(* interleaved in any way.                                                 *)
(***************************************************************************)
EXTENDS Integers, FiniteSets, FiniteSetsExt, Sequences, SequencesExt, Functions

CONSTANTS
  Sender, MaxNonce,
  PayloadBytes, SignedBytes,  \* the two measures of a transaction's size
  MaxTxns, MaxBytes,          \* limits of a pull
  Peer, MaxCount,             \* peers read at most MaxCount at a time
  MaxId                       \* bound of the timeline

VARIABLES
  executed,  \* Sender -> number of executed transactions
  pool,      \* reth's pending transactions
  iter,      \* cached_best: {} or {the transactions still to be yielded}
  last,      \* last_nonces: Sender -> {} or {nonce}
  inflight,  \* excluded: in a batch in progress
  gap,       \* a pull proposed a transaction but not its predecessor
  events,    \* added transactions the pool's listener has not admitted yet
  store,     \* hash_index: transaction -> timeline id
  next_id,   \* timeline_id
  cursor,    \* Peer -> cursor
  sent       \* Peer -> ids sent to the peer
vars == <<executed, pool, iter, last, inflight, gap, events, store, next_id, cursor, sent>>
packing == <<executed, iter, last, inflight, gap>>
broadcast == <<store, next_id, cursor, sent>>

Txn == Sender \X (0 .. MaxNonce)

-----------------------------------------------------------------------------
(* Reth's pool *)

\* add_external_txn, or a transaction from the node's own RPC: pending once its
\* predecessor is.
AddTxn ==
  /\ \E s \in Sender :
       LET n == Cardinality({t \in pool : t[1] = s}) + executed[s]
       IN /\ n <= MaxNonce
          /\ pool' = pool \union {<<s, n>>}
          /\ events' = events \union {<<s, n>>}
  /\ UNCHANGED <<packing, broadcast>>

\* The pool evicts the last transaction of a sender (a limit, a replacement).
Evict ==
  /\ \E t \in pool : /\ <<t[1], t[2] + 1>> \notin pool
                    /\ pool' = pool \ {t}
  /\ UNCHANGED <<packing, events, broadcast>>

\* A block executes the next transaction of a sender; the pool drops it.
Execute ==
  /\ \E t \in inflight :
       /\ t[2] = executed[t[1]]
       /\ executed' = [executed EXCEPT ![t[1]] = @ + 1]
       /\ pool' = pool \ {t}
       /\ inflight' = inflight \ {t}
  /\ UNCHANGED <<iter, last, gap, events, broadcast>>

-----------------------------------------------------------------------------
(* Packing *)

\* The orders in which the pool may yield transactions
Yields(S) ==
  {o \in [1 .. Cardinality(S) -> S] :
     /\ IsInjective(o)
     /\ \A i, j \in 1 .. Cardinality(S) : i < j /\ o[i][1] = o[j][1] => o[i][2] < o[j][2]}

\* One round of the loop of best_txns.  A transaction that does not follow the
\* last one of its sender is skipped; the others move the sender's nonce, also
\* those the filter then drops as in flight.
PullOne(acc, t) ==
  IF Len(acc.result) >= MaxTxns \/ acc.bytes >= MaxBytes THEN acc
  ELSE LET taken == [acc EXCEPT !.left = @ \ {t}]
           anchored == [taken EXCEPT !.last[t[1]] = {t[2]}]
       IN IF \E n \in acc.last[t[1]] : t[2] # n + 1 THEN taken
          ELSE IF t \in inflight THEN anchored
          ELSE [anchored EXCEPT !.result = Append(@, t), !.bytes = @ + PayloadBytes]

\* best_txns: the iterator is replaced once it is too old (`fresh`) or was
\* cleared, and cleared when it yields nothing.
best_txns(fresh, order) ==
  LET start == [left |-> ToSet(order), last |-> IF fresh THEN [s \in Sender |-> {}] ELSE last,
                result |-> <<>>, bytes |-> 0]
  IN FoldLeft(PullOne, start, order)

\* get_batch_inner: the byte budget again, by the size of the signed transaction.
get_batch_inner(txns) ==
  SubSeq(txns, 1, Min({Len(txns), MaxTxns, MaxBytes \div SignedBytes}))

\* A pull of the batch generator.
Pull ==
  /\ \E fresh \in BOOLEAN : \E order \in Yields(IF fresh \/ iter = {} THEN pool ELSE UNION iter) :
       /\ iter = {} => fresh
       /\ LET got == best_txns(fresh, order)
              batch == ToSet(get_batch_inner(got.result))
              cleared == got.result = <<>>
              Before(t) == <<t[1], t[2] - 1>>
          IN /\ iter' = IF cleared THEN {} ELSE {got.left}
             /\ last' = IF cleared THEN [s \in Sender |-> {}] ELSE got.last
             /\ inflight' = inflight \union batch
             /\ gap' = (gap \/ \E t \in batch : /\ t[2] > executed[t[1]]
                                                /\ Before(t) \notin inflight \union batch)
  /\ UNCHANGED <<executed, pool, events, broadcast>>

-----------------------------------------------------------------------------
(* Broadcasting *)

AdmitId_ByLength == Cardinality(DOMAIN store) + 1

\* The id of a newly admitted transaction: never one used before.
AdmitId == next_id

\* admit_into_store: a transaction that is present keeps its id.
Admitted(s, id, t) ==
  IF t \in DOMAIN s THEN s ELSE [x \in DOMAIN s \union {t} |-> IF x = t THEN id ELSE s[x]]

\* AdmitHandle::admit_one, from the listener of the pool: the transaction may
\* have left the pool again.
AdmitOne ==
  /\ next_id < MaxId
  /\ \E t \in events :
       /\ events' = events \ {t}
       /\ store' = Admitted(store, AdmitId, t)
       /\ next_id' = IF t \in DOMAIN store THEN next_id ELSE next_id + 1
  /\ UNCHANGED <<packing, pool, cursor, sent>>

\* reconcile_locked: what left the pool goes, what is new is admitted in the
\* order of the pool.
Reconcile ==
  LET stay == Restrict(store, DOMAIN store \intersect pool)
      new == SetToSeq(pool \ DOMAIN store)
  IN /\ DOMAIN store # pool
     /\ next_id + Len(new) <= MaxId
     /\ store' = [t \in pool |-> IF t \in DOMAIN stay THEN stay[t]
                                 ELSE AdmitId + (CHOOSE i \in 1 .. Len(new) : new[i] = t) - 1]
     /\ next_id' = next_id + Len(new)
     /\ UNCHANGED <<packing, pool, events, cursor, sent>>

\* read_timeline for a peer: the transactions past its cursor in order, at most
\* MaxCount, and for a failover peer only those admitted `before` a time.  The
\* cursor moves to the last one.
ReadTimeline ==
  /\ \E p \in Peer, before \in 1 .. MaxId :
       LET ids == {i \in Range(store) : i > cursor[p] /\ i < before}
           got == {i \in ids : Cardinality({j \in ids : j < i}) < MaxCount}
       IN /\ got # {}
          /\ cursor' = [cursor EXCEPT ![p] = Max(got)]
          /\ sent' = [sent EXCEPT ![p] = @ \union got]
  /\ UNCHANGED <<packing, pool, events, store, next_id>>

\* timeline_range: what a message carried, when it is sent again.
timeline_range(start, end) == {i \in Range(store) : start < i /\ i <= end}

-----------------------------------------------------------------------------
Init ==
  /\ executed = [s \in Sender |-> 0]
  /\ pool = {} /\ iter = {} /\ inflight = {} /\ events = {} /\ gap = FALSE
  /\ last = [s \in Sender |-> {}]
  /\ store = [t \in {} |-> 0] /\ next_id = 1
  /\ cursor = [p \in Peer |-> 0] /\ sent = [p \in Peer |-> {}]

Next == AddTxn \/ Evict \/ Execute \/ Pull \/ AdmitOne \/ Reconcile \/ ReadTimeline

Spec == Init /\ [][Next]_vars

-----------------------------------------------------------------------------
(* Properties *)

\* No transaction that is present is lost to a peer: what lies at or below its
\* cursor was sent to it, however transactions leave the pool, come back and are
\* admitted by the listener and by reconciling; and ids are unique.  So a message
\* sent again holds only what the peer was sent before.
NothingSkipped ==
  /\ IsInjective(store)
  /\ \A p \in Peer : /\ {i \in Range(store) : i <= cursor[p]} \subseteq sent[p]
                     /\ timeline_range(0, cursor[p]) \subseteq sent[p]

\* A pull never proposes the successor nonce of a transaction that is neither
\* executed nor proposed itself.
NoNonceGap == ~gap

=============================================================================
