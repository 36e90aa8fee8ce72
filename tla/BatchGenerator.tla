--------------------------- MODULE BatchGenerator ---------------------------
(***************************************************************************)
(* The producing half of the quorum store of one validator, in one epoch:  *)
(* the batch generator packs pooled transactions into batches, the proof   *)
(* coordinator collects the signatures of the validators that stored a     *)
(* batch into a proof.  ProofManager is the other half; its back pressure, *)
(* the signatures, the batches of peers and the commits of blocks are this *)
(* module's environment and come at any time.                              *)
(*                                                                         *)
(* All transactions have gas price 0, so there is one gas bucket.  A key   *)
(* is <<author, id>>.                                                      *)
(***************************************************************************)
EXTENDS Integers, FiniteSets, FiniteSetsExt, Sequences, SequencesExt, Functions

CONSTANTS
  Me,             \* this validator
  Validators, Quorum,  \* how many there are, how many signatures make a proof
  Txn,            \* transactions of the pool, numbers in the pool's order
  Oversized,      \* those larger than a batch may be
  RemoteBatch,    \* the batches of peers
  MaxBatchTxns, MaxNumBatches, PullMax,  \* sender_max_*, what a pull asks for
  MaxRemoteTxns,  \* receiver_max_batch_txns
  ExpiryGap, RemoteGap, ProofTimeout,    \* lifetimes, in ticks of the clock
  MaxTime, MaxBatches, MaxCrashes        \* bounds: clock, own batches, restarts

VARIABLES
  now,      \* the clock
  db,       \* durable: the batch id saved for the epoch
  gen,      \* BatchGenerator
  coord,    \* ProofCoordinator
  expired,  \* ProofExpiration commands on their way to the generator
  net,      \* per own batch: how many signatures are still to come
  known,    \* the batches sent to the network so far
  lastTs,   \* the timestamp of the last committed block
  crashes
vars == <<now, db, gen, coord, expired, net, known, lastTs, crashes>>

Key(b) == <<b.author, b.id>>
Without(f, k) == Restrict(f, DOMAIN f \ {k})
With(f, k, v) == [x \in DOMAIN f \union {k} |-> IF x = k THEN v ELSE f[x]]
AddTo(f, S, n) == [x \in DOMAIN f |-> IF x \in S THEN f[x] + n ELSE f[x]]

-----------------------------------------------------------------------------
(* The batch generator *)

\* BatchGenerator::new: the saved id may have been used by a batch that was
\* being made when the node stopped.
NewGenerator(id) ==
  [next |-> id, batches |-> [k \in {} |-> 0], count |-> [t \in Txn |-> 0],
   committed |-> {}, heap |-> {}]

insert_batch(g, k, txns, exp) ==
  IF k \in DOMAIN g.batches THEN g
  ELSE [g EXCEPT !.batches = With(@, k, [txns |-> txns, exp |-> exp]),
                 !.count = AddTo(@, txns, 1),
                 !.heap = @ \union {<<exp, k>>}]

remove_batch_in_progress_NoDecrement(g, k) ==
  IF k \in DOMAIN g.batches THEN [g EXCEPT !.batches = Without(@, k)] ELSE g

remove_batch_in_progress(g, k) ==
  IF k \in DOMAIN g.batches
  THEN [g EXCEPT !.batches = Without(@, k), !.count = AddTo(@, g.batches[k].txns, -1)]
  ELSE g

\* push_bucket_to_batches: cut the pulled transactions into batches, in order;
\* an oversized one ends a batch and is dropped, and so is what is left when
\* the batches of a pull run out.
push_bucket_to_batches(txns) ==
  LET Step(acc, t) ==
        IF t \in Oversized THEN [acc EXCEPT !.open = FALSE]
        ELSE IF acc.open /\ Cardinality(Last(acc.out)) < MaxBatchTxns
        THEN [acc EXCEPT !.out[Len(acc.out)] = @ \union {t}]
        ELSE IF Len(acc.out) < MaxNumBatches
        THEN [out |-> Append(acc.out, {t}), open |-> TRUE]
        ELSE acc
  IN FoldLeft(Step, [out |-> <<>>, open |-> FALSE], txns).out

Excluded == {t \in Txn : gen.count[t] > 0} \union gen.committed

\* The ids are saved before the batches leave: create_new_batch.
create_new_batch(id, txns) ==
  [author |-> Me, id |-> id, txns |-> txns, exp |-> now + ExpiryGap]

\* A tick that pulls: handle_scheduled_pull.  Back pressure by proofs delays a
\* pull and back pressure by transactions makes it smaller, so here it may come
\* at any time and be of any size.  The pool answers with any transactions that
\* are not excluded, or nothing on a timeout.  Every validator signs a batch
\* once.  A batch this node's store has no quota for is sent all the same, but
\* init_proof refuses its signatures: none will count.
GeneratorTick ==
  \E S \in SUBSET (Txn \ Excluded) :
    /\ S # {} /\ Cardinality(S) <= PullMax
    /\ LET parts == push_bucket_to_batches(SetToSortSeq(S, <))
           made == [i \in 1 .. Len(parts) |-> create_new_batch(gen.next + i - 1, parts[i])]
           put(g, b) == insert_batch(g, Key(b), b.txns, b.exp)
       IN /\ parts # <<>> /\ Cardinality(DOMAIN net) + Len(parts) <= MaxBatches
          /\ gen' = [FoldLeft(put, gen, made) EXCEPT !.next = @ + Len(parts)]
          /\ db' = gen.next + Len(parts)
          /\ known' = known \union Range(made)
          /\ \E n \in {0, Validators} :
               net' = [k \in DOMAIN net \union {Key(b) : b \in Range(made)} |->
                         IF k \in DOMAIN net THEN net[k] ELSE n]
    /\ UNCHANGED <<now, coord, expired, lastTs, crashes>>

\* Everything of an expired batch in progress goes, unless it came again with
\* a later expiration.
ExpireInProgress(g, ts) ==
  LET due == {h[2] : h \in {h \in g.heap : h[1] <= ts}}
      rest == [g EXCEPT !.heap = {h \in @ : h[1] > ts}]
      Step(k, acc) ==
        IF k \in DOMAIN acc.batches /\ acc.batches[k].exp > ts
        THEN [acc EXCEPT !.heap = @ \union {<<acc.batches[k].exp, k>>}]
        ELSE remove_batch_in_progress(acc, k)
  IN FoldSet(Step, rest, due)

\* BatchGeneratorCommand::CommitNotification: the transactions of the block
\* stay excluded until the next block, because the pool drops them later.
CommitNotification ==
  /\ \E ts \in lastTs .. now, B \in {{}} \union {{b} : b \in known \union RemoteBatch} :
       LET mine == {b \in B : Key(b) \in DOMAIN gen.batches}
           Drop(b, g) == remove_batch_in_progress(g, Key(b))
       IN /\ gen' = [ExpireInProgress(FoldSet(Drop, gen, B), ts)
                       EXCEPT !.committed = UNION {gen.batches[Key(b)].txns : b \in mine}]
          /\ lastTs' = ts
  /\ UNCHANGED <<now, db, coord, expired, net, known, crashes>>

\* BatchGeneratorCommand::ProofExpiration
ProofExpiration ==
  /\ \E id \in expired :
       /\ gen' = remove_batch_in_progress(gen, <<Me, id>>)
       /\ expired' = expired \ {id}
  /\ UNCHANGED <<now, db, coord, net, known, lastTs, crashes>>

\* BatchGeneratorCommand::RemoteBatch, from the batch coordinator: the first
\* time or again, for a batch within the limits of ensure_max_limits.
handle_remote_batch ==
  /\ \E b \in RemoteBatch :
       /\ Cardinality(b.txns) <= MaxRemoteTxns
       /\ gen' = insert_batch(gen, Key(b), b.txns, now + RemoteGap)
  /\ UNCHANGED <<now, db, coord, expired, net, known, lastTs, crashes>>

-----------------------------------------------------------------------------
(* The proof coordinator *)

\* IncrementalProofState: a signature more, and complete once a quorum signed.
IncrementalProofState(proof) ==
  [sigs |-> proof.sigs + 1, done |-> proof.sigs + 1 >= Quorum]

\* A signature arrives.  The first one for a batch this node authored and has
\* stored opens the proof's state and its timeout; so does a late one, after
\* the state timed out.  A complete proof is broadcast once.
add_signature ==
  \E k \in DOMAIN net :
    LET open == k \in DOMAIN coord.proofs
        old == IF open THEN coord.proofs[k] ELSE [sigs |-> 0, done |-> FALSE]
    IN /\ net[k] > 0
       /\ net' = [net EXCEPT ![k] = @ - 1]
       /\ coord' = [proofs |-> With(coord.proofs, k, IncrementalProofState(old)),
                    timeouts |-> IF open THEN coord.timeouts
                                 ELSE Append(coord.timeouts, <<now + ProofTimeout, k>>)]
       /\ UNCHANGED <<now, db, gen, expired, known, lastTs, crashes>>

\* The tick of the coordinator: states past their timeout go; the generator
\* hears of those that have no proof.
expire ==
  LET due == {i \in 1 .. Len(coord.timeouts) : \A j \in 1 .. i : coord.timeouts[j][1] <= now}
      keys == {coord.timeouts[i][2] : i \in due} \intersect DOMAIN coord.proofs
  IN /\ due # {}
     /\ coord' = [proofs |-> Restrict(coord.proofs, DOMAIN coord.proofs \ keys),
                  timeouts |-> SubSeq(coord.timeouts, Cardinality(due) + 1, Len(coord.timeouts))]
     /\ expired' = expired \union {k[2] : k \in {k \in keys : ~coord.proofs[k].done}}
     /\ UNCHANGED <<now, db, gen, net, known, lastTs, crashes>>

-----------------------------------------------------------------------------
NewCoordinator == [proofs |-> [k \in {} |-> 0], timeouts |-> <<>>]

Tick ==
  /\ now < MaxTime
  /\ now' = now + 1
  /\ UNCHANGED <<db, gen, coord, expired, net, known, lastTs, crashes>>

\* BatchGenerator::new over the stored id
Restarted(id) == NewGenerator(id + 1)

Crash ==
  /\ crashes < MaxCrashes
  /\ crashes' = crashes + 1
  /\ gen' = Restarted(db)
  /\ db' = gen'.next + 1
  /\ coord' = NewCoordinator
  /\ expired' = {}
  /\ UNCHANGED <<now, net, known, lastTs>>

Init ==
  /\ now = 0 /\ db = 1
  /\ gen = NewGenerator(0)
  /\ coord = NewCoordinator
  /\ expired = {} /\ known = {} /\ lastTs = 0 /\ crashes = 0
  /\ net = [k \in {} |-> 0]

Next ==
  \/ GeneratorTick \/ CommitNotification \/ ProofExpiration \/ handle_remote_batch
  \/ add_signature \/ expire \/ Tick \/ Crash

Spec == Init /\ [][Next]_vars

-----------------------------------------------------------------------------
(* Properties *)

\* The generator's books across expirations, commits, proof timeouts and
\* restarts: a transaction is held back exactly as often as batches in progress
\* carry it, every batch in progress will be expired (so what it carries comes
\* back), two batches in progress of this node never carry the same transaction,
\* and the next batch id was never used, not even by a batch that was on its way
\* out when the node stopped.
GeneratorExact ==
  /\ \A t \in Txn : gen.count[t] =
       Cardinality({k \in DOMAIN gen.batches : t \in gen.batches[k].txns})
  /\ \A k \in DOMAIN gen.batches : <<gen.batches[k].exp, k>> \in gen.heap
  /\ \A j, k \in DOMAIN gen.batches :
       j # k /\ j[1] = Me /\ k[1] = Me => gen.batches[j].txns \intersect gen.batches[k].txns = {}
  /\ \A b \in known : b.author = Me => b.id < gen.next

=============================================================================
