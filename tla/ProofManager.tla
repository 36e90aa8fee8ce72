---------------------------- MODULE ProofManager ----------------------------
(***************************************************************************)
(* The consuming half of the quorum store: the proof manager with its      *)
(* ProofQueue of batches that have a proof and its BatchQueue of batches   *)
(* that have none, from which proposals are filled.  Summaries of batches, *)
(* proofs and commits of blocks come from three senders, so in any order,  *)
(* and summaries and proofs may come again.                                *)
(*                                                                         *)
(* A key is <<author, id>>.  A batch_to_proof entry is "proof", or         *)
(* "committed" for the code's None.  One byte limit would behave like the  *)
(* transaction limit; there is one gas bucket.                             *)
(***************************************************************************)
EXTENDS Integers, FiniteSets, FiniteSetsExt, Sequences, SequencesExt, Functions

CONSTANTS
  Me,             \* this validator
  Txn,            \* transactions
  Batch,          \* batches [author, id, txns, exp], of this validator and others
  TxnLimit, ProofLimit,  \* back_pressure_total_*_limit
  MaxTime         \* bound of the clock

VARIABLES
  now,      \* the clock
  pm,       \* ProofManager
  pressure  \* the BackPressure the generator was last sent
vars == <<now, pm, pressure>>

Key(b) == <<b.author, b.id>>
Without(f, k) == Restrict(f, DOMAIN f \ {k})
With(f, k, v) == [x \in DOMAIN f \union {k} |-> IF x = k THEN v ELSE f[x]]
AddTo(f, S, n) == [x \in DOMAIN f |-> IF x \in S THEN f[x] + n ELSE f[x]]

-----------------------------------------------------------------------------
(* The proof queue *)

NewQueue ==
  [queue |-> {}, proof |-> [k \in {} |-> ""], count |-> [t \in Txn |-> 0],
   summaries |-> [k \in {} |-> 0], heap |-> {}, ts |-> 0,
   txns |-> 0, proofs |-> 0, local_txns |-> 0, local_proofs |-> 0]

\* inc_remaining and dec_remaining, with n = 1 and n = -1
Remaining(q, b, n) ==
  LET own == IF b.author = Me THEN n ELSE 0
      size == Cardinality(b.txns)
  IN [q EXCEPT !.txns = @ + n * size, !.proofs = @ + n,
               !.local_txns = @ + own * size, !.local_proofs = @ + own]

HasProof(q, k) == k \in DOMAIN q.proof /\ q.proof[k] = "proof"
Counted(q, k) == k \in DOMAIN q.summaries /\ q.summaries[k].added

push(q, b) ==
  LET k == Key(b)
      add == k \in DOMAIN q.summaries /\ ~Counted(q, k)
  IN IF b.exp <= q.ts \/ k \in DOMAIN q.proof THEN q
     ELSE Remaining([q EXCEPT
       !.queue = @ \union {b}, !.heap = @ \union {<<b.exp, k>>},
       !.proof = With(@, k, "proof"),
       !.count = IF add THEN AddTo(@, q.summaries[k].txns, 1) ELSE @,
       !.summaries = IF add THEN [@ EXCEPT ![k].added = TRUE] ELSE @], b, 1)

\* A summary counts once, and only while its proof waits.
add_batch_summaries(q, b) ==
  LET k == Key(b)
      waits == b \in q.queue /\ HasProof(q, k)
  IN IF Counted(q, k) THEN q
     ELSE [q EXCEPT !.count = IF waits THEN AddTo(@, b.txns, 1) ELSE @,
                    !.summaries = With(@, k, [txns |-> b.txns, exp |-> b.exp, added |-> waits])]

\* Run at most twice a second, so after some commands and not others.
gc_expired_batch_summaries_without_proofs(q) ==
  [q EXCEPT !.summaries =
     Restrict(@, {k \in DOMAIN @ : @[k].added \/ @[k].exp > now})]

Uncount(q, k) ==
  [q EXCEPT !.count = IF Counted(q, k) THEN AddTo(@, q.summaries[k].txns, -1) ELSE @,
            !.summaries = Without(@, k)]

mark_committed_KeepSummary(q, b) ==
  LET k == Key(b)
      paid == IF HasProof(q, k) THEN Remaining(q, b, -1) ELSE q
      less == [Uncount(paid, k) EXCEPT !.summaries = q.summaries]
  IN [less EXCEPT !.proof = With(@, k, "committed")]

mark_committed(q, b) ==
  LET k == Key(b)
      paid == IF HasProof(q, k) THEN Remaining(q, b, -1) ELSE q
  IN [Uncount(paid, k) EXCEPT !.proof = With(@, k, "committed")]

handle_updated_block_timestamp(q, ts) ==
  LET due == {h[2] : h \in {h \in q.heap : h[1] <= ts}}
      Step(b, acc) ==
        LET k == Key(b)
            less == IF HasProof(acc, k) THEN Remaining(Uncount(acc, k), b, -1) ELSE acc
        IN [less EXCEPT !.queue = @ \ {b}, !.proof = Without(@, k)]
  IN FoldSet(Step, [q EXCEPT !.ts = ts, !.heap = {h \in @ : h[1] > ts}],
             {b \in q.queue : Key(b) \in due})

remaining_txns_without_duplicates(q) ==
  Cardinality({t \in Txn : q.count[t] > 0})
    + FoldSet(LAMBDA b, n : n + Cardinality(b.txns), 0,
              {b \in q.queue : HasProof(q, Key(b)) /\ Key(b) \notin DOMAIN q.summaries})

\* pull_proofs and pull_batches take one batch of every author in turn, the
\* oldest of an author first and the authors of a round in random order.
RankIn(S, b) == Cardinality({c \in S : c.author = b.author /\ c.id < b.id})
Arrangements(S) == {o \in [1 .. Cardinality(S) -> S] : IsInjective(o)}
PullOrders(S) ==
  {o \in Arrangements(S) : \A i, j \in 1 .. Len(o) : i < j => RankIn(S, o[i]) <= RankIn(S, o[j])}

\* The transactions a proof would add to a payload that has seen some already:
\* all of them when the batch's summary has not come.
Fresh(q, seen, b) ==
  IF Key(b) \in DOMAIN q.summaries
  THEN Cardinality(q.summaries[Key(b)].txns \ seen) ELSE Cardinality(b.txns)

Taken(q, acc, b) ==
  [acc EXCEPT !.ret = @ \union {b}, !.unique = @ + Fresh(q, acc.seen, b),
              !.all = @ + Cardinality(b.txns),
              !.seen = IF Key(b) \in DOMAIN q.summaries
                       THEN @ \union q.summaries[Key(b)].txns ELSE @]

PullOne_Recount(q, acc, b, max, unique, soft) ==
  IF acc.unique > unique \/ acc.all + Cardinality(b.txns) > max
  THEN [acc EXCEPT !.full = TRUE, !.over = @ \union {b.author}]
  ELSE Taken(q, acc, b)

\* One turn of an author.  A proof over a limit ends the author's turns, and so
\* does the one that fills a limit.
PullOne(q, acc, b, max, unique, soft) ==
  LET next == Taken(q, acc, b)
      over == next.unique > unique \/ next.all > max
      fills == next.all = max \/ next.unique = unique \/ next.unique >= soft
      Stop(r) == [r EXCEPT !.full = TRUE, !.over = @ \union {b.author}]
  IN IF over THEN Stop(acc) ELSE IF fills THEN Stop(next) ELSE next

\* pull_proofs for an order of the authors' turns.  `max` bounds all
\* transactions, `unique` those not seen before in this payload or in an
\* excluded batch; reaching `soft` ends an author's turns.
pull_proofs(q, excluded, order, max, unique, soft) ==
  LET seen == UNION {q.summaries[Key(b)].txns : b \in {b \in excluded : Key(b) \in DOMAIN q.summaries}}
      Turn(acc, b) ==
        IF b.author \in acc.over \/ b \in excluded \/ ~HasProof(q, Key(b)) THEN acc
        ELSE PullOne(q, acc, b, max, unique, soft)
  IN FoldLeft(Turn, [ret |-> {}, all |-> 0, unique |-> 0, seen |-> seen,
                     full |-> FALSE, over |-> {}], order)

\* pull_batches: the first batch over the limit ends the pull.  A batch that is
\* not in the local store is passed over.
pull_batches(excluded, order, max, stored) ==
  LET Step(acc, b) ==
        IF acc.full \/ b \in excluded THEN acc
        ELSE IF acc.all + Cardinality(b.txns) > max THEN [acc EXCEPT !.full = TRUE]
        ELSE IF b \notin stored THEN acc
        ELSE [acc EXCEPT !.ret = @ \union {b}, !.all = @ + Cardinality(b.txns)]
  IN FoldLeft(Step, [ret |-> {}, all |-> 0, full |-> FALSE], order)

-----------------------------------------------------------------------------
(* The proof manager *)

\* qs_back_pressure after every command; the generator is sent what changed.
qs_back_pressure(q) ==
  [txn_count |-> remaining_txns_without_duplicates(q) > TxnLimit,
   proof_count |-> q.proofs > ProofLimit]

Handled(queue, batches) ==
  /\ pm' = [q |-> queue, batches |-> batches]
  /\ pressure' = qs_back_pressure(queue)
  /\ UNCHANGED now

Collected(q) == {q, gc_expired_batch_summaries_without_proofs(q)}

receive_proofs ==
  \E b \in Batch : \E q \in Collected(push(pm.q, b)) : Handled(q, pm.batches \ {b})

receive_batches ==
  \E b \in Batch : \E q \in Collected(add_batch_summaries(pm.q, b)) :
    Handled(q, pm.batches \union {b})

handle_commit_notification ==
  \E ts \in pm.q.ts .. now, B \in {{}} \union {{b} : b \in Batch} :
    LET Mark(b, q) == mark_committed(q, b)
    IN Handled(handle_updated_block_timestamp(FoldSet(Mark, pm.q, B), ts),
               {b \in pm.batches : b.exp > now} \ B)

\* handle_proposal_request leaves the queues as they are.  The answers it may
\* give: proofs, and batches without one when no proof was left out.  The
\* empty answer to a request with return_non_full = false, which no caller
\* sends, is left out.
Payloads(excluded, max, unique, soft, inline, stored) ==
  {[proofs |-> p.ret, unique |-> p.unique, full |-> p.full,
    inline |-> IF p.full THEN {}
               ELSE LET left == Min({Max({max - p.all, 0}), Max({unique - p.unique, 0}), inline})
                    IN pull_batches(excluded \union p.ret, o, left, stored).ret] :
     p \in {pull_proofs(pm.q, excluded, o, max, unique, soft) : o \in PullOrders(pm.q.queue)},
     o \in PullOrders(pm.batches)}

Tick ==
  /\ now < MaxTime
  /\ now' = now + 1
  /\ UNCHANGED <<pm, pressure>>

Init ==
  /\ now = 0
  /\ pm = [q |-> NewQueue, batches |-> {}]
  /\ pressure = [txn_count |-> FALSE, proof_count |-> FALSE]

Next == receive_proofs \/ receive_batches \/ handle_commit_notification \/ Tick

Spec == Init /\ [][Next]_vars

-----------------------------------------------------------------------------
(* Properties *)

Waiting(q) == {b \in q.queue : HasProof(q, Key(b))}

\* The proof queue keeps four indexes of the same proofs, updated by proofs,
\* summaries and commits in any order.  They agree: the counters that drive
\* back pressure count exactly the queued proofs that are neither committed nor
\* expired (and never wrap below zero), a transaction's occurrences are the
\* waiting proofs that carry it, and handle_updated_block_timestamp finds an
\* entry for every batch it expires.
QueueExact ==
  LET q == pm.q
      Size(S) == FoldSet(LAMBDA b, n : n + Cardinality(b.txns), 0, S)
      Own(S) == {b \in S : b.author = Me}
  IN /\ q.proofs = Cardinality(Waiting(q)) /\ q.txns = Size(Waiting(q))
     /\ q.local_proofs = Cardinality(Own(Waiting(q))) /\ q.local_txns = Size(Own(Waiting(q)))
     /\ \A t \in Txn : q.count[t] =
          Cardinality({b \in Waiting(q) : Counted(q, Key(b)) /\ t \in q.summaries[Key(b)].txns})
     /\ \A b \in q.queue : /\ Key(b) \in DOMAIN q.proof
                           /\ <<b.exp, Key(b)>> \in q.heap /\ b.exp > q.ts
     /\ \A k \in DOMAIN q.summaries : q.summaries[k].added => \E b \in Waiting(q) : Key(b) = k

\* Whatever the limits and the order of the authors, a payload respects the
\* limits, holds nothing excluded, committed or expired and no batch twice, and
\* leaves a waiting proof out only when it says that it is full.
PayloadSound ==
  \A max \in 1 .. 3, excluded \in {{}} \union {{b} : b \in pm.q.queue} :
    \A p \in Payloads(excluded, max, 2, 2, 1, pm.batches) :
      LET Size(S) == FoldSet(LAMBDA b, n : n + Cardinality(b.txns), 0, S)
      IN /\ p.proofs \subseteq Waiting(pm.q) \ excluded
         /\ Size(p.proofs \union p.inline) <= max /\ p.unique <= 2
         /\ p.proofs \intersect p.inline = {} /\ p.inline \intersect excluded = {}
         /\ p.full \/ p.proofs = Waiting(pm.q) \ excluded

=============================================================================
