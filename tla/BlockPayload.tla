---------------------------- MODULE BlockPayload ----------------------------
(***************************************************************************)
(* The payload of a block, from the proposer's pull to the transactions    *)
(* that are executed and published.  A proposer computes its limits under  *)
(* backpressure (liveness/proposal_generator.rs), pulls validator and user *)
(* transactions (payload_client/), and proposes; a validator verifies a    *)
(* proposal's payload (consensus-types/src/common.rs), requests its        *)
(* batches, and resolves them when the block is executed, every time that  *)
(* it is (payload_manager.rs).  With the DAG, the payloads of the ordered  *)
(* nodes are joined into the payload of one block (dag/adapter.rs).        *)
(*                                                                         *)
(* A batch is a record [id, txns, exp]: it stands for its BatchInfo, and   *)
(* its transactions for its digest.  The payload's data status is shared   *)
(* by every copy of the block (an Arc<Mutex<Option<DataStatus>>>): Absent  *)
(* is the None that `take` leaves while a task works on it.  Which batches *)
(* the quorum store has ready is modelled by ProofManager, how it answers  *)
(* a request for one by BatchStore: here both are a choice.                *)
(***************************************************************************)
EXTENDS Integers, Sequences, SequencesExt, FiniteSets, FiniteSetsExt, Functions

CONSTANTS
    Batches,        \* the certified batches: [id, txns, exp], ids natural numbers
    VtxnPool,       \* how many validator transactions the pool may hold
    VtxnLimit,      \* ValidatorTxnConfig::per_block_limit_txn_count
    MaxItems,       \* max_block_txns
    MaxFiltered,    \* max_block_txns_after_filtering
    MinFiltered,    \* min_max_txns_in_block_after_filtering_from_backpressure
    Backoffs,       \* the block sizes a backoff configuration imposes
    Histories,      \* recent executions: sequences of [ms, commit, retry, len]
    TargetMs, MinMs, MinBlocks, MinCalibrated,  \* ExecutionBackpressureConfig
    Timestamps,     \* the clock readings of proposers
    Foreign,        \* payloads that other proposers send
    Kinds,          \* {"direct", "quorum", "hybrid", "dag"}: what the epoch uses
    MaxBlocks, MaxFaults, Tasks,
    Straddle        \* whether a DAG node's batch may expire before its block

VARIABLES
    kind,       \* the on-chain configuration of this epoch
    blocks,     \* the branch this validator extends: [ts, vtxns, payload]
    committed,  \* how many of its blocks are committed
    told,       \* the batches the quorum store was told are committed
    cache,      \* ProofCache: the proofs that verified
    status,     \* the data status of each block's payload
    task,       \* the get_transactions calls in progress
    answers,    \* what finished calls returned: [block, txns, limit]
    published,  \* the payload messages sent to observers
    faults, panicked

vars == <<kind, blocks, committed, told, cache, status, task, answers, published, faults, panicked>>

Absent == [st |-> "none"]
Requested(rx) == [st |-> "requested", rx |-> rx]
Cached(data) == [st |-> "cached", data |-> data]
Idle == [stage |-> "idle"]

Size(S) == MapThenSumSet(LAMBDA b : Len(b.txns), S)
InOrder(S) == SetToSortSeq(S, LAMBDA a, b : a.id < b.id)
Infos(proofs) == [i \in DOMAIN proofs |-> proofs[i].info]
Flat(bs) == FlattenSeq([i \in DOMAIN bs |-> bs[i].txns])

-----------------------------------------------------------------------------
(* Payloads.  Direct: [kind, txns].  Quorum store: [kind, proofs, inline,   *)
(* limit], with kind "in_quorum_store", "with_limit" or "inline_hybrid";    *)
(* limit and inline are empty where the kind has none.                      *)

Direct(txns) == [kind |-> "direct", txns |-> txns]
Stored(k, proofs, inline, limit) == [kind |-> k, proofs |-> proofs, inline |-> inline, limit |-> limit]

(* Payload::empty *)
EmptyPayload(quorum, inline) ==
    IF ~quorum THEN Direct(<<>>)
    ELSE Stored(IF inline THEN "inline_hybrid" ELSE "in_quorum_store", <<>>, <<>>, {})

(* Payload::len *)
PayloadLen(p) ==
    IF p.kind = "direct" THEN Len(p.txns) ELSE Len(Flat(Infos(p.proofs))) + Len(Flat(p.inline))

(* get_all_batch_infos, and what notify_commit collects *)
BatchesOf(p) == IF p.kind = "direct" THEN {} ELSE ToSet(p.inline) \cup ToSet(Infos(p.proofs))

(* PayloadFilter::from, of payloads that are not direct; the proofs alone    *)
(* would leave the inline batches to be proposed again.                      *)
filter_ProofsOnly(ps) == UNION {ToSet(Infos(p.proofs)) : p \in {q \in ps : q.kind # "direct"}}

filter(ps) == UNION {BatchesOf(p) : p \in ps}

(* transform_to_quorum_store_v2; the other kinds panic. *)
CanLimit(p) == p.kind \in {"in_quorum_store", "inline_hybrid"}
transform_to_quorum_store_v2(p, limit) ==
    [p EXCEPT !.kind = IF @ = "in_quorum_store" THEN "with_limit" ELSE @, !.limit = limit]

(* sum_max_txns_to_execute, and the limit ProofWithDataWithTxnLimit keeps *)
sum_max_txns_to_execute(m1, m2) ==
    IF m1 = {} THEN m2 ELSE IF m2 = {} THEN m1
    ELSE {a + b : a \in m1, b \in m2}

(* Payload::extend: only two payloads of quorum store kinds, of which one is *)
(* hybrid or both are the same kind, can be joined.                          *)
CanExtend(p, q) ==
    \/ p.kind = q.kind
    \/ "direct" \notin {p.kind, q.kind} /\ "inline_hybrid" \in {p.kind, q.kind}
extend(p, q) ==
    IF p.kind = "direct" THEN Direct(p.txns \o q.txns)
    ELSE Stored(IF "inline_hybrid" \in {p.kind, q.kind} THEN "inline_hybrid" ELSE p.kind,
                p.proofs \o q.proofs, p.inline \o q.inline,
                IF p.kind = q.kind /\ p.kind = "with_limit"
                THEN (IF p.limit = {} THEN q.limit ELSE p.limit)
                ELSE sum_max_txns_to_execute(p.limit, q.limit))

(* ProofWithData::extend: the other payload's status moves into this one's.  *)
(* It must be there, and neither may be cached.                              *)
CanJoin(s, t) == t.st = "requested" /\ s.st # "cached"
JoinStatus(s, t) == IF s.st = "none" THEN t ELSE Requested(s.rx \o t.rx)

-----------------------------------------------------------------------------
(* Verifying a received payload.                                            *)

(* verify_with_cache and ProofOfStore::verify: a cached proof is accepted    *)
(* only if it carries the cached signature.                                  *)
ProofVerifies_AnyCached(proof) == (\E c \in cache : c.info = proof.info) \/ proof.sig = "good"

ProofVerifies(proof) == proof \in cache \/ proof.sig = "good"

(* ensure_supported_transaction_payloads: only GTxnBytes is executed. *)
Supported(txns) == "script" \notin ToSet(txns)

(* BatchPayload::hash: an inline batch carries its own transactions, which   *)
(* must be the ones its digest commits to.                                   *)
InlineVerifies(b) == b \in Batches /\ Supported(b.txns)

(* Payload::verify.  The whole match: a direct payload in an epoch without   *)
(* quorum store, a quorum store payload in one with it.                      *)
verify(p, quorum) ==
    CASE p.kind = "direct" -> ~quorum /\ Supported(p.txns)
      [] p.kind = "opt_quorum_store" -> FALSE
      [] OTHER -> /\ quorum
                  /\ \A i \in DOMAIN p.proofs : ProofVerifies(p.proofs[i])
                  /\ \A i \in DOMAIN p.inline : InlineVerifies(p.inline[i])

(* The proofs that enter the cache: those verified before the first failure. *)
NewlyCached(p) ==
    IF p.kind \in {"direct", "opt_quorum_store"} THEN {}
    ELSE {p.proofs[i] : i \in {i \in DOMAIN p.proofs : \A j \in 1 .. i : ProofVerifies(p.proofs[j])}}

-----------------------------------------------------------------------------
(* The proposer's limits.                                                   *)

(* One execution's recalibrated block size; 0 / 0 is NaN, which becomes 0.   *)
CalibratedSize(e) ==
    IF e.commit + e.retry = 0 THEN 1
    ELSE Max({1, (TargetMs * e.commit * e.len) \div (e.ms * (e.commit + e.retry))})

(* get_execution_block_size_backoff, with the metric Mean (the middle one).  *)
get_execution_block_size_backoff(history) ==
    LET used == SelectSeq(history, LAMBDA e : e.ms > MinMs /\ e.len > 0)
        sizes == SortSeq([i \in DOMAIN used |-> CalibratedSize(used[i])], <)
        size == Max({MinCalibrated, sizes[Min({Len(sizes) \div 2, Len(sizes) - 1}) + 1]})
    IN  IF Len(sizes) < MinBlocks \/ sizes = <<>> THEN {}
        ELSE IF MaxFiltered > size THEN {size} ELSE {}

(* calculate_max_block_sizes: the smallest of the limits in force; below     *)
(* MinFiltered it limits what is executed instead of what is pulled.         *)
calculate_max_block_sizes(health, latency, history) ==
    LET most == Min({MaxFiltered} \cup health \cup latency \cup get_execution_block_size_backoff(history))
    IN  IF MinFiltered > most THEN [pull |-> MinFiltered, execute |-> {most}]
        ELSE [pull |-> most, execute |-> {}]

(* The validator transactions of MixedPayloadClient::pull_payload, and the   *)
(* checked subtractions that follow the pull: the release profile panics on  *)
(* overflow, so the pool's limit must not exceed any of the others.          *)
VtxnsPulled_Unlimited(available) == Min({available, MaxItems})

VtxnsPulled(available) == Min({available, MaxItems, VtxnLimit})
soft_max(sizes) == IF sizes.execute = {} THEN sizes.pull ELSE Min(sizes.execute)
Subtracts(n, sizes) == n <= MaxItems /\ n <= sizes.pull /\ n <= soft_max(sizes)

(* QuorumStoreClient::pull asks once, whatever it gets (`done` is true); the *)
(* quorum store answers with batches that are not excluded, not known to be  *)
(* committed, unexpired at the block's time, and within the limit.           *)
Pulls(excluded, ts, most) ==
    {S \in SUBSET {b \in Batches : b \notin excluded \cup told /\ b.exp > ts} : Size(S) <= most}

(* DirectMempoolQuorumStore::handle_block_request: a failed pull is an empty *)
(* payload.                                                                  *)
DirectPulls(S) == {Direct(<<>>), Direct(Flat(InOrder(S)))}

PayloadOf(S) ==
    IF kind = "direct" THEN DirectPulls(S)
    ELSE IF kind = "quorum"
    THEN {Stored("in_quorum_store", [i \in DOMAIN InOrder(S) |-> [info |-> InOrder(S)[i], sig |-> "good"]], <<>>, {})}
    ELSE {LET proofs == InOrder(S \ I)
          IN  Stored("inline_hybrid", [i \in DOMAIN proofs |-> [info |-> proofs[i], sig |-> "good"]], InOrder(I), {}) :
          I \in {I \in SUBSET S : Cardinality(I) <= 1}}

-----------------------------------------------------------------------------
(* Resolving a payload.                                                     *)

(* request_transactions: a receiver for each batch that has not expired at   *)
(* the block's time, whatever the time here is.                              *)
request_transactions_Late(proofs, ts) == Infos(SelectSeq(proofs, LAMBDA p : ts + faults <= p.info.exp))

request_transactions(proofs, ts) == Infos(SelectSeq(proofs, LAMBDA p : ts <= p.info.exp))

(* prefetch_payload_data: only if nothing was requested. *)
prefetch(s, p, ts) ==
    IF p.kind = "direct" \/ s.st # "none" THEN s ELSE Requested(request_transactions(p.proofs, ts))

(* What a block's transactions are, wherever and whenever it is executed.    *)
Expected(b) ==
    IF b.payload.kind = "direct" THEN b.payload.txns
    ELSE Flat(request_transactions(b.payload.proofs, b.ts)) \o Flat(b.payload.inline)

AddBlock(b, s) ==
    /\ blocks' = Append(blocks, b)
    /\ status' = Append(status, s)

(* generate_proposal_inner; the branch is the certified one, and its blocks  *)
(* after the last committed one, and that one, are excluded.                 *)
Propose ==
    /\ kind # "dag" /\ Len(blocks) < MaxBlocks
    /\ \E health \in {{}} \cup {{n} : n \in Backoffs}, latency \in {{}} \cup {{n} : n \in Backoffs},
          history \in Histories, available \in 0 .. VtxnPool, ts \in Timestamps :
        LET sizes == calculate_max_block_sizes(health, latency, history)
            n == VtxnsPulled(available)
            pending == {blocks[i].payload : i \in Max({1, committed}) .. Len(blocks)}
        IN  /\ (IF blocks = <<>> THEN 0 ELSE Last(blocks).ts) < ts
            /\ IF ~Subtracts(n, sizes)
               THEN panicked' = TRUE /\ UNCHANGED <<blocks, status>>
               ELSE \E S \in Pulls(filter(pending), ts, sizes.pull - n) :
                    \E p \in PayloadOf(S) :
                        LET over == p.kind # "direct" /\ \E m \in sizes.execute : PayloadLen(p) > m
                            q == IF over /\ CanLimit(p) THEN transform_to_quorum_store_v2(p, sizes.execute) ELSE p
                        IN  /\ panicked' = (over /\ ~CanLimit(p))
                            /\ AddBlock([ts |-> ts, vtxns |-> n, payload |-> q, limit |-> sizes.execute],
                                        prefetch(Absent, q, ts))
    /\ UNCHANGED <<kind, committed, told, cache, task, answers, published, faults>>

(* A proposal from another validator: ProposalMsg::verify; then the epoch    *)
(* manager requests its batches and the block store inserts it.              *)
ReceiveProposal(p, ts) ==
    /\ kind # "dag" /\ Len(blocks) < MaxBlocks
    /\ (IF blocks = <<>> THEN 0 ELSE Last(blocks).ts) < ts
    /\ BatchesOf(p) \cap filter({blocks[i].payload : i \in DOMAIN blocks}) = {}
    /\ cache' = cache \cup NewlyCached(p)
    /\ IF verify(p, kind # "direct")
       THEN AddBlock([ts |-> ts, vtxns |-> 0, payload |-> p, limit |-> {}], prefetch(Absent, p, ts))
       ELSE UNCHANGED <<blocks, status>>
    /\ UNCHANGED <<kind, committed, told, task, answers, published, faults, panicked>>

(* send_ordered_nodes: the nodes' batches were requested when each node was  *)
(* added, at the node's own time.                                            *)
CombineNodes ==
    /\ kind = "dag" /\ Len(blocks) < MaxBlocks
    /\ \E S, T \in SUBSET (Batches \ filter({blocks[i].payload : i \in DOMAIN blocks})), tS, tT \in Timestamps :
        LET free == S \cap T = {} /\ tS <= tT
            node(U) == Stored("in_quorum_store", [i \in DOMAIN InOrder(U) |-> [info |-> InOrder(U)[i], sig |-> "good"]], <<>>, {})
            empty == EmptyPayload(TRUE, TRUE)
            first == prefetch(Absent, node(S), tS)
            second == prefetch(Absent, node(T), tT)
            ts == Max({tT, (IF blocks = <<>> THEN 0 ELSE Last(blocks).ts) + 1})
            ok == /\ CanExtend(empty, node(S)) /\ CanJoin(Absent, first)
                  /\ CanExtend(extend(empty, node(S)), node(T)) /\ CanJoin(JoinStatus(Absent, first), second)
        IN  /\ free
            /\ \A b \in S \cup T : b.exp >= (IF b \in S THEN tS ELSE tT)
            /\ Straddle \/ \A b \in S \cup T : b.exp >= ts
            /\ panicked' = ~ok
            /\ IF ok
               THEN AddBlock([ts |-> ts, vtxns |-> 0, limit |-> {},
                              payload |-> extend(extend(empty, node(S)), node(T))],
                             JoinStatus(JoinStatus(Absent, first), second))
               ELSE UNCHANGED <<blocks, status>>
    /\ UNCHANGED <<kind, committed, told, cache, task, answers, published, faults>>

(* The block is inserted again (a rebuild of the tree) or recovered: its     *)
(* batches are requested unless they already were.                           *)
Prefetch(i) ==
    /\ status' = [status EXCEPT ![i] = prefetch(@, blocks[i].payload, blocks[i].ts)]
    /\ status' # status
    /\ UNCHANGED <<kind, blocks, committed, told, cache, task, answers, published, faults, panicked>>

-----------------------------------------------------------------------------
(* BlockTransactionPayload: what is published of a resolved payload, and    *)
(* what an observer checks of it.                                           *)

Message(i, txns) ==
    LET p == blocks[i].payload
    IN  [block |-> i, kind |-> p.kind, txns |-> txns, proofs |-> p.proofs, limit |-> p.limit,
         inline |-> p.inline]

(* verify_batches, verify_inline_batches, verify_transaction_limit *)
verify_against_ordered_payload(m, p) ==
    /\ p.kind # "direct"
    /\ Infos(p.proofs) = Infos(m.proofs)
    /\ p.kind = "inline_hybrid" => m.kind = "inline_hybrid" /\ m.inline = p.inline
    /\ p.kind # "in_quorum_store" => m.kind \in {"with_limit", "inline_hybrid"} /\ m.limit = p.limit

(* reconstruct_and_verify_batch, over the batches in their order, with no    *)
(* transaction left over.                                                    *)
verify_payload_digests(m) == m.txns = Flat(Infos(m.proofs)) \o Flat(m.inline)

verify_payload_signatures(m) == \A i \in DOMAIN m.proofs : m.proofs[i].sig = "good"

ObserverAccepts(m) ==
    /\ verify_against_ordered_payload(m, blocks[m.block].payload)
    /\ verify_payload_digests(m)
    /\ verify_payload_signatures(m)

(* get_transactions returns: the transactions, and the message published.    *)
Answer(t, i, txns) ==
    /\ answers' = answers \cup {[block |-> i, txns |-> txns \o Flat(blocks[i].payload.inline)]}
    /\ published' = published \cup {Message(i, txns \o Flat(blocks[i].payload.inline))}
    /\ task' = [task EXCEPT ![t] = Idle]

(* get_transactions: a direct payload holds its transactions.  Otherwise     *)
(* process_payload takes the status away; a second call in the meantime      *)
(* finds none and fails, for its caller to try again.                        *)
StartGet(t, i) ==
    /\ task[t] = Idle
    /\ IF blocks[i].payload.kind = "direct"
       THEN /\ answers' = answers \cup {[block |-> i, txns |-> blocks[i].payload.txns]}
            /\ UNCHANGED <<status, task>>
       ELSE /\ status[i].st # "none"
            /\ status' = [status EXCEPT ![i] = Absent]
            /\ task' = [task EXCEPT ![t] = IF status[i].st = "cached"
                                           THEN [stage |-> "cached", block |-> i, data |-> status[i].data]
                                           ELSE [stage |-> "await", block |-> i, rx |-> status[i].rx, got |-> <<>>]]
            /\ UNCHANGED answers
    /\ UNCHANGED <<kind, blocks, committed, told, cache, published, faults, panicked>>

(* The cached data is put back, and returned. *)
PutBack(t) ==
    /\ task[t].stage = "cached"
    /\ status' = [status EXCEPT ![task[t].block] = Cached(task[t].data)]
    /\ Answer(t, task[t].block, task[t].data)
    /\ UNCHANGED <<kind, blocks, committed, told, cache, faults, panicked>>

(* A receiver answers with its batch. *)
AwaitBatch(t) ==
    /\ task[t].stage = "await" /\ task[t].rx # <<>>
    /\ task' = [task EXCEPT ![t].rx = Tail(@), ![t].got = @ \o Head(task[t].rx).txns]
    /\ UNCHANGED <<kind, blocks, committed, told, cache, status, answers, published, faults, panicked>>

(* A receiver is dropped or answers with an error: everything is requested   *)
(* again, for the next call.  Forgetting to leaves the status taken.         *)
AwaitFails_Taken(t) ==
    /\ task[t].stage = "await" /\ task[t].rx # <<>>
    /\ faults < MaxFaults /\ faults' = faults + 1
    /\ task' = [task EXCEPT ![t] = Idle]
    /\ UNCHANGED <<kind, blocks, committed, told, cache, status, answers, published, panicked>>

AwaitFails(t) ==
    /\ task[t].stage = "await" /\ task[t].rx # <<>>
    /\ faults < MaxFaults /\ faults' = faults + 1
    /\ LET i == task[t].block
       IN status' = [status EXCEPT ![i] = Requested(request_transactions(blocks[i].payload.proofs, blocks[i].ts))]
    /\ task' = [task EXCEPT ![t] = Idle]
    /\ UNCHANGED <<kind, blocks, committed, told, cache, answers, published, panicked>>

(* Every receiver answered: the transactions are cached for the next call,   *)
(* which execution makes.                                                    *)
FinishGet(t) ==
    /\ task[t].stage = "await" /\ task[t].rx = <<>>
    /\ status' = [status EXCEPT ![task[t].block] = Cached(task[t].got)]
    /\ Answer(t, task[t].block, task[t].got)
    /\ UNCHANGED <<kind, blocks, committed, told, cache, faults, panicked>>

(* notify_commit, before the commit root moves.  A full channel loses the    *)
(* notification.                                                             *)
Commit ==
    /\ committed < Len(blocks)
    /\ \E a \in answers : a.block = committed + 1
    /\ committed' = committed + 1
    /\ told' = told \cup BatchesOf(blocks[committed + 1].payload)
    /\ UNCHANGED <<kind, blocks, cache, status, task, answers, published, faults, panicked>>

Init ==
    /\ kind \in Kinds
    /\ blocks = <<>> /\ committed = 0 /\ told = {} /\ cache = {} /\ status = <<>>
    /\ task = [t \in Tasks |-> Idle] /\ answers = {} /\ published = {}
    /\ faults = 0 /\ panicked = FALSE

Next ==
    /\ ~panicked
    /\ \/ Propose \/ CombineNodes \/ Commit
       \/ \E p \in Foreign, ts \in Timestamps : ReceiveProposal(p, ts)
       \/ \E i \in DOMAIN blocks : Prefetch(i)
       \/ \E t \in Tasks : \/ \E i \in DOMAIN blocks : StartGet(t, i)
                           \/ PutBack(t) \/ AwaitBatch(t) \/ AwaitFails(t) \/ FinishGet(t)

Spec == Init /\ [][Next]_vars

-----------------------------------------------------------------------------
(* Every call that returns transactions returns the same ones for a block,   *)
(* on every validator: the batches unexpired at the block's own time, in     *)
(* order, then the inline ones; whatever failed before, was requested again  *)
(* or was cached (get_transactions and process_payload).                     *)
AnswersExact == \A a \in answers : a.txns = Expected(blocks[a.block])

(* The data status is only ever absent while a call holds it: no failure     *)
(* leaves a block that can never be executed ("Payload status not            *)
(* initialized").                                                            *)
StatusNeverLost ==
    \A i \in DOMAIN blocks :
        blocks[i].payload.kind # "direct" /\ status[i].st = "none"
            => \E t \in Tasks : task[t] # Idle /\ task[t].block = i

(* A batch is in one block of the branch only: the filter covers the pending *)
(* blocks and the commit root, and the quorum store was told of the others.  *)
NoBatchTwice ==
    \A i, j \in DOMAIN blocks : i < j => BatchesOf(blocks[i].payload) \cap BatchesOf(blocks[j].payload) = {}

(* Only batches with a valid proof, and inline batches that are what their   *)
(* digest says, enter the branch, with or without the proof cache.           *)
OnlyVerified ==
    \A i \in DOMAIN blocks : LET p == blocks[i].payload IN
        p.kind # "direct" => /\ \A k \in DOMAIN p.proofs : p.proofs[k].sig = "good"
                             /\ ToSet(p.inline) \subseteq Batches

(* A proposal over the backpressure's target carries the target as its       *)
(* execution limit, and never exceeds the larger limit on what is pulled.    *)
LimitCarried ==
    \A i \in DOMAIN blocks : LET b == blocks[i] IN
        /\ b.payload.kind # "direct" /\ (\E m \in b.limit : PayloadLen(b.payload) > m) => b.payload.limit = b.limit
        /\ b.vtxns + PayloadLen(b.payload) <= MaxFiltered

(* An observer accepts what a validator publishes of a block whose batches   *)
(* were live at its time (verify_against_ordered_payload,                    *)
(* verify_payload_digests and verify_payload_signatures).                    *)
PublishedVerifies ==
    \A m \in published :
        (\A i \in DOMAIN m.proofs : blocks[m.block].ts <= m.proofs[i].info.exp) => ObserverAccepts(m)

PayloadsSound ==
    /\ ~panicked /\ AnswersExact /\ StatusNeverLost /\ NoBatchTwice
    /\ OnlyVerified /\ LimitCarried /\ PublishedVerifies

(* "limit is considered at the stage where we prepare the block from the     *)
(* payload" (consensus-types/src/common.rs): no more transactions are        *)
(* executed than the payload's limit.  get_block_txns drops the limit.       *)
LimitApplied ==
    \A a \in answers : LET p == blocks[a.block].payload IN
        p.kind # "direct" => \A m \in p.limit : Len(a.txns) <= m
=============================================================================
