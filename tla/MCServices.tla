----------------------------- MODULE MCServices -----------------------------
(***************************************************************************)
(* The components around the consensus core, each on a small instance: the *)
(* three parts of the quorum store, the pool, the payload of a block, the  *)
(* shufflers, the consensus observer, the sentinel and the relayer. They   *)
(* share no state in these instances, so a behaviour is one of one         *)
(* component, chosen in the initial state.                                 *)
(***************************************************************************)
EXTENDS Relayer, Integers, Sequences, FiniteSets, TLC

CONSTANTS
  d1, d2, t1, t2,   \* digests and tasks of BatchStore
  Comps,            \* the components to run
  Deployments       \* the sets of monitors the sentinel runs with

VARIABLES
  comp,   \* the component that runs
  now, db, gen, coord, expired, net, known, lastTs, crashes, pm, pressure, cache, quota,
  heap, certified, clearing, subs, task, reader, signed, panicked, executed, pool, iter,
  last, inflight, gap, events, store, next_id, its_cursor, sent, kind, blocks, committed,
  told, status, answers, published, its_faults, alg, input, spread, next, out, queue,
  pending, o, notes, callbacks, owed, subscriptions, enabled, eth, liq, balance, ckpt, disk,
  failures, raised, first, part, rules, stamps, seen, probe, explorer, polls, times, log

\* BatchGenerator, ProofManager: two transactions, a batch of a peer that has both
RemoteBatches == {[author |-> "p1", id |-> 7, txns |-> {1, 2}, exp |-> 2]}
QueuedBatches ==
  {[author |-> "me", id |-> 0, txns |-> {1}, exp |-> 1],
   [author |-> "me", id |-> 1, txns |-> {1, 2}, exp |-> 2],
   [author |-> "p1", id |-> 7, txns |-> {2}, exp |-> 2]}

\* BlockShuffle: three uses of two senders
ShuffledTxns == [sender : {1, 2}, use : {"platform", "others", "c"}]
ShuffleSpreads ==
  {[sender |-> 1, platform |-> 0, user |-> 2], [sender |-> 2, platform |-> 1, user |-> 1]}

\* Observer: an epoch of three rounds and one of two, ordered in groups
ObservedGroups ==
  {[e |-> 1, lo |-> 1, hi |-> 1], [e |-> 1, lo |-> 2, hi |-> 3],
   [e |-> 2, lo |-> 1, hi |-> 1], [e |-> 2, lo |-> 2, hi |-> 2]}

\* ChainMonitors: one monitor alone, or two that share a cursor
ChainEvents ==
  {[kind |-> "lock", on |-> "sender", flag |-> TRUE],
   [kind |-> "emergency", on |-> "sender", flag |-> FALSE],
   [kind |-> "transferred", on |-> "portal", flag |-> FALSE]}

\* Sentinel: whitelists with good, malformed and overriding records
Record(fields, pattern, threshold, priority) ==
  [fields |-> fields, pattern |-> pattern, threshold |-> threshold, priority |-> priority]
Whitelists ==
  {<< Record(2, TRUE, {1}, "none"), Record(1, TRUE, {0}, "none"), Record(3, TRUE, {-1}, "P1") >>,
   << Record(3, FALSE, {0}, "P2"), Record(3, TRUE, {0}, "P1"), Record(3, TRUE, {2}, "P7") >>,
   << Record(2, TRUE, {}, "none"), Record(2, TRUE, {-2}, "none") >>}

\* BlockPayload: a batch that lives and one that expires between two proposals; other
\* proposers send a limited payload with a batch that has expired, a proof that does not
\* verify next to one that does, an inline batch that is not what its digest says, and
\* kinds the epoch does not use or execute
b1 == [id |-> 1, txns |-> <<"t1", "t2">>, exp |-> 9]
b2 == [id |-> 2, txns |-> <<"t3">>, exp |-> 2]
Proof(b, s) == [info |-> b, sig |-> s]
Stored(kd, proofs, inline, limit) ==
  [kind |-> kd, proofs |-> proofs, inline |-> inline, limit |-> limit]
ForeignPayloads ==
  {Stored("with_limit", <<Proof(b1, "good"), Proof(b2, "good")>>, <<>>, {1}),
   Stored("in_quorum_store", <<Proof(b2, "good"), Proof(b1, "bad")>>, <<>>, {}),
   Stored("inline_hybrid", <<Proof(b2, "bad")>>, <<>>, {}),
   Stored("inline_hybrid", <<Proof(b2, "good")>>, <<[b1 EXCEPT !.txns = <<"t2">>]>>, {}),
   Stored("opt_quorum_store", <<>>, <<>>, {}),
   [kind |-> "direct", txns |-> <<"t1">>], [kind |-> "direct", txns |-> <<"script">>]}
ExecutionTimes ==
  {<<>>,
   <<[ms |-> 40, commit |-> 4, retry |-> 4, len |-> 8],
     [ms |-> 20, commit |-> 0, retry |-> 0, len |-> 6]>>}

Generator == INSTANCE BatchGenerator WITH
    Me <- "me", Validators <- 2, Quorum <- 2, Txn <- 1 .. 2, Oversized <- {2},
    RemoteBatch <- RemoteBatches, MaxBatchTxns <- 1, MaxNumBatches <- 2, PullMax <- 2,
    MaxRemoteTxns <- 2, ExpiryGap <- 1, RemoteGap <- 1, ProofTimeout <- 1, MaxTime <- 1,
    MaxBatches <- 2, MaxCrashes <- 1

Proofs == INSTANCE ProofManager WITH
    Me <- "me", Txn <- 1 .. 2, Batch <- QueuedBatches, TxnLimit <- 1, ProofLimit <- 1,
    MaxTime <- 2

BatchCache == INSTANCE BatchStore WITH
    Digest <- {d1, d2}, Peer <- {"p1"}, Author <- [d \in {d1, d2} |-> "p1"],
    Expiration <- {1, 2}, MemoryQuota <- 1, DbQuota <- 2, BatchQuota <- 2, Task <- {t1, t2},
    Reader <- {"r1"}, Racing <- FALSE, MaxTime <- 2, MaxRetries <- 0, MaxCrashes <- 1

Pool == INSTANCE Mempool WITH
    Sender <- {"a"}, MaxNonce <- 2, PayloadBytes <- 2, SignedBytes <- 3, MaxTxns <- 2,
    MaxBytes <- 6, Peer <- {"p"}, MaxCount <- 1, MaxId <- 4, cursor <- its_cursor

\* two blocks, one reader; one block, two readers
Payload == INSTANCE BlockPayload WITH
    Batches <- {b1, b2}, VtxnPool <- 2, VtxnLimit <- 1, MaxItems <- 4, MaxFiltered <- 3,
    MinFiltered <- 2, Backoffs <- {1}, Histories <- ExecutionTimes, TargetMs <- 10,
    MinMs <- 10, MinBlocks <- 2, MinCalibrated <- 2, Timestamps <- {1, 3},
    Foreign <- ForeignPayloads, Kinds <- {"direct", "quorum", "hybrid", "dag"},
    MaxBlocks <- 2, MaxFaults <- 1, Tasks <- {1}, Straddle <- FALSE, faults <- its_faults

PayloadTasks == INSTANCE BlockPayload WITH
    Batches <- {b1, b2}, VtxnPool <- 2, VtxnLimit <- 1, MaxItems <- 4, MaxFiltered <- 3,
    MinFiltered <- 2, Backoffs <- {1}, Histories <- ExecutionTimes, TargetMs <- 10,
    MinMs <- 10, MinBlocks <- 2, MinCalibrated <- 2, Timestamps <- {1, 3},
    Foreign <- ForeignPayloads, Kinds <- {"direct", "quorum", "hybrid", "dag"},
    MaxBlocks <- 1, MaxFaults <- 1, Tasks <- {1, 2}, Straddle <- FALSE, faults <- its_faults

Shuffle == INSTANCE BlockShuffle WITH
    Txns <- ShuffledTxns, MaxLen <- 4, Spreads <- ShuffleSpreads

Observing == INSTANCE Observer WITH
    Rounds <- <<3, 2>>, Groups <- ObservedGroups, MaxPending <- 3,
    QuorumStoreEnabled <- TRUE, MaxSubscriptions <- 1, Stale <- FALSE

Monitors == INSTANCE ChainMonitors WITH
    Deployments <- Deployments, Events <- ChainEvents, Governance <- {TRUE},
    Balances <- {0, 5, 10}, DropAbsolute <- 10, DropBasisPoints <- 6000, Confirmations <- 0,
    Timeout <- 0, MaxFailures <- 2, MaxBlocks <- 3, MaxMints <- 1, MaxClock <- 1,
    MaxFaults <- 1, faults <- its_faults

Watch == INSTANCE Sentinel WITH
    Records <- Whitelists, Files <- {"f", "g"}, Lines <- {{}, {1}, {1, 2}, {2}},
    WINDOW <- 2, MinAlertInterval <- 2, DefaultPriority <- "P2", FailureThreshold <- 2,
    ApiFailureThreshold <- 2, ExplorerPriority <- "P1", Heights <- {1, 2},
    Part <- {"logs", "probe", "explorer"}, MaxClock <- 3, MaxLines <- 3, MaxPolls <- 5

ASSUME ObserverConstants == Observing!ObserverAssumption

GeneratorStarts ==
  /\ comp = "generator" /\ Generator!Init
  /\ pm = 0 /\ pressure = 0 /\ cache = 0 /\ quota = 0 /\ heap = 0 /\ certified = 0
  /\ clearing = 0 /\ subs = 0 /\ task = 0 /\ reader = 0 /\ signed = 0 /\ panicked = 0
  /\ executed = 0 /\ pool = 0 /\ iter = 0 /\ last = 0 /\ inflight = 0 /\ gap = 0
  /\ events = 0 /\ store = 0 /\ next_id = 0 /\ its_cursor = 0 /\ sent = 0 /\ kind = 0
  /\ blocks = 0 /\ committed = 0 /\ told = 0 /\ status = 0 /\ answers = 0 /\ published = 0
  /\ its_faults = 0 /\ alg = 0 /\ input = 0 /\ spread = 0 /\ next = 0 /\ out = 0
  /\ queue = 0 /\ pending = 0 /\ o = 0 /\ notes = 0 /\ callbacks = 0 /\ owed = 0
  /\ subscriptions = 0 /\ enabled = 0 /\ eth = 0 /\ liq = 0 /\ balance = 0 /\ ckpt = 0
  /\ disk = 0 /\ failures = 0 /\ raised = 0 /\ first = 0 /\ part = 0 /\ rules = 0
  /\ stamps = 0 /\ seen = 0 /\ probe = 0 /\ explorer = 0 /\ polls = 0 /\ times = 0
  /\ log = 0

GeneratorSteps ==
  /\ comp = "generator" /\ Generator!Next
  /\ UNCHANGED <<comp, pm, pressure, cache, quota, heap, certified, clearing, subs, task,
                reader, signed, panicked, executed, pool, iter, last, inflight, gap, events,
                store, next_id, its_cursor, sent, kind, blocks, committed, told, status,
                answers, published, its_faults, alg, input, spread, next, out, queue,
                pending, o, notes, callbacks, owed, subscriptions, enabled, eth, liq,
                balance, ckpt, disk, failures, raised, first, part, rules, stamps, seen,
                probe, explorer, polls, times, log, vars>>

ProofsStarts ==
  /\ comp = "proofs" /\ Proofs!Init
  /\ db = 0 /\ gen = 0 /\ coord = 0 /\ expired = 0 /\ net = 0 /\ known = 0 /\ lastTs = 0
  /\ crashes = 0 /\ cache = 0 /\ quota = 0 /\ heap = 0 /\ certified = 0 /\ clearing = 0
  /\ subs = 0 /\ task = 0 /\ reader = 0 /\ signed = 0 /\ panicked = 0 /\ executed = 0
  /\ pool = 0 /\ iter = 0 /\ last = 0 /\ inflight = 0 /\ gap = 0 /\ events = 0 /\ store = 0
  /\ next_id = 0 /\ its_cursor = 0 /\ sent = 0 /\ kind = 0 /\ blocks = 0 /\ committed = 0
  /\ told = 0 /\ status = 0 /\ answers = 0 /\ published = 0 /\ its_faults = 0 /\ alg = 0
  /\ input = 0 /\ spread = 0 /\ next = 0 /\ out = 0 /\ queue = 0 /\ pending = 0 /\ o = 0
  /\ notes = 0 /\ callbacks = 0 /\ owed = 0 /\ subscriptions = 0 /\ enabled = 0 /\ eth = 0
  /\ liq = 0 /\ balance = 0 /\ ckpt = 0 /\ disk = 0 /\ failures = 0 /\ raised = 0
  /\ first = 0 /\ part = 0 /\ rules = 0 /\ stamps = 0 /\ seen = 0 /\ probe = 0
  /\ explorer = 0 /\ polls = 0 /\ times = 0 /\ log = 0

ProofsSteps ==
  /\ comp = "proofs" /\ Proofs!Next
  /\ UNCHANGED <<comp, db, gen, coord, expired, net, known, lastTs, crashes, cache, quota,
                heap, certified, clearing, subs, task, reader, signed, panicked, executed,
                pool, iter, last, inflight, gap, events, store, next_id, its_cursor, sent,
                kind, blocks, committed, told, status, answers, published, its_faults, alg,
                input, spread, next, out, queue, pending, o, notes, callbacks, owed,
                subscriptions, enabled, eth, liq, balance, ckpt, disk, failures, raised,
                first, part, rules, stamps, seen, probe, explorer, polls, times, log, vars>>

BatchCacheStarts ==
  /\ comp = "batches" /\ BatchCache!Init
  /\ now = 0 /\ gen = 0 /\ coord = 0 /\ expired = 0 /\ net = 0 /\ known = 0 /\ lastTs = 0
  /\ pm = 0 /\ pressure = 0 /\ executed = 0 /\ pool = 0 /\ iter = 0 /\ last = 0
  /\ inflight = 0 /\ gap = 0 /\ events = 0 /\ store = 0 /\ next_id = 0 /\ its_cursor = 0
  /\ sent = 0 /\ kind = 0 /\ blocks = 0 /\ committed = 0 /\ told = 0 /\ status = 0
  /\ answers = 0 /\ published = 0 /\ its_faults = 0 /\ alg = 0 /\ input = 0 /\ spread = 0
  /\ next = 0 /\ out = 0 /\ queue = 0 /\ pending = 0 /\ o = 0 /\ notes = 0 /\ callbacks = 0
  /\ owed = 0 /\ subscriptions = 0 /\ enabled = 0 /\ eth = 0 /\ liq = 0 /\ balance = 0
  /\ ckpt = 0 /\ disk = 0 /\ failures = 0 /\ raised = 0 /\ first = 0 /\ part = 0
  /\ rules = 0 /\ stamps = 0 /\ seen = 0 /\ probe = 0 /\ explorer = 0 /\ polls = 0
  /\ times = 0 /\ log = 0

BatchCacheSteps ==
  /\ comp = "batches" /\ BatchCache!Next
  /\ UNCHANGED <<comp, now, gen, coord, expired, net, known, lastTs, pm, pressure, executed,
                pool, iter, last, inflight, gap, events, store, next_id, its_cursor, sent,
                kind, blocks, committed, told, status, answers, published, its_faults, alg,
                input, spread, next, out, queue, pending, o, notes, callbacks, owed,
                subscriptions, enabled, eth, liq, balance, ckpt, disk, failures, raised,
                first, part, rules, stamps, seen, probe, explorer, polls, times, log, vars>>

PoolStarts ==
  /\ comp = "mempool" /\ Pool!Init
  /\ now = 0 /\ db = 0 /\ gen = 0 /\ coord = 0 /\ expired = 0 /\ net = 0 /\ known = 0
  /\ lastTs = 0 /\ crashes = 0 /\ pm = 0 /\ pressure = 0 /\ cache = 0 /\ quota = 0
  /\ heap = 0 /\ certified = 0 /\ clearing = 0 /\ subs = 0 /\ task = 0 /\ reader = 0
  /\ signed = 0 /\ panicked = 0 /\ kind = 0 /\ blocks = 0 /\ committed = 0 /\ told = 0
  /\ status = 0 /\ answers = 0 /\ published = 0 /\ its_faults = 0 /\ alg = 0 /\ input = 0
  /\ spread = 0 /\ next = 0 /\ out = 0 /\ queue = 0 /\ pending = 0 /\ o = 0 /\ notes = 0
  /\ callbacks = 0 /\ owed = 0 /\ subscriptions = 0 /\ enabled = 0 /\ eth = 0 /\ liq = 0
  /\ balance = 0 /\ ckpt = 0 /\ disk = 0 /\ failures = 0 /\ raised = 0 /\ first = 0
  /\ part = 0 /\ rules = 0 /\ stamps = 0 /\ seen = 0 /\ probe = 0 /\ explorer = 0
  /\ polls = 0 /\ times = 0 /\ log = 0

PoolSteps ==
  /\ comp = "mempool" /\ Pool!Next
  /\ UNCHANGED <<comp, now, db, gen, coord, expired, net, known, lastTs, crashes, pm,
                pressure, cache, quota, heap, certified, clearing, subs, task, reader,
                signed, panicked, kind, blocks, committed, told, status, answers, published,
                its_faults, alg, input, spread, next, out, queue, pending, o, notes,
                callbacks, owed, subscriptions, enabled, eth, liq, balance, ckpt, disk,
                failures, raised, first, part, rules, stamps, seen, probe, explorer, polls,
                times, log, vars>>

PayloadStarts ==
  /\ comp = "payload" /\ Payload!Init
  /\ now = 0 /\ db = 0 /\ gen = 0 /\ coord = 0 /\ expired = 0 /\ net = 0 /\ known = 0
  /\ lastTs = 0 /\ crashes = 0 /\ pm = 0 /\ pressure = 0 /\ quota = 0 /\ heap = 0
  /\ certified = 0 /\ clearing = 0 /\ subs = 0 /\ reader = 0 /\ signed = 0 /\ executed = 0
  /\ pool = 0 /\ iter = 0 /\ last = 0 /\ inflight = 0 /\ gap = 0 /\ events = 0 /\ store = 0
  /\ next_id = 0 /\ its_cursor = 0 /\ sent = 0 /\ alg = 0 /\ input = 0 /\ spread = 0
  /\ next = 0 /\ out = 0 /\ queue = 0 /\ pending = 0 /\ o = 0 /\ notes = 0 /\ callbacks = 0
  /\ owed = 0 /\ subscriptions = 0 /\ enabled = 0 /\ eth = 0 /\ liq = 0 /\ balance = 0
  /\ ckpt = 0 /\ disk = 0 /\ failures = 0 /\ raised = 0 /\ first = 0 /\ part = 0
  /\ rules = 0 /\ stamps = 0 /\ seen = 0 /\ probe = 0 /\ explorer = 0 /\ polls = 0
  /\ times = 0 /\ log = 0

PayloadSteps ==
  /\ comp = "payload" /\ Payload!Next
  /\ UNCHANGED <<comp, now, db, gen, coord, expired, net, known, lastTs, crashes, pm,
                pressure, quota, heap, certified, clearing, subs, reader, signed, executed,
                pool, iter, last, inflight, gap, events, store, next_id, its_cursor, sent,
                alg, input, spread, next, out, queue, pending, o, notes, callbacks, owed,
                subscriptions, enabled, eth, liq, balance, ckpt, disk, failures, raised,
                first, part, rules, stamps, seen, probe, explorer, polls, times, log, vars>>

PayloadTasksStarts ==
  /\ comp = "payload_tasks" /\ PayloadTasks!Init
  /\ now = 0 /\ db = 0 /\ gen = 0 /\ coord = 0 /\ expired = 0 /\ net = 0 /\ known = 0
  /\ lastTs = 0 /\ crashes = 0 /\ pm = 0 /\ pressure = 0 /\ quota = 0 /\ heap = 0
  /\ certified = 0 /\ clearing = 0 /\ subs = 0 /\ reader = 0 /\ signed = 0 /\ executed = 0
  /\ pool = 0 /\ iter = 0 /\ last = 0 /\ inflight = 0 /\ gap = 0 /\ events = 0 /\ store = 0
  /\ next_id = 0 /\ its_cursor = 0 /\ sent = 0 /\ alg = 0 /\ input = 0 /\ spread = 0
  /\ next = 0 /\ out = 0 /\ queue = 0 /\ pending = 0 /\ o = 0 /\ notes = 0 /\ callbacks = 0
  /\ owed = 0 /\ subscriptions = 0 /\ enabled = 0 /\ eth = 0 /\ liq = 0 /\ balance = 0
  /\ ckpt = 0 /\ disk = 0 /\ failures = 0 /\ raised = 0 /\ first = 0 /\ part = 0
  /\ rules = 0 /\ stamps = 0 /\ seen = 0 /\ probe = 0 /\ explorer = 0 /\ polls = 0
  /\ times = 0 /\ log = 0

PayloadTasksSteps ==
  /\ comp = "payload_tasks" /\ PayloadTasks!Next
  /\ UNCHANGED <<comp, now, db, gen, coord, expired, net, known, lastTs, crashes, pm,
                pressure, quota, heap, certified, clearing, subs, reader, signed, executed,
                pool, iter, last, inflight, gap, events, store, next_id, its_cursor, sent,
                alg, input, spread, next, out, queue, pending, o, notes, callbacks, owed,
                subscriptions, enabled, eth, liq, balance, ckpt, disk, failures, raised,
                first, part, rules, stamps, seen, probe, explorer, polls, times, log, vars>>

ShuffleStarts ==
  /\ comp = "shuffle" /\ Shuffle!Init
  /\ now = 0 /\ db = 0 /\ gen = 0 /\ coord = 0 /\ expired = 0 /\ net = 0 /\ known = 0
  /\ lastTs = 0 /\ crashes = 0 /\ pm = 0 /\ pressure = 0 /\ cache = 0 /\ quota = 0
  /\ heap = 0 /\ certified = 0 /\ clearing = 0 /\ subs = 0 /\ task = 0 /\ reader = 0
  /\ signed = 0 /\ executed = 0 /\ pool = 0 /\ iter = 0 /\ last = 0 /\ inflight = 0
  /\ gap = 0 /\ events = 0 /\ store = 0 /\ next_id = 0 /\ its_cursor = 0 /\ sent = 0
  /\ kind = 0 /\ blocks = 0 /\ committed = 0 /\ told = 0 /\ status = 0 /\ answers = 0
  /\ published = 0 /\ its_faults = 0 /\ o = 0 /\ notes = 0 /\ callbacks = 0 /\ owed = 0
  /\ subscriptions = 0 /\ enabled = 0 /\ eth = 0 /\ liq = 0 /\ balance = 0 /\ ckpt = 0
  /\ disk = 0 /\ failures = 0 /\ raised = 0 /\ first = 0 /\ part = 0 /\ rules = 0
  /\ stamps = 0 /\ seen = 0 /\ probe = 0 /\ explorer = 0 /\ polls = 0 /\ times = 0
  /\ log = 0

ShuffleSteps ==
  /\ comp = "shuffle" /\ Shuffle!Next
  /\ UNCHANGED <<comp, now, db, gen, coord, expired, net, known, lastTs, crashes, pm,
                pressure, cache, quota, heap, certified, clearing, subs, task, reader,
                signed, executed, pool, iter, last, inflight, gap, events, store, next_id,
                its_cursor, sent, kind, blocks, committed, told, status, answers, published,
                its_faults, o, notes, callbacks, owed, subscriptions, enabled, eth, liq,
                balance, ckpt, disk, failures, raised, first, part, rules, stamps, seen,
                probe, explorer, polls, times, log, vars>>

ObservingStarts ==
  /\ comp = "observer" /\ Observing!Init
  /\ now = 0 /\ gen = 0 /\ coord = 0 /\ expired = 0 /\ net = 0 /\ known = 0 /\ lastTs = 0
  /\ crashes = 0 /\ pm = 0 /\ pressure = 0 /\ cache = 0 /\ quota = 0 /\ heap = 0
  /\ certified = 0 /\ clearing = 0 /\ subs = 0 /\ task = 0 /\ reader = 0 /\ signed = 0
  /\ panicked = 0 /\ executed = 0 /\ pool = 0 /\ iter = 0 /\ last = 0 /\ inflight = 0
  /\ gap = 0 /\ events = 0 /\ store = 0 /\ next_id = 0 /\ its_cursor = 0 /\ sent = 0
  /\ kind = 0 /\ blocks = 0 /\ committed = 0 /\ told = 0 /\ status = 0 /\ answers = 0
  /\ published = 0 /\ its_faults = 0 /\ alg = 0 /\ input = 0 /\ spread = 0 /\ next = 0
  /\ out = 0 /\ queue = 0 /\ pending = 0 /\ enabled = 0 /\ eth = 0 /\ liq = 0
  /\ balance = 0 /\ ckpt = 0 /\ disk = 0 /\ failures = 0 /\ raised = 0 /\ first = 0
  /\ part = 0 /\ rules = 0 /\ stamps = 0 /\ seen = 0 /\ probe = 0 /\ explorer = 0
  /\ polls = 0 /\ times = 0 /\ log = 0

ObservingSteps ==
  /\ comp = "observer" /\ Observing!Next
  /\ UNCHANGED <<comp, now, gen, coord, expired, net, known, lastTs, crashes, pm, pressure,
                cache, quota, heap, certified, clearing, subs, task, reader, signed,
                panicked, executed, pool, iter, last, inflight, gap, events, store, next_id,
                its_cursor, sent, kind, blocks, committed, told, status, answers, published,
                its_faults, alg, input, spread, next, out, queue, pending, enabled, eth,
                liq, balance, ckpt, disk, failures, raised, first, part, rules, stamps,
                seen, probe, explorer, polls, times, log, vars>>

MonitorsStarts ==
  /\ comp = "monitors" /\ Monitors!Init
  /\ db = 0 /\ gen = 0 /\ coord = 0 /\ expired = 0 /\ net = 0 /\ known = 0 /\ lastTs = 0
  /\ crashes = 0 /\ pm = 0 /\ pressure = 0 /\ cache = 0 /\ quota = 0 /\ heap = 0
  /\ certified = 0 /\ clearing = 0 /\ subs = 0 /\ reader = 0 /\ signed = 0 /\ panicked = 0
  /\ executed = 0 /\ pool = 0 /\ iter = 0 /\ last = 0 /\ inflight = 0 /\ gap = 0
  /\ events = 0 /\ store = 0 /\ next_id = 0 /\ its_cursor = 0 /\ sent = 0 /\ kind = 0
  /\ blocks = 0 /\ committed = 0 /\ told = 0 /\ status = 0 /\ answers = 0 /\ published = 0
  /\ alg = 0 /\ input = 0 /\ spread = 0 /\ next = 0 /\ out = 0 /\ queue = 0 /\ pending = 0
  /\ o = 0 /\ notes = 0 /\ callbacks = 0 /\ owed = 0 /\ subscriptions = 0 /\ part = 0
  /\ rules = 0 /\ stamps = 0 /\ seen = 0 /\ probe = 0 /\ explorer = 0 /\ polls = 0
  /\ times = 0 /\ log = 0

MonitorsSteps ==
  /\ comp = "monitors" /\ Monitors!Next
  /\ UNCHANGED <<comp, db, gen, coord, expired, net, known, lastTs, crashes, pm, pressure,
                cache, quota, heap, certified, clearing, subs, reader, signed, panicked,
                executed, pool, iter, last, inflight, gap, events, store, next_id,
                its_cursor, sent, kind, blocks, committed, told, status, answers, published,
                alg, input, spread, next, out, queue, pending, o, notes, callbacks, owed,
                subscriptions, part, rules, stamps, seen, probe, explorer, polls, times,
                log, vars>>

WatchStarts ==
  /\ comp = "sentinel" /\ Watch!Init
  /\ db = 0 /\ gen = 0 /\ coord = 0 /\ expired = 0 /\ net = 0 /\ lastTs = 0 /\ crashes = 0
  /\ pm = 0 /\ pressure = 0 /\ cache = 0 /\ quota = 0 /\ heap = 0 /\ certified = 0
  /\ clearing = 0 /\ subs = 0 /\ task = 0 /\ reader = 0 /\ signed = 0 /\ panicked = 0
  /\ executed = 0 /\ pool = 0 /\ iter = 0 /\ last = 0 /\ inflight = 0 /\ gap = 0
  /\ events = 0 /\ store = 0 /\ next_id = 0 /\ its_cursor = 0 /\ sent = 0 /\ kind = 0
  /\ blocks = 0 /\ committed = 0 /\ told = 0 /\ status = 0 /\ answers = 0 /\ published = 0
  /\ its_faults = 0 /\ alg = 0 /\ input = 0 /\ spread = 0 /\ next = 0 /\ out = 0
  /\ queue = 0 /\ pending = 0 /\ o = 0 /\ notes = 0 /\ callbacks = 0 /\ owed = 0
  /\ subscriptions = 0 /\ enabled = 0 /\ eth = 0 /\ liq = 0 /\ balance = 0 /\ ckpt = 0
  /\ disk = 0 /\ failures = 0 /\ raised = 0 /\ first = 0

WatchSteps ==
  /\ comp = "sentinel" /\ Watch!Next
  /\ UNCHANGED <<comp, db, gen, coord, expired, net, lastTs, crashes, pm, pressure, cache,
                quota, heap, certified, clearing, subs, task, reader, signed, panicked,
                executed, pool, iter, last, inflight, gap, events, store, next_id,
                its_cursor, sent, kind, blocks, committed, told, status, answers, published,
                its_faults, alg, input, spread, next, out, queue, pending, o, notes,
                callbacks, owed, subscriptions, enabled, eth, liq, balance, ckpt, disk,
                failures, raised, first, vars>>

Rest == <<now, db, gen, coord, expired, net, known, lastTs, crashes, pm, pressure, cache, quota, heap,
            certified, clearing, subs, task, reader, signed, panicked, executed, pool, iter,
            last, inflight, gap, events, store, next_id, its_cursor, sent, kind, blocks,
            committed, told, status, answers, published, its_faults, alg, input, spread,
            next, out, queue, pending, o, notes, callbacks, owed, subscriptions, enabled,
            eth, liq, balance, ckpt, disk, failures, raised, first, part, rules, stamps,
            seen, probe, explorer, polls, times, log>>

ServicesAlone ==
  /\ comp = "relayer"
  /\ now = 0 /\ db = 0 /\ gen = 0 /\ coord = 0 /\ expired = 0 /\ net = 0 /\ known = 0
  /\ lastTs = 0 /\ crashes = 0 /\ pm = 0 /\ pressure = 0 /\ cache = 0 /\ quota = 0
  /\ heap = 0 /\ certified = 0 /\ clearing = 0 /\ subs = 0 /\ task = 0 /\ reader = 0
  /\ signed = 0 /\ panicked = 0 /\ executed = 0 /\ pool = 0 /\ iter = 0 /\ last = 0
  /\ inflight = 0 /\ gap = 0 /\ events = 0 /\ store = 0 /\ next_id = 0 /\ its_cursor = 0
  /\ sent = 0 /\ kind = 0 /\ blocks = 0 /\ committed = 0 /\ told = 0 /\ status = 0
  /\ answers = 0 /\ published = 0 /\ its_faults = 0 /\ alg = 0 /\ input = 0 /\ spread = 0
  /\ next = 0 /\ out = 0 /\ queue = 0 /\ pending = 0 /\ o = 0 /\ notes = 0 /\ callbacks = 0
  /\ owed = 0 /\ subscriptions = 0 /\ enabled = 0 /\ eth = 0 /\ liq = 0 /\ balance = 0
  /\ ckpt = 0 /\ disk = 0 /\ failures = 0 /\ raised = 0 /\ first = 0 /\ part = 0
  /\ rules = 0 /\ stamps = 0 /\ seen = 0 /\ probe = 0 /\ explorer = 0 /\ polls = 0
  /\ times = 0 /\ log = 0

ServicesInit ==
  /\ Init
  /\ \/ "generator" \in Comps /\ GeneratorStarts
     \/ "proofs" \in Comps /\ ProofsStarts
     \/ "batches" \in Comps /\ BatchCacheStarts
     \/ "mempool" \in Comps /\ PoolStarts
     \/ "payload" \in Comps /\ PayloadStarts
     \/ "payload_tasks" \in Comps /\ PayloadTasksStarts
     \/ "shuffle" \in Comps /\ ShuffleStarts
     \/ "observer" \in Comps /\ ObservingStarts
     \/ "monitors" \in Comps /\ MonitorsStarts
     \/ "sentinel" \in Comps /\ WatchStarts
     \/ "relayer" \in Comps /\ ServicesAlone

ServicesNext ==
  \/ GeneratorSteps
  \/ ProofsSteps
  \/ BatchCacheSteps
  \/ PoolSteps
  \/ PayloadSteps
  \/ PayloadTasksSteps
  \/ ShuffleSteps
  \/ ObservingSteps
  \/ MonitorsSteps
  \/ WatchSteps
  \/ comp = "relayer" /\ Next /\ UNCHANGED <<comp, Rest>>

ServicesVars == <<comp, Rest, vars>>

ServicesSpec == ServicesInit /\ [][ServicesNext]_ServicesVars

\* only BatchStore has its digests and tasks
Symmetry == Permutations({d1, d2}) \union Permutations({t1, t2})

-----------------------------------------------------------------------------
(* The quorum store keeps its books: batches in progress and transactions   *)
(* held back by the generator, the summaries and the payloads of the proof  *)
(* queue, and the quotas, signatures, readers and expirations of the batch  *)
(* store, while no two tasks persist one digest at a time                   *)
(* (quorum_store/batch_generator.rs, batch_proof_queue, batch_store.rs).    *)
QuorumStoreSound ==
  /\ comp = "generator" => Generator!GeneratorExact
  /\ comp = "proofs" => Proofs!QueueExact /\ Proofs!PayloadSound
  /\ comp = "batches" =>
       /\ BatchCache!QuotaExact /\ BatchCache!SignedStored
       /\ BatchCache!NoReaderForgotten /\ BatchCache!ExpiredIsCached

(* No transaction of the pool is skipped by a broadcast cursor, however it  *)
(* leaves the pool and comes back (mempool.rs, core_mempool/mempool.rs).    *)
NothingSkipped == comp = "mempool" => Pool!NothingSkipped

(* A block's payload is pulled, verified, awaited and executed as what its  *)
(* proposer was given (payload_manager.rs, payload_client, block_preparer). *)
PayloadsSound ==
  /\ comp = "payload" => Payload!PayloadsSound
  /\ comp = "payload_tasks" => PayloadTasks!PayloadsSound

(* The shufflers permute the block, keep each sender's order and spread as  *)
(* far as they can (transaction_shuffler).                                  *)
ShuffleSound == comp = "shuffle" => Shuffle!ShuffleSound

(* A consensus observer executes and commits only what a quorum ordered and *)
(* decided, in order and once (consensus_observer/observer).                *)
ObserverSound == comp = "observer" => Observing!ObserverSound

(* The sentinel's monitors report each thing they watch for and do not      *)
(* repeat themselves (bin/sentinel/src).                                    *)
MonitorsSound ==
  /\ comp = "monitors" => Monitors!NoEventSkipped
  /\ comp = "sentinel" => Watch!SentinelSound

(* Every ownership event at or below the cursor has been reported by the    *)
(* timelock monitor (sentinel/src/chain_monitor/timelock.rs).               *)
OwnershipReported == comp = "monitors" => Monitors!OwnershipReported

=============================================================================
