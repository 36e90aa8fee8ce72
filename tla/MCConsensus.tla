---------------------------- MODULE MCConsensus -----------------------------
(***************************************************************************)
(* The components of the consensus core around safety rules and the commit *)
(* pipeline, each on a small instance: the block store with its recovery,  *)
(* the epoch manager, the forward epoch sync, the round manager, the       *)
(* leader election, and the pipeline to reth with two epoch changes and    *)
(* with the resets of a validator that syncs. They share no state in these *)
(* instances, so a behaviour is one of one component, chosen in the        *)
(* initial state.                                                          *)
(***************************************************************************)
EXTENDS EpochManager, Integers, Sequences, FiniteSets

CONSTANTS
  Nothing,  \* None of GceiPipeline
  Comps,    \* the components to run
  Batching  \* whether validators persist commits in batches of their own

VARIABLES
  comp,   \* the component that runs
  mem, latest, its_todo, its_pipe, callbacks, db, exec, up, crashes, is_validator,
  wait_change_epoch_flag, epoch_proof, panic, path, index, load, pc, call, ordered,
  its_committed, anchor, start, lis, its_faults, node, net, cast, backend, alphaEpoch,
  ledger, events, legacy, cache, lookup, blocks, current_epoch, next_epoch,
  latest_epoch_change_block_number, epoch_change_block_info, epoch_change_ready,
  latest_commit_block_number, latest_finalized_block_number, buffer_state, cons_epoch,
  cons_running, epoch_base, head, task, item, persist_q, persisting, reth_epoch, exec_pc,
  exec_start, vote, commit_pc, commit_epoch, commit_start, taken, exec_q, chain, result_q,
  persisted, notified, failed

\* BlockStore: an epoch of five blocks and a certified fork (the digits are the rounds)
\*
\*   g0 <- b1 <- b2 <- b4 <- b5 <- b6
\*               b2 <- f3
\*
\* QC(f3) commits b2, which only a node that saw f3 learns; for the others b2 is committed
\* in one batch with b4, by QC(b5).
StoreBlocks == {"g0", "b1", "b2", "f3", "b4", "b5", "b6"}
StoreParent ==
  [g0 |-> "g0", b1 |-> "g0", b2 |-> "b1", f3 |-> "b2", b4 |-> "b2", b5 |-> "b4", b6 |-> "b5"]
StoreRound == [g0 |-> 0, b1 |-> 1, b2 |-> 2, f3 |-> 3, b4 |-> 4, b5 |-> 5, b6 |-> 6]

\* RoundManager: three validators of powers 2, 1 and 1, the last one silent
RoundPower == [v \in {"a", "b", "c"} |-> IF v = "a" THEN 2 ELSE 1]

\* LeaderElection: five blocks of two epochs, with failed rounds
Committed(e, r, a, missed, ends, t) ==
  [epoch |-> e, round |-> r, time |-> t, proposer |-> a, failed |-> missed,
   voters |-> {"a", "b"}, ends |-> ends]
CommittedChain ==
  <<Committed(1, 2, "b", {"a"}, FALSE, 1), Committed(1, 3, "a", {}, TRUE, 2),
    Committed(2, 1, "b", {}, FALSE, 3), Committed(2, 3, "a", {"c"}, FALSE, 4),
    Committed(2, 4, "b", {}, FALSE, 5)>>
SeedHash(seed, r) == 17 * r + 31 * seed[1] + 7 * seed[2]

\* a peer that committed through the fork
Store == INSTANCE BlockStore WITH
    Blocks <- StoreBlocks, Genesis <- "g0", Parent <- StoreParent, Round <- StoreRound,
    Certified <- StoreBlocks, PeerViews <- {[hqc |-> "b5", hcc |-> "f3"]}, EpochEnd <- 3,
    max_pruned_blocks_in_mem <- 1, LegacyOverPipeline <- FALSE, max_blocks_to_request <- 3,
    require_block_randomness <- TRUE, MaxCrashes <- 1, todo <- its_todo, pipe <- its_pipe

\* no fork, and a peer further ahead
StoreChain == INSTANCE BlockStore WITH
    Blocks <- StoreBlocks \ {"f3"}, Genesis <- "g0", Parent <- StoreParent,
    Round <- StoreRound, Certified <- StoreBlocks \ {"f3"},
    PeerViews <- {[hqc |-> "b6", hcc |-> "b5"]}, EpochEnd <- 3,
    max_pruned_blocks_in_mem <- 1, LegacyOverPipeline <- FALSE, max_blocks_to_request <- 3,
    require_block_randomness <- TRUE, MaxCrashes <- 1, todo <- its_todo, pipe <- its_pipe

Sync == INSTANCE ForwardEpochSync WITH
    Peers <- {"p", "q"}, BatchSize <- 2, Permits <- 1, NumRetries <- 2, MaxLen <- 3,
    MaxFaults <- 1, committed <- its_committed, faults <- its_faults

\* one fault in two rounds, none in three
Rounds == INSTANCE RoundManager WITH
    Validator <- {"a", "b", "c"}, Silent <- {"c"}, Power <- RoundPower,
    Proposers <- <<"b", "a">>, broadcast_vote <- TRUE, MaxRound <- 2, MaxFaults <- 1,
    faults <- its_faults

RoundsLong == INSTANCE RoundManager WITH
    Validator <- {"a", "b", "c"}, Silent <- {"c"}, Power <- RoundPower,
    Proposers <- <<"b", "a">>, broadcast_vote <- TRUE, MaxRound <- 3, MaxFaults <- 0,
    faults <- its_faults

Election == INSTANCE LeaderElection WITH
    Proposers <- <<"a", "b", "c">>, Nodes <- {"x", "y"}, Looking <- {"x"},
    Chain <- CommittedChain, Exclude <- 2, Window <- 2, Seek <- 3, Threshold <- 10,
    Active <- 100, Inactive <- 10, Failed <- 1, AlphaTime <- 2, AlphaEpochs <- {1, 3},
    Refresh <- 2, CacheWindow <- 1, Batching <- Batching, Hash <- SeedHash,
    committed <- its_committed

\* three epochs; the resets of a node that syncs
Changes == INSTANCE GceiPipeline WITH
    Epochs <- 0 .. 3, Numbers <- 0 .. 2, Ids <- (0 .. 3) \X (0 .. 2), None <- Nothing,
    max_block_size <- 3, committed <- its_committed

Resets == INSTANCE GceiPipeline WITH
    Epochs <- 0 .. 2, Numbers <- 0 .. 2, Ids <- (0 .. 2) \X (0 .. 2), None <- Nothing,
    max_block_size <- 3, committed <- its_committed

ASSUME ConsensusConstants == Rounds!ConfigAssumption

StoreStarts ==
  /\ comp = "store" /\ Store!Init
  /\ path = 0 /\ index = 0 /\ load = 0 /\ pc = 0 /\ call = 0 /\ ordered = 0
  /\ its_committed = 0 /\ anchor = 0 /\ start = 0 /\ lis = 0 /\ its_faults = 0 /\ node = 0
  /\ net = 0 /\ cast = 0 /\ backend = 0 /\ alphaEpoch = 0 /\ ledger = 0 /\ events = 0
  /\ legacy = 0 /\ cache = 0 /\ lookup = 0 /\ blocks = 0 /\ current_epoch = 0
  /\ next_epoch = 0 /\ latest_epoch_change_block_number = 0 /\ epoch_change_block_info = 0
  /\ epoch_change_ready = 0 /\ latest_commit_block_number = 0
  /\ latest_finalized_block_number = 0 /\ buffer_state = 0 /\ cons_epoch = 0
  /\ cons_running = 0 /\ epoch_base = 0 /\ head = 0 /\ task = 0 /\ item = 0
  /\ persist_q = 0 /\ persisting = 0 /\ reth_epoch = 0 /\ exec_pc = 0 /\ exec_start = 0
  /\ vote = 0 /\ commit_pc = 0 /\ commit_epoch = 0 /\ commit_start = 0 /\ taken = 0
  /\ exec_q = 0 /\ chain = 0 /\ result_q = 0 /\ persisted = 0 /\ notified = 0 /\ failed = 0

StoreSteps ==
  /\ comp = "store" /\ Store!Next
  /\ UNCHANGED <<comp, path, index, load, pc, call, ordered, its_committed, anchor, start,
                lis, its_faults, node, net, cast, backend, alphaEpoch, ledger, events,
                legacy, cache, lookup, blocks, current_epoch, next_epoch,
                latest_epoch_change_block_number, epoch_change_block_info,
                epoch_change_ready, latest_commit_block_number,
                latest_finalized_block_number, buffer_state, cons_epoch, cons_running,
                epoch_base, head, task, item, persist_q, persisting, reth_epoch, exec_pc,
                exec_start, vote, commit_pc, commit_epoch, commit_start, taken, exec_q,
                chain, result_q, persisted, notified, failed, vars>>

StoreChainStarts ==
  /\ comp = "store_chain" /\ StoreChain!Init
  /\ path = 0 /\ index = 0 /\ load = 0 /\ pc = 0 /\ call = 0 /\ ordered = 0
  /\ its_committed = 0 /\ anchor = 0 /\ start = 0 /\ lis = 0 /\ its_faults = 0 /\ node = 0
  /\ net = 0 /\ cast = 0 /\ backend = 0 /\ alphaEpoch = 0 /\ ledger = 0 /\ events = 0
  /\ legacy = 0 /\ cache = 0 /\ lookup = 0 /\ blocks = 0 /\ current_epoch = 0
  /\ next_epoch = 0 /\ latest_epoch_change_block_number = 0 /\ epoch_change_block_info = 0
  /\ epoch_change_ready = 0 /\ latest_commit_block_number = 0
  /\ latest_finalized_block_number = 0 /\ buffer_state = 0 /\ cons_epoch = 0
  /\ cons_running = 0 /\ epoch_base = 0 /\ head = 0 /\ task = 0 /\ item = 0
  /\ persist_q = 0 /\ persisting = 0 /\ reth_epoch = 0 /\ exec_pc = 0 /\ exec_start = 0
  /\ vote = 0 /\ commit_pc = 0 /\ commit_epoch = 0 /\ commit_start = 0 /\ taken = 0
  /\ exec_q = 0 /\ chain = 0 /\ result_q = 0 /\ persisted = 0 /\ notified = 0 /\ failed = 0

StoreChainSteps ==
  /\ comp = "store_chain" /\ StoreChain!Next
  /\ UNCHANGED <<comp, path, index, load, pc, call, ordered, its_committed, anchor, start,
                lis, its_faults, node, net, cast, backend, alphaEpoch, ledger, events,
                legacy, cache, lookup, blocks, current_epoch, next_epoch,
                latest_epoch_change_block_number, epoch_change_block_info,
                epoch_change_ready, latest_commit_block_number,
                latest_finalized_block_number, buffer_state, cons_epoch, cons_running,
                epoch_base, head, task, item, persist_q, persisting, reth_epoch, exec_pc,
                exec_start, vote, commit_pc, commit_epoch, commit_start, taken, exec_q,
                chain, result_q, persisted, notified, failed, vars>>

SyncStarts ==
  /\ comp = "sync" /\ Sync!Init
  /\ mem = 0 /\ latest = 0 /\ its_todo = 0 /\ its_pipe = 0 /\ callbacks = 0 /\ exec = 0
  /\ up = 0 /\ crashes = 0 /\ is_validator = 0 /\ wait_change_epoch_flag = 0
  /\ epoch_proof = 0 /\ panic = 0 /\ node = 0 /\ net = 0 /\ cast = 0 /\ backend = 0
  /\ alphaEpoch = 0 /\ ledger = 0 /\ events = 0 /\ legacy = 0 /\ cache = 0 /\ lookup = 0
  /\ blocks = 0 /\ current_epoch = 0 /\ next_epoch = 0
  /\ latest_epoch_change_block_number = 0 /\ epoch_change_block_info = 0
  /\ epoch_change_ready = 0 /\ latest_commit_block_number = 0
  /\ latest_finalized_block_number = 0 /\ buffer_state = 0 /\ cons_epoch = 0
  /\ cons_running = 0 /\ epoch_base = 0 /\ head = 0 /\ task = 0 /\ item = 0
  /\ persist_q = 0 /\ persisting = 0 /\ reth_epoch = 0 /\ exec_pc = 0 /\ exec_start = 0
  /\ vote = 0 /\ commit_pc = 0 /\ commit_epoch = 0 /\ commit_start = 0 /\ taken = 0
  /\ exec_q = 0 /\ chain = 0 /\ result_q = 0 /\ persisted = 0 /\ notified = 0 /\ failed = 0

SyncSteps ==
  /\ comp = "sync" /\ Sync!Next
  /\ UNCHANGED <<comp, mem, latest, its_todo, its_pipe, callbacks, exec, up, crashes,
                is_validator, wait_change_epoch_flag, epoch_proof, panic, node, net, cast,
                backend, alphaEpoch, ledger, events, legacy, cache, lookup, blocks,
                current_epoch, next_epoch, latest_epoch_change_block_number,
                epoch_change_block_info, epoch_change_ready, latest_commit_block_number,
                latest_finalized_block_number, buffer_state, cons_epoch, cons_running,
                epoch_base, head, task, item, persist_q, persisting, reth_epoch, exec_pc,
                exec_start, vote, commit_pc, commit_epoch, commit_start, taken, exec_q,
                chain, result_q, persisted, notified, failed, vars>>

RoundsStarts ==
  /\ comp = "rounds" /\ Rounds!Init
  /\ mem = 0 /\ latest = 0 /\ its_todo = 0 /\ its_pipe = 0 /\ callbacks = 0 /\ db = 0
  /\ exec = 0 /\ up = 0 /\ crashes = 0 /\ is_validator = 0 /\ wait_change_epoch_flag = 0
  /\ epoch_proof = 0 /\ panic = 0 /\ path = 0 /\ index = 0 /\ load = 0 /\ pc = 0
  /\ call = 0 /\ ordered = 0 /\ its_committed = 0 /\ anchor = 0 /\ start = 0 /\ lis = 0
  /\ backend = 0 /\ alphaEpoch = 0 /\ ledger = 0 /\ events = 0 /\ legacy = 0 /\ cache = 0
  /\ lookup = 0 /\ blocks = 0 /\ current_epoch = 0 /\ next_epoch = 0
  /\ latest_epoch_change_block_number = 0 /\ epoch_change_block_info = 0
  /\ epoch_change_ready = 0 /\ latest_commit_block_number = 0
  /\ latest_finalized_block_number = 0 /\ buffer_state = 0 /\ cons_epoch = 0
  /\ cons_running = 0 /\ epoch_base = 0 /\ head = 0 /\ task = 0 /\ item = 0
  /\ persist_q = 0 /\ persisting = 0 /\ reth_epoch = 0 /\ exec_pc = 0 /\ exec_start = 0
  /\ vote = 0 /\ commit_pc = 0 /\ commit_epoch = 0 /\ commit_start = 0 /\ taken = 0
  /\ exec_q = 0 /\ chain = 0 /\ result_q = 0 /\ persisted = 0 /\ notified = 0 /\ failed = 0

RoundsSteps ==
  /\ comp = "rounds" /\ Rounds!Next
  /\ UNCHANGED <<comp, mem, latest, its_todo, its_pipe, callbacks, db, exec, up, crashes,
                is_validator, wait_change_epoch_flag, epoch_proof, panic, path, index, load,
                pc, call, ordered, its_committed, anchor, start, lis, backend, alphaEpoch,
                ledger, events, legacy, cache, lookup, blocks, current_epoch, next_epoch,
                latest_epoch_change_block_number, epoch_change_block_info,
                epoch_change_ready, latest_commit_block_number,
                latest_finalized_block_number, buffer_state, cons_epoch, cons_running,
                epoch_base, head, task, item, persist_q, persisting, reth_epoch, exec_pc,
                exec_start, vote, commit_pc, commit_epoch, commit_start, taken, exec_q,
                chain, result_q, persisted, notified, failed, vars>>

RoundsLongStarts ==
  /\ comp = "rounds_long" /\ RoundsLong!Init
  /\ mem = 0 /\ latest = 0 /\ its_todo = 0 /\ its_pipe = 0 /\ callbacks = 0 /\ db = 0
  /\ exec = 0 /\ up = 0 /\ crashes = 0 /\ is_validator = 0 /\ wait_change_epoch_flag = 0
  /\ epoch_proof = 0 /\ panic = 0 /\ path = 0 /\ index = 0 /\ load = 0 /\ pc = 0
  /\ call = 0 /\ ordered = 0 /\ its_committed = 0 /\ anchor = 0 /\ start = 0 /\ lis = 0
  /\ backend = 0 /\ alphaEpoch = 0 /\ ledger = 0 /\ events = 0 /\ legacy = 0 /\ cache = 0
  /\ lookup = 0 /\ blocks = 0 /\ current_epoch = 0 /\ next_epoch = 0
  /\ latest_epoch_change_block_number = 0 /\ epoch_change_block_info = 0
  /\ epoch_change_ready = 0 /\ latest_commit_block_number = 0
  /\ latest_finalized_block_number = 0 /\ buffer_state = 0 /\ cons_epoch = 0
  /\ cons_running = 0 /\ epoch_base = 0 /\ head = 0 /\ task = 0 /\ item = 0
  /\ persist_q = 0 /\ persisting = 0 /\ reth_epoch = 0 /\ exec_pc = 0 /\ exec_start = 0
  /\ vote = 0 /\ commit_pc = 0 /\ commit_epoch = 0 /\ commit_start = 0 /\ taken = 0
  /\ exec_q = 0 /\ chain = 0 /\ result_q = 0 /\ persisted = 0 /\ notified = 0 /\ failed = 0

RoundsLongSteps ==
  /\ comp = "rounds_long" /\ RoundsLong!Next
  /\ UNCHANGED <<comp, mem, latest, its_todo, its_pipe, callbacks, db, exec, up, crashes,
                is_validator, wait_change_epoch_flag, epoch_proof, panic, path, index, load,
                pc, call, ordered, its_committed, anchor, start, lis, backend, alphaEpoch,
                ledger, events, legacy, cache, lookup, blocks, current_epoch, next_epoch,
                latest_epoch_change_block_number, epoch_change_block_info,
                epoch_change_ready, latest_commit_block_number,
                latest_finalized_block_number, buffer_state, cons_epoch, cons_running,
                epoch_base, head, task, item, persist_q, persisting, reth_epoch, exec_pc,
                exec_start, vote, commit_pc, commit_epoch, commit_start, taken, exec_q,
                chain, result_q, persisted, notified, failed, vars>>

ElectionStarts ==
  /\ comp = "election" /\ Election!Init
  /\ mem = 0 /\ latest = 0 /\ its_todo = 0 /\ its_pipe = 0 /\ callbacks = 0 /\ db = 0
  /\ exec = 0 /\ up = 0 /\ crashes = 0 /\ is_validator = 0 /\ wait_change_epoch_flag = 0
  /\ epoch_proof = 0 /\ panic = 0 /\ path = 0 /\ index = 0 /\ load = 0 /\ pc = 0
  /\ call = 0 /\ ordered = 0 /\ anchor = 0 /\ start = 0 /\ lis = 0 /\ its_faults = 0
  /\ node = 0 /\ net = 0 /\ cast = 0 /\ blocks = 0 /\ current_epoch = 0 /\ next_epoch = 0
  /\ latest_epoch_change_block_number = 0 /\ epoch_change_block_info = 0
  /\ epoch_change_ready = 0 /\ latest_commit_block_number = 0
  /\ latest_finalized_block_number = 0 /\ buffer_state = 0 /\ cons_epoch = 0
  /\ cons_running = 0 /\ epoch_base = 0 /\ head = 0 /\ task = 0 /\ item = 0
  /\ persist_q = 0 /\ persisting = 0 /\ reth_epoch = 0 /\ exec_pc = 0 /\ exec_start = 0
  /\ vote = 0 /\ commit_pc = 0 /\ commit_epoch = 0 /\ commit_start = 0 /\ taken = 0
  /\ exec_q = 0 /\ chain = 0 /\ result_q = 0 /\ persisted = 0 /\ notified = 0 /\ failed = 0

ElectionSteps ==
  /\ comp = "election" /\ Election!Next
  /\ UNCHANGED <<comp, mem, latest, its_todo, its_pipe, callbacks, db, exec, up, crashes,
                is_validator, wait_change_epoch_flag, epoch_proof, panic, path, index, load,
                pc, call, ordered, anchor, start, lis, its_faults, node, net, cast, blocks,
                current_epoch, next_epoch, latest_epoch_change_block_number,
                epoch_change_block_info, epoch_change_ready, latest_commit_block_number,
                latest_finalized_block_number, buffer_state, cons_epoch, cons_running,
                epoch_base, head, task, item, persist_q, persisting, reth_epoch, exec_pc,
                exec_start, vote, commit_pc, commit_epoch, commit_start, taken, exec_q,
                chain, result_q, persisted, notified, failed, vars>>

ChangesStarts ==
  /\ comp = "changes" /\ Changes!Init
  /\ mem = 0 /\ latest = 0 /\ its_todo = 0 /\ its_pipe = 0 /\ callbacks = 0 /\ db = 0
  /\ exec = 0 /\ up = 0 /\ crashes = 0 /\ is_validator = 0 /\ wait_change_epoch_flag = 0
  /\ panic = 0 /\ path = 0 /\ index = 0 /\ load = 0 /\ pc = 0 /\ call = 0 /\ anchor = 0
  /\ start = 0 /\ lis = 0 /\ its_faults = 0 /\ node = 0 /\ net = 0 /\ cast = 0
  /\ backend = 0 /\ alphaEpoch = 0 /\ ledger = 0 /\ events = 0 /\ legacy = 0 /\ cache = 0
  /\ lookup = 0

ChangesSteps ==
  /\ comp = "changes" /\ Changes!Next
  /\ UNCHANGED <<comp, mem, latest, its_todo, its_pipe, callbacks, db, exec, up, crashes,
                is_validator, wait_change_epoch_flag, panic, path, index, load, pc, call,
                anchor, start, lis, its_faults, node, net, cast, backend, alphaEpoch,
                ledger, events, legacy, cache, lookup, vars>>

ResetsStarts ==
  /\ comp = "resets" /\ Resets!Init
  /\ mem = 0 /\ latest = 0 /\ its_todo = 0 /\ its_pipe = 0 /\ callbacks = 0 /\ db = 0
  /\ exec = 0 /\ up = 0 /\ crashes = 0 /\ is_validator = 0 /\ wait_change_epoch_flag = 0
  /\ panic = 0 /\ path = 0 /\ index = 0 /\ load = 0 /\ pc = 0 /\ call = 0 /\ anchor = 0
  /\ start = 0 /\ lis = 0 /\ its_faults = 0 /\ node = 0 /\ net = 0 /\ cast = 0
  /\ backend = 0 /\ alphaEpoch = 0 /\ ledger = 0 /\ events = 0 /\ legacy = 0 /\ cache = 0
  /\ lookup = 0

ResetsSteps ==
  /\ comp = "resets" /\ Resets!SyncNext
  /\ UNCHANGED <<comp, mem, latest, its_todo, its_pipe, callbacks, db, exec, up, crashes,
                is_validator, wait_change_epoch_flag, panic, path, index, load, pc, call,
                anchor, start, lis, its_faults, node, net, cast, backend, alphaEpoch,
                ledger, events, legacy, cache, lookup, vars>>

Rest == <<mem, latest, its_todo, its_pipe, callbacks, db, exec, up, crashes, is_validator,
            wait_change_epoch_flag, epoch_proof, panic, path, index, load, pc, call,
            ordered, its_committed, anchor, start, lis, its_faults, node, net, cast,
            backend, alphaEpoch, ledger, events, legacy, cache, lookup, blocks,
            current_epoch, next_epoch, latest_epoch_change_block_number,
            epoch_change_block_info, epoch_change_ready, latest_commit_block_number,
            latest_finalized_block_number, buffer_state, cons_epoch, cons_running,
            epoch_base, head, task, item, persist_q, persisting, reth_epoch, exec_pc,
            exec_start, vote, commit_pc, commit_epoch, commit_start, taken, exec_q, chain,
            result_q, persisted, notified, failed>>

ConsensusAlone ==
  /\ comp = "epochs"
  /\ mem = 0 /\ latest = 0 /\ its_todo = 0 /\ its_pipe = 0 /\ callbacks = 0 /\ db = 0
  /\ exec = 0 /\ up = 0 /\ crashes = 0 /\ is_validator = 0 /\ wait_change_epoch_flag = 0
  /\ epoch_proof = 0 /\ panic = 0 /\ path = 0 /\ index = 0 /\ load = 0 /\ pc = 0
  /\ call = 0 /\ ordered = 0 /\ its_committed = 0 /\ anchor = 0 /\ start = 0 /\ lis = 0
  /\ its_faults = 0 /\ node = 0 /\ net = 0 /\ cast = 0 /\ backend = 0 /\ alphaEpoch = 0
  /\ ledger = 0 /\ events = 0 /\ legacy = 0 /\ cache = 0 /\ lookup = 0 /\ blocks = 0
  /\ current_epoch = 0 /\ next_epoch = 0 /\ latest_epoch_change_block_number = 0
  /\ epoch_change_block_info = 0 /\ epoch_change_ready = 0
  /\ latest_commit_block_number = 0 /\ latest_finalized_block_number = 0
  /\ buffer_state = 0 /\ cons_epoch = 0 /\ cons_running = 0 /\ epoch_base = 0 /\ head = 0
  /\ task = 0 /\ item = 0 /\ persist_q = 0 /\ persisting = 0 /\ reth_epoch = 0
  /\ exec_pc = 0 /\ exec_start = 0 /\ vote = 0 /\ commit_pc = 0 /\ commit_epoch = 0
  /\ commit_start = 0 /\ taken = 0 /\ exec_q = 0 /\ chain = 0 /\ result_q = 0
  /\ persisted = 0 /\ notified = 0 /\ failed = 0

ConsensusInit ==
  /\ Init
  /\ \/ "store" \in Comps /\ StoreStarts
     \/ "store_chain" \in Comps /\ StoreChainStarts
     \/ "sync" \in Comps /\ SyncStarts
     \/ "rounds" \in Comps /\ RoundsStarts
     \/ "rounds_long" \in Comps /\ RoundsLongStarts
     \/ "election" \in Comps /\ ElectionStarts
     \/ "changes" \in Comps /\ ChangesStarts
     \/ "resets" \in Comps /\ ResetsStarts
     \/ "epochs" \in Comps /\ ConsensusAlone

ConsensusNext ==
  \/ StoreSteps
  \/ StoreChainSteps
  \/ SyncSteps
  \/ RoundsSteps
  \/ RoundsLongSteps
  \/ ElectionSteps
  \/ ChangesSteps
  \/ ResetsSteps
  \/ comp = "epochs" /\ Next /\ UNCHANGED <<comp, Rest>>

ConsensusVars == <<comp, Rest, vars>>

ConsensusSpec == ConsensusInit /\ [][ConsensusNext]_ConsensusVars

-----------------------------------------------------------------------------
(* The block store keeps one chain: no assertion of the commit path fails,  *)
(* numbers follow parents, what it sends to the pipeline is contiguous; an  *)
(* epoch's proof is sent only after its last block is executed, and the     *)
(* ledger info a restart starts from is one it can recover from             *)
(* (block_storage/block_store.rs, sync_manager.rs, execution_client.rs,     *)
(* persistent_liveness_storage.rs).                                         *)
StoreSound ==
  /\ comp = "store" =>
       /\ Store!NoPanic /\ Store!OneChain /\ Store!PipeContiguous
       /\ Store!EpochProofAfterExecution /\ Store!LedgerInfoRecoverable
  /\ comp = "store_chain" =>
       /\ StoreChain!NoPanic /\ StoreChain!OneChain /\ StoreChain!PipeContiguous
       /\ StoreChain!EpochProofAfterExecution /\ StoreChain!LedgerInfoRecoverable

(* A forward sync through an epoch hands over exactly the certified path    *)
(* (block_storage/forward_epoch_sync.rs).                                   *)
SyncSound == comp = "sync" => Sync!SyncSound

(* A validator is in a round only with a certificate of the round before,   *)
(* and every certificate it holds is backed by votes (round_manager.rs,     *)
(* round_state.rs, pending_votes.rs).                                       *)
RoundsSound ==
  /\ comp = "rounds" => Rounds!RoundJustified /\ Rounds!CertificatesReal
  /\ comp = "rounds_long" => RoundsLong!RoundJustified /\ RoundsLong!CertificatesReal

(* Nobody waits in a round for ever: a timeout that is enabled, or a        *)
(* message in flight, gets the honest validators out of it                  *)
(* (round_manager.rs process_local_timeout).                                *)
NoRoundStuck ==
  /\ comp = "rounds" => Rounds!NoRoundStuck
  /\ comp = "rounds_long" => RoundsLong!NoRoundStuck

(* Two validators that elect the proposer of one round agree, whichever     *)
(* commits they have seen and cached (liveness/leader_reputation.rs).       *)
ElectionSound == comp = "election" => Election!ElectionSound

(* Over several epoch changes, and with the resets of a validator that      *)
(* syncs, no loop of reth_cli.rs fails and commit_ledger only on a suffix   *)
(* block scheduled late, the commit loop is not left behind in an epoch     *)
(* that is over, and an epoch change of the buffer is consumed after        *)
(* release_inflight_blocks let go of the old epoch (reth_cli.rs,            *)
(* liquent_state_computer.rs, block_buffer_manager.rs).                     *)
PipelineSound ==
  /\ comp = "changes" =>
       /\ Changes!NoLoopFails /\ Changes!CommitLoopNotLeftBehind
       /\ Changes!ChangeReleasedThenConsumed
  /\ comp = "resets" => Resets!NoLoopFails /\ Resets!ChangeReleasedThenConsumed

Pipeline == comp \in {"changes", "resets"}

Ledger == INSTANCE ExecutionLedger WITH
    executed <- chain, committed <- its_committed, GenesisId <- <<0, 0>>

(* Reth executes one chain across epoch changes and resets, and commits a   *)
(* growing prefix of it (see GceiPipeline and ExecutionLedger).             *)
ImplementsLedger ==
  /\ Pipeline => Ledger!Init
  /\ [][Pipeline => Ledger!Next]_<<chain, its_committed>>

(* The proposers of a round two validators elect are the same one           *)
(* (liveness/leader_reputation.rs, consensusdb/mod.rs).                     *)
ProposersAgree == comp = "election" => Election!ProposersAgree

(* After a crash the last block executed in an epoch has the ledger info    *)
(* the recovery looks for (persistent_liveness_storage.rs).                 *)
EpochRootRecoverable == comp = "store" => Store!EpochRootRecoverable

=============================================================================
