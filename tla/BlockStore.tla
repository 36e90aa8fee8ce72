----------------------------- MODULE BlockStore -----------------------------
(***************************************************************************)
(* Block storage of one node: the in-memory BlockTree, the BlockStore over *)
(* it, ConsensusDB, recovery after a crash, and the block sync that brings *)
(* a lagging node forward.                                                 *)
(*                                                                         *)
(* The world is one epoch of a block tree fixed by the constants: consensus*)
(* (SafetyRules) decides which of its blocks are certified; here a QC is   *)
(* named by the block it certifies and commits that block's parent when    *)
(* their rounds are consecutive (the 2-chain rule).  Certificates arrive   *)
(* in any order, late, or never; a block becomes durable through several   *)
(* separate writes, and the node may crash between any two of them.        *)
(*                                                                         *)
(* A handler that awaits is a list of steps in `todo`: the round manager's *)
(* task takes the first one, while the pipeline's commits and the commit   *)
(* callbacks interleave with it.                                           *)
(***************************************************************************)
EXTENDS Integers, SequencesExt

CONSTANTS
  Blocks, Genesis,            \* the blocks of the epoch and the root they extend
  Parent, Round,              \* functions on Blocks
  Certified,                  \* blocks some quorum voted for
  EpochEnd,                   \* number of the epoch-change block, or past all numbers
  PeerViews,                  \* sync infos of peers: [hqc, hcc : certified blocks]
  max_pruned_blocks_in_mem,
  max_blocks_to_request,      \* blocks per retrieval request
  require_block_randomness,
  LegacyOverPipeline,         \* BOOLEAN: legacy epoch sync with commits still in flight
  MaxCrashes

VARIABLES
  mem,          \* the BlockTree (lost in a crash)
  latest,       \* LedgerMetadataDb::latest_ledger_info: the block it commits
  todo,         \* remaining steps of the round manager's task
  pipe,         \* batches given to finalize_order, oldest first
  callbacks,    \* commit callbacks queued behind the async notifier
  db,           \* ConsensusDB
  exec,         \* number of the last block execution has persisted
  up, crashes, is_validator,
  wait_change_epoch_flag,  \* RoundManager: the epoch sync has returned Ok
  epoch_proof,  \* the EpochChangeProof sent to the own EpochManager
  panic         \* an assert, expect or unwrap has failed

pipeVars == <<pipe, callbacks>>
nodeVars == <<up, crashes, is_validator, wait_change_epoch_flag>>
vars == <<mem, latest, todo, pipeVars, db, exec, nodeVars, epoch_proof, panic>>

None == "none"

-----------------------------------------------------------------------------
(* The block tree of the epoch.                                            *)

chain[b \in Blocks] == IF b = Genesis THEN <<>> ELSE Append(chain[Parent[b]], b)

Ancestors(b) == ToSet(chain[b]) \cup {Genesis}

Height(b) == Len(chain[b])

\* commit_info of the QC certifying k
Commit(k) ==
    IF k = Genesis THEN Genesis
    ELSE IF Round[k] = Round[Parent[k]] + 1 THEN Parent[k] ELSE None

RoundOf(b) == IF b = None THEN 0 ELSE Round[b]

\* QuorumCert::into_wrapped_ledger_info
Cert(k) == [cert |-> k, commit |-> Commit(k)]

\* LedgerMetadataDb::put_ledger_info: an epoch-ending LI, of the epoch-change block
\* or of a suffix block after it, is keyed by epoch_block_info
LIKey(b) == IF Height(b) >= EpochEnd THEN EpochEnd ELSE Height(b)

EndsEpoch(b) == Height(b) >= EpochEnd

PutLIs(li, bs) ==
    [n \in DOMAIN li \cup {LIKey(b) : b \in bs} |->
        LET new == {b \in bs : LIKey(b) = n} IN
        IF new = {} THEN li[n] ELSE CHOOSE b \in new : \A c \in new : Height(c) <= Height(b)]

\* get_latest_ledger_info_in_db_impl: the LI with the highest key
LatestInDb(li) ==
    IF DOMAIN li = {} THEN Genesis ELSE li[Max(DOMAIN li)]

-----------------------------------------------------------------------------
(* BlockTree.                                                              *)

NewTree(root, number, ordered_cert) ==
    [blocks |-> {root}, qcs |-> {root}, num |-> [b \in {root} |-> number], rand |-> {},
     oroot |-> root, croot |-> root, hc |-> root,
     hoc |-> ordered_cert, hcc |-> ordered_cert, pruned |-> <<>>]

HasNumber(m, b) == b \in DOMAIN m.num

CanInsert(m, b) == b \in m.blocks \/ Parent[b] \in m.blocks \/ Parent[b] = Genesis

\* insert_block of a block carrying the numbers and randomness in nums and rands
TreeInsert(m, b, nums, rands) ==
    [m EXCEPT !.blocks = @ \cup {b},
              !.num = IF b \in m.blocks \/ b \notin DOMAIN nums THEN @
                      ELSE [c \in DOMAIN @ \cup {b} |-> IF c = b THEN nums[b] ELSE @[c]],
              !.rand = IF b \in DOMAIN nums /\ nums[b] \in rands THEN @ \cup {b} ELSE @]

insert_quorum_cert(m, k) ==
    [m EXCEPT !.qcs = @ \cup {k},
              !.hc = IF Round[k] > Round[@] THEN k ELSE @,
              !.hoc = IF RoundOf(@.commit) < RoundOf(Commit(k)) THEN Cert(k) ELSE @]

insert_ordered_cert(m, c) ==
    [m EXCEPT !.hoc = IF RoundOf(c.commit) > RoundOf(@.commit) THEN c ELSE @]

\* path_from_root_to_block: <<>> also stands for "not a successor of the root"
PathFrom(m, root, b) ==
    LET path == SelectSeq(chain[b], LAMBDA c : Round[c] > Round[root])
        stop == IF path = <<>> THEN b ELSE Parent[Head(path)]
    IN  IF ToSet(path) \cup {stop} \subseteq m.blocks /\ stop = root THEN path ELSE <<>>

find_blocks_to_prune(m, next_root) ==
    IF next_root \notin m.blocks \/ Round[next_root] <= Round[m.croot] THEN <<>>
    ELSE SetToSortSeq({b \in m.blocks : m.croot \in Ancestors(b) /\ next_root \notin Ancestors(b)},
                      LAMBDA a, b : Round[a] < Round[b])

process_pruned_blocks(m, newly_pruned) ==
    LET all    == m.pruned \o newly_pruned
        excess == IF Len(all) > max_pruned_blocks_in_mem
                  THEN Len(all) - max_pruned_blocks_in_mem ELSE 0
        gone   == ToSet(SubSeq(all, 1, excess))
    IN  [m EXCEPT !.pruned = SubSeq(all, excess + 1, Len(all)),
                  !.blocks = @ \ gone, !.qcs = @ \ gone, !.rand = @ \ gone,
                  !.num = [b \in DOMAIN @ \ gone |-> @[b]]]

\* mutant: no check for a stale commit
commit_callback_Stale(m, batch, proof) ==
    LET last   == batch[Len(batch)]
        pruned == process_pruned_blocks(m, SetToSortSeq(
                    {b \in m.blocks : m.croot \in Ancestors(b) /\ last \notin Ancestors(b)},
                    LAMBDA a, b : Round[a] < Round[b]))
    IN  [pruned EXCEPT !.hcc = proof, !.croot = proof.commit]

\* commit_callback(blocks_to_commit, finality_proof): a stale one is skipped
commit_callback(m, batch, proof) ==
    LET last   == batch[Len(batch)]
        pruned == process_pruned_blocks(m, find_blocks_to_prune(m, last))
    IN  IF Round[last] <= Round[m.croot] THEN m
        ELSE IF RoundOf(proof.commit) > RoundOf(m.hcc.commit)
             THEN [pruned EXCEPT !.hcc = proof, !.croot = proof.commit]
             ELSE pruned

-----------------------------------------------------------------------------
(* RecoveryData: what storage.start(epoch) reads back.                     *)

\* get_data has a root iff a block of the epoch is numbered by execution's height
RootCandidates == {b \in DOMAIN db.num : db.num[b] = exec}
RecoveryRoot == IF exec = 0 THEN Genesis ELSE CHOOSE b \in RootCandidates : TRUE
CanRecover == exec = 0 \/ \E b \in RootCandidates : b \in db.blocks \cap db.qcs

\* the first QC that commits the root, or the placeholder commit cert
RootCert(root) ==
    LET committing == {k \in db.qcs : Commit(k) = root /\ Round[k] >= Round[root]}
    IN  IF root = Genesis \/ committing = {} THEN [cert |-> root, commit |-> root]
        ELSE Cert(CHOOSE k \in committing : TRUE)

\* BlockStore::build: blocks and QCs at or below the root, and those whose parent
\* is missing, are skipped
build(root, loaded, qcs, nums, rands) ==
    LET above(b) == {c \in ToSet(chain[b]) : Round[c] > Round[root]}
        joins(b) == \E c \in above(b) : Parent[c] \in {root, Genesis}
        kept     == {b \in loaded : Round[b] > Round[root] /\ above(b) \subseteq loaded /\ joins(b)}
        insert(m, b) == TreeInsert(m, b, nums, rands)
        tree     == FoldSeq(LAMBDA b, m : insert(m, b), NewTree(root, exec, RootCert(root)),
                            SetToSeq(kept))
    IN  FoldSeq(LAMBDA k, m : insert_quorum_cert(m, k), tree,
                SetToSeq({k \in qcs : k \in kept \cup {root}}))

Recovered == build(RecoveryRoot, db.blocks, db.qcs, db.num, db.rand)

-----------------------------------------------------------------------------
(* What a peer with sync info v answers to retrieval requests.  It stores  *)
(* the blocks its certificates certify and their ancestors, has numbered   *)
(* the ordered ones, and has an LI and randomness for the committed ones.  *)

PeerBlocks(v) == Ancestors(v.hqc) \cup Ancestors(v.hcc)

PeerOrdered(v) ==
    LET commits == {Commit(k) : k \in PeerBlocks(v)} \ {None}
    IN  CHOOSE b \in commits : \A c \in commits : Round[c] <= Round[b]

PeerNumbers(v) == [b \in ToSet(chain[PeerOrdered(v)]) |-> Height(b)]

PeerCommitted(v) ==
    {Commit(k) : k \in {k \in PeerBlocks(v) : RoundOf(Commit(k)) <= RoundOf(Commit(v.hcc))}}
        \ {None, Genesis}

\* the LIs it has stored: of those with one key, the last one
PeerLIs(v) ==
    {b \in PeerCommitted(v) :
        \A c \in PeerCommitted(v) : LIKey(c) = LIKey(b) => Height(c) <= Height(b)}

\* mutant: the walk stops before the target
Walk_Short(id, n, target) ==
    LET down == Reverse(chain[id])
    IN  SubSeq(down, 1, IF n < Len(down) THEN n - 2 ELSE Len(down) - 1)

\* process_block_retrieval: at most n blocks from id towards the genesis, up to target
Walk(id, n, target) ==
    LET down == Reverse(chain[id])
        stop == IF Contains(down, target)
                THEN CHOOSE i \in DOMAIN down : down[i] = target ELSE Len(down)
    IN  SubSeq(down, 1, IF n < stop THEN n ELSE stop)

\* step 3: the LIs between the lowest and the highest block these QCs commit
ResponseLIs(v, part) ==
    LET here == {b \in DOMAIN PeerNumbers(v) \cap part : \E k \in part : Commit(k) = b}
        nums == {Height(b) : b \in here}
    IN  {b \in PeerLIs(v) : here # {} /\ LIKey(b) \in Min(nums) .. Max(nums)}

\* retrieve_blocks_in_range: requests of max_blocks_to_request blocks each
Retrieve(v, id, n, target) ==
    LET walk    == Walk(id, n, target)
        part(i) == {walk[j] : j \in {j \in DOMAIN walk : (j - 1) \div max_blocks_to_request = i}}
    IN  [blocks |-> ToSet(walk),
         lis    |-> UNION {ResponseLIs(v, part(i)) : i \in 0 .. Len(walk)}]

Merge(f, g) == [x \in DOMAIN f \cup DOMAIN g |-> IF x \in DOMAIN g THEN g[x] ELSE f[x]]

OnlyOn(f, S) == [x \in DOMAIN f \cap S |-> f[x]]

-----------------------------------------------------------------------------
(* Steps of the round manager's task.                                      *)

Idle == up /\ ~panic /\ todo = <<>>

At(op) == up /\ ~panic /\ todo # <<>> /\ Head(todo).op = op

arg == Head(todo)

\* the awaited call returns Ok and the handler goes on with steps before the rest of it
Then(steps) == todo' = steps \o Tail(todo)

Return == Then(<<>>)

\* the error is propagated with `?` and abandons the handler
Error == todo' = <<>>

RecoverySteps == {"RecoverBatch", "RecoverBlock", "RecoverDone"}

\* recover_blocks logs the error of recover_blocks_checked and goes on
RecoveryError ==
    IF arg.checked THEN Error
    ELSE LET rest == {i \in DOMAIN todo : todo[i].op \notin RecoverySteps}
         IN  todo' = IF rest = {} THEN <<>> ELSE SubSeq(todo, Min(rest), Len(todo))

\* init_block_number(path) on the tree m: every block gets its parent's number plus one
init_block_number(m, path) ==
    LET first == m.num[Parent[Head(path)]] + 1
    IN  [b \in DOMAIN m.num \cup ToSet(path) |->
            IF b \in DOMAIN m.num THEN m.num[b]
            ELSE first + (CHOOSE i \in DOMAIN path : path[i] = b) - 1]

\* its unwrap, panic and assert_eq hold
NumbersFit(m, path) ==
    /\ HasNumber(m, Parent[Head(path)])
    /\ \A i \in DOMAIN path : HasNumber(m, path[i]) =>
           m.num[path[i]] = m.num[Parent[Head(path)]] + i

SendSteps(path, proof) ==
    [i \in DOMAIN path |->
        [op |-> "Send", block |-> path[i], proof |-> proof,
         next |-> IF i < Len(path) THEN path[i + 1] ELSE None]]

\* send_for_execution(proof, recovery = false) up to the loop over the path
SendForExecution(m, proof) ==
    LET block == proof.commit
        path  == PathFrom(m, m.oroot, block)
    IN  IF ~is_validator THEN Return /\ mem' = m /\ UNCHANGED <<db, panic>>
        ELSE IF block \notin m.blocks \/ Round[block] <= Round[m.oroot]
        THEN Error /\ mem' = m /\ UNCHANGED <<db, panic>>
        ELSE IF path = <<>> THEN Return /\ mem' = m /\ UNCHANGED <<db, panic>>
        ELSE IF ~NumbersFit(m, path) THEN Error /\ panic' = TRUE /\ mem' = m /\ UNCHANGED db
        ELSE \E nums \in {init_block_number(m, path)} :
                /\ mem' = [m EXCEPT !.num = nums]
                /\ db' = [db EXCEPT !.num = Merge(@, OnlyOn(nums, ToSet(path)))]
                /\ Then(SendSteps(path, proof))
                /\ UNCHANGED panic

\* mutant: a block waiting for its proof is not sent with the next batch
Send_OneByOne ==
    /\ At("Send")
    /\ LET proof == IF arg.block = arg.proof.commit THEN arg.proof ELSE Cert(arg.next)
       IN  IF \/ /\ arg.block # arg.proof.commit
                 /\ arg.next \notin mem.qcs \/ Commit(arg.next) # arg.block
              \/ arg.block \notin mem.blocks
           THEN Return /\ UNCHANGED pipe
           ELSE /\ pipe' = Append(pipe,
                     [blocks |-> <<arg.block>>, proof |-> proof, at |-> "ordered"])
                /\ Then(<<[op |-> "UpdateOrderedRoot", block |-> arg.block, proof |-> proof]>>)
    /\ UNCHANGED <<mem, latest, callbacks, db, exec, nodeVars, epoch_proof, panic>>

\* one round of that loop: the proof of a block that is not the last one is the QC of
\* the next block, if it commits this one; otherwise the block waits for the next batch
Send ==
    /\ At("Send")
    /\ LET proof == IF arg.block = arg.proof.commit THEN arg.proof ELSE Cert(arg.next)
           path  == PathFrom(mem, mem.oroot, arg.block)
       IN  IF \/ /\ arg.block # arg.proof.commit
                 /\ arg.next \notin mem.qcs \/ Commit(arg.next) # arg.block
              \/ arg.block \notin mem.blocks
              \/ path = <<>>
           THEN Return /\ UNCHANGED pipe
           ELSE /\ pipe' = Append(pipe, [blocks |-> path, proof |-> proof, at |-> "ordered"])
                /\ Then(<<[op |-> "UpdateOrderedRoot", block |-> arg.block, proof |-> proof]>>)
    /\ UNCHANGED <<mem, latest, callbacks, db, exec, nodeVars, epoch_proof, panic>>

\* after finalize_order has returned; the batch may have been committed meanwhile
UpdateOrderedRoot ==
    /\ At("UpdateOrderedRoot")
    /\ mem' = insert_ordered_cert([mem EXCEPT !.oroot = arg.block], arg.proof)
    /\ panic' = (arg.block \notin mem.blocks)
    /\ Return
    /\ UNCHANGED <<latest, pipeVars, db, exec, nodeVars, epoch_proof>>

\* replay_ordered_path_if_needed
Replay ==
    /\ At("Replay")
    /\ IF Round[mem.oroot] < RoundOf(mem.hoc.commit) THEN SendForExecution(mem, mem.hoc)
       ELSE Return /\ UNCHANGED <<mem, db, panic>>
    /\ UNCHANGED <<latest, pipeVars, exec, nodeVars, epoch_proof>>

\* recover_blocks_checked: the certs and the last LI are read once
Recover ==
    /\ At("Recover")
    /\ LET certs == SetToSortSeq({k \in mem.qcs : Commit(k) # None},
                                 LAMBDA a, b : RoundOf(Commit(a)) < RoundOf(Commit(b)))
       IN  Then([i \in DOMAIN certs |->
                    [op |-> "RecoverBatch", cert |-> certs[i], li |-> latest,
                     checked |-> arg.checked]])
    /\ UNCHANGED <<mem, latest, pipeVars, db, exec, nodeVars, epoch_proof, panic>>

\* send_for_execution(recovery = true) up to the loop over the blocks
RecoverBatch ==
    /\ At("RecoverBatch")
    /\ LET block == Commit(arg.cert)
           path  == PathFrom(mem, mem.oroot, block)
           nums  == init_block_number(mem, path)
           batch == IF EndsEpoch(arg.li) THEN SelectSeq(path, LAMBDA b : nums[b] <= EpochEnd)
                    ELSE path
       IN  IF Round[block] <= Round[mem.croot] \/ arg.li = Genesis \/ Round[block] > Round[arg.li]
           THEN Return /\ UNCHANGED <<mem, db, panic>>
           ELSE IF block \notin mem.blocks \/ Round[block] <= Round[mem.oroot]
           THEN RecoveryError /\ UNCHANGED <<mem, db, panic>>
           ELSE IF path = <<>> THEN Return /\ UNCHANGED <<mem, db, panic>>
           ELSE IF ~NumbersFit(mem, path)
           THEN Error /\ panic' = TRUE /\ UNCHANGED <<mem, db>>
           ELSE /\ mem' = [mem EXCEPT !.num = nums]
                /\ db' = [db EXCEPT !.num = Merge(@, OnlyOn(nums, ToSet(path)))]
                /\ IF batch = <<>> \/ nums[batch[Len(batch)]] \notin DOMAIN db.li THEN Return
                   ELSE Then([i \in DOMAIN batch |->
                             [op |-> "RecoverBlock", block |-> batch[i], checked |-> arg.checked]]
                             \o <<[op |-> "RecoverDone", batch |-> batch, proof |-> Cert(arg.cert),
                                   checked |-> arg.checked]>>)
                /\ UNCHANGED panic
    /\ UNCHANGED <<latest, pipeVars, exec, nodeVars, epoch_proof>>

\* one block of the batch: execute it, and when its LI is known commit everything
\* executed so far and wait until it is persisted
RecoverBlock ==
    /\ At("RecoverBlock")
    /\ LET n == mem.num[arg.block] IN
       IF require_block_randomness /\ arg.block \notin mem.rand /\ n \notin db.rand
       THEN RecoveryError /\ UNCHANGED <<mem, exec>>
       ELSE /\ mem' = [mem EXCEPT !.rand = @ \cup {arg.block}]
            /\ IF n \in DOMAIN db.li
               THEN exec' = (IF n > exec THEN n ELSE exec) ELSE UNCHANGED exec
            /\ Return
    /\ UNCHANGED <<latest, pipeVars, db, nodeVars, epoch_proof, panic>>

RecoverDone ==
    /\ At("RecoverDone")
    /\ \E m \in {commit_callback(mem, arg.batch, arg.proof)} :
          /\ mem' = insert_ordered_cert([m EXCEPT !.oroot = arg.proof.commit], arg.proof)
          /\ panic' = (arg.proof.commit \notin m.blocks)
    /\ Return
    /\ UNCHANGED <<latest, pipeVars, db, exec, nodeVars, epoch_proof>>

\* insert_quorum_cert: fetch what is missing below the QC, insert it, order what it commits
InsertQC ==
    /\ At("InsertQC")
    /\ LET k       == arg.cert
           missing == SelectSeq(chain[k], LAMBDA b : \A c \in ToSet(chain[k]) :
                                              Round[c] >= Round[b] => c \notin mem.blocks)
           order   == <<[op |-> "OrderQC", cert |-> k]>>
       IN  IF Round[k] < Round[mem.oroot] THEN Then(order) /\ UNCHANGED <<mem, db>>
           ELSE IF k \in mem.qcs THEN Return /\ UNCHANGED <<mem, db>>
           ELSE IF k \in mem.blocks
           THEN /\ mem' = insert_quorum_cert(mem, k)
                /\ db' = [db EXCEPT !.qcs = @ \cup {k}]
                /\ Then(order)
           ELSE /\ \/ Error
                   \/ Then([i \in DOMAIN missing |->
                              [op |-> "FetchedBlock", block |-> missing[i], view |-> arg.view]]
                           \o <<[op |-> "SingleQC", cert |-> k]>> \o order)
                /\ UNCHANGED <<mem, db>>
    /\ UNCHANGED <<latest, pipeVars, exec, nodeVars, epoch_proof, panic>>

\* fetch_quorum_cert inserts one retrieved block: its QC, the block, its randomness
FetchedBlock ==
    /\ At("FetchedBlock")
    /\ LET b      == arg.block
           parent == Parent[b]
           rand   == b \in ToSet(chain[Commit(arg.view.hcc)])
       IN  IF parent \notin mem.blocks THEN Error /\ UNCHANGED <<mem, db>>
           ELSE IF b \notin mem.blocks /\ Round[b] <= Round[mem.oroot]
           THEN /\ Error
                /\ mem' = insert_quorum_cert(mem, parent)
                /\ db' = [db EXCEPT !.qcs = @ \cup {parent}]
           ELSE /\ \E m \in {TreeInsert(insert_quorum_cert(mem, parent), b, <<>>, {})} :
                      mem' = IF rand THEN [m EXCEPT !.rand = @ \cup {b}] ELSE m
                /\ db' = [db EXCEPT !.qcs = @ \cup {parent}, !.blocks = @ \cup {b},
                                    !.rand = IF rand THEN @ \cup {Height(b)} ELSE @]
                /\ Return
    /\ UNCHANGED <<latest, pipeVars, exec, nodeVars, epoch_proof, panic>>

\* insert_single_quorum_cert at the end of fetch_quorum_cert
SingleQC ==
    /\ At("SingleQC")
    /\ IF arg.cert \notin mem.blocks THEN Error /\ UNCHANGED <<mem, db>>
       ELSE /\ mem' = insert_quorum_cert(mem, arg.cert)
            /\ db' = [db EXCEPT !.qcs = @ \cup {arg.cert}]
            /\ Return
    /\ UNCHANGED <<latest, pipeVars, exec, nodeVars, epoch_proof, panic>>

OrderQC ==
    /\ At("OrderQC")
    /\ IF Round[mem.oroot] < RoundOf(Commit(arg.cert)) THEN SendForExecution(mem, Cert(arg.cert))
       ELSE Return /\ UNCHANGED <<mem, db, panic>>
    /\ UNCHANGED <<latest, pipeVars, exec, nodeVars, epoch_proof>>

\* add_certs with order votes disabled inserts the QC of its own highest_ordered_cert
InsertOwnOrdered ==
    /\ At("InsertOwnOrdered")
    /\ Then(<<[op |-> "InsertQC", cert |-> mem.hoc.cert, view |-> arg.view]>>)
    /\ UNCHANGED <<mem, latest, pipeVars, db, exec, nodeVars, epoch_proof, panic>>

\* find_missing_randomness_block_on_path: [missing, from]
MissingRandomness ==
    LET ordered == mem.hoc.commit
        onPath  == {b \in ToSet(chain[ordered]) :
                      /\ Round[b] > RoundOf(mem.hcc.commit)
                      /\ \A c \in ToSet(chain[ordered]) : Round[c] >= Round[b] => c \in mem.blocks}
        without == onPath \ mem.rand
        closest == CHOOSE b \in without : \A c \in without : Round[b] <= Round[c]
        cert    == IF closest \in mem.qcs THEN Cert(closest) ELSE mem.hcc
    IN  IF ordered \notin mem.blocks \/ without = {} THEN [missing |-> FALSE, from |-> mem.hcc]
        ELSE [missing |-> TRUE,
              from |-> IF RoundOf(cert.commit) < RoundOf(mem.hcc.commit) THEN mem.hcc ELSE cert]

\* sync_to_highest_commit_cert; the commit proof it sends to the own BufferManager only
\* lets the pipeline commit, which it may do at any time here
SyncToCommitCert ==
    /\ At("SyncToCommitCert")
    /\ LET commit == Commit(arg.view.hcc)
           rand   == IF require_block_randomness /\ commit # Genesis THEN MissingRandomness
                     ELSE [missing |-> FALSE, from |-> mem.hcc]
           needed == \/ Round[mem.oroot] < Round[commit] /\ commit \notin mem.blocks
                     \/ rand.missing
       IN  IF needed /\ RoundOf(rand.from.commit) < Round[commit]
           THEN Then(<<[op |-> "FastForward", cert |-> arg.view.hcc, from |-> rand.from,
                        view |-> arg.view]>>)
           ELSE Return
    /\ UNCHANGED <<mem, latest, pipeVars, db, exec, nodeVars, epoch_proof, panic>>

\* sync_to_highest_quorum_cert, from the higher of the two commit certs
SyncToQuorumCert ==
    /\ At("SyncToQuorumCert")
    /\ LET k    == arg.view.hqc
           from == IF RoundOf(mem.hcc.commit) > RoundOf(Commit(arg.view.hcc)) THEN mem.hcc
                   ELSE Cert(arg.view.hcc)
       IN  IF Round[mem.oroot] < Round[k] /\ k \notin mem.blocks
           THEN Then(<<[op |-> "FastForward", cert |-> k, from |-> from, view |-> arg.view]>>)
           ELSE Return
    /\ UNCHANGED <<mem, latest, pipeVars, db, exec, nodeVars, epoch_proof, panic>>

\* save_tree is two writes, the numbers are the second; then randomness, then LIs
SaveSteps(got, v, kind) ==
    <<[op |-> "SaveNumbers", got |-> got, view |-> v],
      [op |-> "SaveRandomness", got |-> got, view |-> v]>>
    \o (IF got.lis = {} /\ kind # "page" THEN <<>>
        ELSE <<[op |-> "SaveLedgerInfos", got |-> got, view |-> v, kind |-> kind]>>)

\* fast_forward_sync: fetch the gap and save it
FastForward ==
    /\ At("FastForward")
    /\ IF Round[arg.cert] < RoundOf(arg.from.commit)       \* num_blocks underflows
       THEN Error /\ panic' = TRUE /\ UNCHANGED db
       ELSE /\ UNCHANGED panic
            /\ \/ Error /\ UNCHANGED db                    \* no peer answers in time
               \/ \E r \in {Retrieve(arg.view, arg.cert,
                                     Round[arg.cert] - RoundOf(arg.from.commit) + 1,
                                     arg.from.commit)} :
                     /\ db' = [db EXCEPT !.blocks = @ \cup r.blocks, !.qcs = @ \cup r.blocks]
                     /\ Then(SaveSteps(r, arg.view, "sync"))
    /\ UNCHANGED <<mem, latest, pipeVars, exec, nodeVars, epoch_proof>>

\* mutant: certified blocks that are not ordered get a number too
SaveNumbers_Unordered ==
    /\ At("SaveNumbers")
    /\ db' = [db EXCEPT !.num = Merge(@, [b \in PeerBlocks(arg.view) \ {Genesis} |-> Height(b)])]
    /\ Return
    /\ UNCHANGED <<mem, latest, pipeVars, exec, nodeVars, epoch_proof, panic>>

SaveNumbers ==
    /\ At("SaveNumbers")
    /\ db' = [db EXCEPT !.num = Merge(@, OnlyOn(PeerNumbers(arg.view), arg.got.blocks))]
    /\ Return
    /\ UNCHANGED <<mem, latest, pipeVars, exec, nodeVars, epoch_proof, panic>>

SaveRandomness ==
    /\ At("SaveRandomness")
    /\ db' = [db EXCEPT !.rand = @ \cup {Height(b) :
                  b \in arg.got.blocks \cap ToSet(chain[Commit(arg.view.hcc)])}]
    /\ Return
    /\ UNCHANGED <<mem, latest, pipeVars, exec, nodeVars, epoch_proof, panic>>

\* what each caller of the LI write goes on with
AfterLedgerInfos ==
    LET ends == \E b \in arg.got.lis : EndsEpoch(b)
        last == CHOOSE b \in arg.got.blocks : \A c \in arg.got.blocks : Round[c] <= Round[b]
        append(checked) == [op |-> "Append", got |-> arg.got, view |-> arg.view,
                            checked |-> checked]
    IN  CASE arg.kind = "sync" ->
               (IF is_validator THEN <<[op |-> "Reset"], [op |-> "Rebuild"]>>
                ELSE <<append(FALSE)>>)
               \o <<[op |-> "Recover", checked |-> FALSE], [op |-> "EpochBoundary", ends |-> ends]>>
          [] arg.kind = "legacy" ->
               <<[op |-> "Rebuild"], [op |-> "Recover", checked |-> FALSE]>>
               \o (IF ends THEN <<[op |-> "CommittedEpochChange"]>> ELSE <<>>)
          [] arg.kind = "page" ->
               <<append(TRUE), [op |-> "Recover", checked |-> TRUE],
                 [op |-> "ForwardNext", anchor |-> last, view |-> arg.view]>>

\* one batch; the legacy epoch sync refreshes the cached latest LI only before rebuild
SaveLedgerInfos ==
    /\ At("SaveLedgerInfos")
    /\ \E li \in {PutLIs(db.li, arg.got.lis)} :
          /\ db' = [db EXCEPT !.li = li]
          /\ latest' = IF arg.kind = "legacy" \/ arg.got.lis = {} THEN latest ELSE LatestInDb(li)
    /\ Then(AfterLedgerInfos)
    /\ UNCHANGED <<mem, pipeVars, exec, nodeVars, epoch_proof, panic>>

\* execution_client.reset: the BufferManager waits for a commit in progress and drops
\* the rest; callbacks already queued stay queued
Reset ==
    /\ At("Reset")
    /\ pipe # <<>> => Head(pipe).at # "committing"
    /\ pipe' = <<>>
    /\ Return
    /\ UNCHANGED <<mem, latest, callbacks, db, exec, nodeVars, epoch_proof, panic>>

\* storage.start and rebuild
Rebuild ==
    /\ At("Rebuild")
    /\ IF CanRecover
       THEN mem' = Recovered /\ latest' = LatestInDb(db.li) /\ Return /\ UNCHANGED panic
       ELSE panic' = TRUE /\ Error /\ UNCHANGED <<mem, latest>>
    /\ UNCHANGED <<pipeVars, db, exec, nodeVars, epoch_proof>>

\* append_blocks_for_sync skips what does not fit the tree, the checked form gives up
Append_ ==
    /\ At("Append")
    /\ LET nums  == PeerNumbers(arg.view)
           bs    == SetToSortSeq(arg.got.blocks, LAMBDA a, b : Round[a] < Round[b])
           grow(m, b) == IF CanInsert(m, b) THEN TreeInsert(m, b, nums, db.rand) ELSE m
           tree  == FoldLeft(grow, mem, bs)
       IN  IF arg.checked /\ ~(arg.got.blocks \subseteq tree.blocks) THEN Error /\ mem' = tree
           ELSE /\ mem' = FoldLeft(insert_quorum_cert, tree,
                                   SelectSeq(bs, LAMBDA b : b \in tree.blocks))
                /\ Return
    /\ UNCHANGED <<latest, pipeVars, db, exec, nodeVars, epoch_proof, panic>>

\* is_epoch_change_li_boundary_locally_committed
BoundaryCommitted ==
    /\ HasNumber(mem, mem.croot)
    /\ mem.num[mem.croot] >= EpochEnd

\* mutant: the proof is sent as soon as the epoch-ending LI is known
EpochBoundary_AtOnce ==
    /\ At("EpochBoundary")
    /\ epoch_proof' = (epoch_proof \/ arg.ends)
    /\ Return
    /\ UNCHANGED <<mem, latest, pipeVars, db, exec, nodeVars, panic>>

EpochBoundary ==
    /\ At("EpochBoundary")
    /\ epoch_proof' = (epoch_proof \/ (arg.ends /\ BoundaryCommitted))
    /\ Return
    /\ UNCHANGED <<mem, latest, pipeVars, db, exec, nodeVars, panic>>

-----------------------------------------------------------------------------
(* Epoch sync: a node left behind in an epoch its peers have ended fetches *)
(* the rest of it, forward page by page or, as a fallback, backwards from  *)
(* the end of the epoch (the legacy path).                                 *)

\* the block of the peer's epoch-ending LI, the highest QC that commits it, and the
\* path build_forward_epoch_sync_index serves
EpochLI(v) == CHOOSE b \in PeerLIs(v) : EndsEpoch(b)
EpochTips(v) == {k \in PeerBlocks(v) : Commit(k) = EpochLI(v)}
EpochPath(v) == chain[CHOOSE k \in EpochTips(v) : \A c \in EpochTips(v) : Round[c] <= Round[k]]

\* validate_forward_anchor and fetch_forward_epoch_sync: the page after the anchor
Page(v, anchor) ==
    LET rest == SelectSeq(EpochPath(v), LAMBDA b : Round[b] > Round[anchor])
    IN  SubSeq(rest, 1, IF Len(rest) < max_blocks_to_request THEN Len(rest)
                        ELSE max_blocks_to_request)

\* the LIs whose lowest certifying QC is on the page
PageLIs(v, page) ==
    {b \in PeerLIs(v) : LET certs == {k \in ToSet(EpochPath(v)) : Commit(k) = b} IN
        certs # {} /\ (CHOOSE k \in certs : \A c \in certs : Round[k] <= Round[c]) \in page}

\* forward_epoch_sync_target_committed
TargetCommitted == HasNumber(mem, mem.croot) /\ mem.num[mem.croot] >= EpochEnd

\* the LI is persisted, its commit proof goes to the own BufferManager, which may commit
\* at any time here, and the commit root is polled until a timeout
PersistTarget(v) ==
    /\ \E li \in {PutLIs(db.li, {EpochLI(v)})} :
          db' = [db EXCEPT !.li = li] /\ latest' = LatestInDb(li)
    /\ Then(<<[op |-> "WaitTarget", view |-> v]>>)

\* fast_forward_sync_by_epoch_forward up to its loop; no peer answering, and a peer
\* that does not know the anchor, lead to the legacy path
ForwardPrepare ==
    /\ At("ForwardPrepare")
    /\ \/ Then(<<[op |-> "LegacySync", view |-> arg.view]>>) /\ UNCHANGED <<db, latest>>
       \/ /\ mem.oroot \in ToSet(EpochPath(arg.view)) \cup {Genesis}
          /\ IF TargetCommitted
             THEN Then(<<[op |-> "CommittedEpochChange"]>>) /\ UNCHANGED <<db, latest>>
             ELSE IF EpochLI(arg.view) \in ToSet(PathFrom(mem, mem.croot, mem.oroot))
             THEN PersistTarget(arg.view)
             ELSE /\ Then(<<[op |-> "ForwardFetch", anchor |-> mem.oroot, view |-> arg.view]>>)
                  /\ UNCHANGED <<db, latest>>
    /\ UNCHANGED <<mem, pipeVars, exec, nodeVars, epoch_proof, panic>>

\* one page, or the end of the peer's path (ensure_forward_epoch_sync_target_fetched)
ForwardFetch ==
    /\ At("ForwardFetch")
    /\ \/ Error /\ UNCHANGED <<db, latest>>
       \/ \E page \in {ToSet(Page(arg.view, arg.anchor))} :
             IF page # {}
             THEN /\ db' = [db EXCEPT !.blocks = @ \cup page, !.qcs = @ \cup page]
                  /\ Then(SaveSteps([blocks |-> page, lis |-> PageLIs(arg.view, page)],
                                    arg.view, "page"))
                  /\ UNCHANGED latest
             ELSE IF TargetCommitted
             THEN Then(<<[op |-> "CommittedEpochChange"]>>) /\ UNCHANGED <<db, latest>>
             ELSE IF EpochLI(arg.view) \notin mem.blocks THEN Error /\ UNCHANGED <<db, latest>>
             ELSE PersistTarget(arg.view)
    /\ UNCHANGED <<mem, pipeVars, exec, nodeVars, epoch_proof, panic>>

ForwardNext ==
    /\ At("ForwardNext")
    /\ Then(IF TargetCommitted THEN <<[op |-> "CommittedEpochChange"]>>
            ELSE <<[op |-> "ForwardFetch", anchor |-> arg.anchor, view |-> arg.view]>>)
    /\ UNCHANGED <<mem, latest, pipeVars, db, exec, nodeVars, epoch_proof, panic>>

\* wait_for_forward_epoch_sync_target
WaitTarget ==
    /\ At("WaitTarget")
    /\ \/ TargetCommitted /\ Then(<<[op |-> "CommittedEpochChange"]>>)
       \/ Then(<<[op |-> "LegacySync", view |-> arg.view]>>)
    /\ UNCHANGED <<mem, latest, pipeVars, db, exec, nodeVars, epoch_proof, panic>>

\* fast_forward_sync_by_epoch_legacy: blocks at or below the own commit cert are dropped
LegacySync ==
    /\ At("LegacySync")
    /\ LegacyOverPipeline \/ pipeVars = <<<<>>, <<>>>>
    /\ \/ Error /\ UNCHANGED db
       \/ \E tip \in EpochTips(arg.view) :
          \E r \in {Retrieve(arg.view, tip, Len(chain[tip]), mem.hcc.commit)} :
          \E new \in {{b \in r.blocks : Round[b] > RoundOf(mem.hcc.commit)}} :
             IF new = {}
             THEN /\ IF \E b \in r.lis : EndsEpoch(b) THEN Then(<<[op |-> "CommittedEpochChange"]>>)
                     ELSE Error
                  /\ UNCHANGED db
             ELSE /\ db' = [db EXCEPT !.blocks = @ \cup new, !.qcs = @ \cup new]
                  /\ Then(SaveSteps([blocks |-> new, lis |-> r.lis], arg.view, "legacy"))
    /\ UNCHANGED <<mem, latest, pipeVars, exec, nodeVars, epoch_proof, panic>>

\* send_committed_epoch_change
CommittedEpochChange ==
    /\ At("CommittedEpochChange")
    /\ IF BoundaryCommitted THEN epoch_proof' = TRUE /\ Return
       ELSE Error /\ UNCHANGED epoch_proof
    /\ UNCHANGED <<mem, latest, pipeVars, db, exec, nodeVars, panic>>

EpochSyncDone ==
    /\ At("EpochSyncDone")
    /\ wait_change_epoch_flag' = TRUE
    /\ Return
    /\ UNCHANGED <<mem, latest, pipeVars, db, exec, up, crashes, is_validator, epoch_proof, panic>>

-----------------------------------------------------------------------------
(* Messages that start a task.                                             *)

\* process_proposal inserts the block once its parent's QC is in
ProcessProposal(b) ==
    /\ Idle
    /\ b \notin mem.blocks /\ Parent[b] \in mem.qcs
    /\ Round[mem.oroot] < Round[b]
    /\ db' = [db EXCEPT !.blocks = @ \cup {b}]
    /\ mem' = TreeInsert(mem, b, <<>>, {})
    /\ UNCHANGED <<latest, todo, pipeVars, exec, nodeVars, epoch_proof, panic>>

\* new_qc_aggregated
NewQC(k) ==
    /\ Idle
    /\ k \in (Certified \cap mem.blocks) \ mem.qcs
    /\ todo' = <<[op |-> "InsertQC", cert |-> k, view |-> [hqc |-> k, hcc |-> Genesis]]>>
    /\ UNCHANGED <<mem, latest, pipeVars, db, exec, nodeVars, epoch_proof, panic>>

\* sync_up with a sync info that has_newer_certificates: add_certs
ProcessSyncInfo(v) ==
    /\ Idle
    /\ \/ Round[v.hqc] > Round[mem.hc]
       \/ RoundOf(Commit(v.hcc)) > RoundOf(mem.hcc.commit)
    /\ todo' = <<[op |-> "SyncToCommitCert", view |-> v], [op |-> "SyncToQuorumCert", view |-> v],
                 [op |-> "InsertQC", cert |-> v.hqc, view |-> v],
                 [op |-> "InsertOwnOrdered", view |-> v], [op |-> "Replay"]>>
    /\ UNCHANGED <<mem, latest, pipeVars, db, exec, nodeVars, epoch_proof, panic>>

\* EpochChange event: a peer is in a later epoch
EpochSync(v) ==
    /\ Idle /\ ~wait_change_epoch_flag
    /\ \E b \in PeerCommitted(v) : EndsEpoch(b)
    /\ todo' = <<[op |-> "ForwardPrepare", view |-> v], [op |-> "EpochSyncDone"]>>
    /\ UNCHANGED <<mem, latest, pipeVars, db, exec, nodeVars, epoch_proof, panic>>

-----------------------------------------------------------------------------
(* The execution pipeline (BufferManager, ExecutionProxy and reth).        *)

Running == up /\ ~panic /\ pipe # <<>>

\* the rand manager attaches the randomness of the next batch, which is then executed
Execute ==
    /\ Running
    /\ \E i \in DOMAIN pipe :
          /\ pipe[i].at = "ordered" /\ \A j \in 1 .. i - 1 : pipe[j].at # "ordered"
          /\ pipe' = [pipe EXCEPT ![i].at = "executed"]
          /\ mem' = [mem EXCEPT !.rand = @ \cup (ToSet(pipe[i].blocks) \cap mem.blocks)]
    /\ UNCHANGED <<latest, todo, callbacks, db, exec, nodeVars, epoch_proof, panic>>

\* commit_ledger starts: the randomness up to the epoch change is persisted
CommitLedger ==
    /\ Running /\ Head(pipe).at = "executed"
    /\ pipe' = [pipe EXCEPT ![1].at = "committing"]
    /\ db' = [db EXCEPT !.rand = @ \cup {n \in {db.num[b] : b \in ToSet(Head(pipe).blocks)} :
                                            n <= EpochEnd}]
    /\ UNCHANGED <<mem, latest, todo, callbacks, exec, nodeVars, epoch_proof, panic>>

ToPersist == {n \in {db.num[b] : b \in ToSet(Head(pipe).blocks)} : exec < n /\ n <= EpochEnd}

\* reth persists the next block of the batch
Persist ==
    /\ Running /\ Head(pipe).at = "committing" /\ ToPersist # {}
    /\ exec' = Min(ToPersist)
    /\ UNCHANGED <<mem, latest, todo, pipeVars, db, nodeVars, epoch_proof, panic>>

\* save_transactions, then the callback is queued on the async notifier
SaveLedgerInfo ==
    /\ Running /\ Head(pipe).at = "committing" /\ ToPersist = {}
    /\ LET last == Head(pipe).blocks[Len(Head(pipe).blocks)] IN
          db' = [db EXCEPT !.li = PutLIs(@, {last})] /\ latest' = last
    /\ callbacks' = Append(callbacks, [batch |-> Head(pipe).blocks, proof |-> Head(pipe).proof])
    /\ pipe' = Tail(pipe)
    /\ UNCHANGED <<mem, todo, exec, nodeVars, epoch_proof, panic>>

RunCallback ==
    /\ up /\ ~panic /\ callbacks # <<>>
    /\ mem' = commit_callback(mem, Head(callbacks).batch, Head(callbacks).proof)
    /\ callbacks' = Tail(callbacks)
    /\ panic' = (mem'.croot \notin mem'.blocks)
    /\ UNCHANGED <<latest, todo, pipe, db, exec, nodeVars, epoch_proof>>

-----------------------------------------------------------------------------
Crash ==
    /\ up /\ ~panic /\ crashes < MaxCrashes
    /\ up' = FALSE /\ crashes' = crashes + 1
    /\ mem' = NewTree(Genesis, 0, Cert(Genesis)) /\ latest' = Genesis
    /\ todo' = <<>> /\ pipe' = <<>> /\ callbacks' = <<>>
    /\ epoch_proof' = FALSE /\ wait_change_epoch_flag' = FALSE
    /\ UNCHANGED <<db, exec, is_validator, panic>>

\* the on-chain configuration at execution's height decides the epoch that starts: below
\* the epoch change it is this one (storage.start and BlockStore::async_new)
Restart ==
    /\ ~up /\ exec < EpochEnd
    /\ up' = TRUE
    /\ IF CanRecover
       THEN /\ mem' = Recovered /\ latest' = LatestInDb(db.li)
            /\ todo' = <<[op |-> "Recover", checked |-> FALSE], [op |-> "Replay"]>>
            /\ UNCHANGED panic
       ELSE panic' = TRUE /\ UNCHANGED <<mem, latest, todo>>
    /\ UNCHANGED <<pipeVars, db, exec, crashes, is_validator, wait_change_epoch_flag, epoch_proof>>

Init ==
    /\ mem = NewTree(Genesis, 0, Cert(Genesis)) /\ latest = Genesis
    /\ todo = <<>> /\ pipe = <<>> /\ callbacks = <<>>
    /\ db = [blocks |-> {}, qcs |-> {}, num |-> <<>>, rand |-> {}, li |-> <<>>]
    /\ exec = 0
    /\ up = TRUE /\ crashes = 0 /\ is_validator \in BOOLEAN
    /\ wait_change_epoch_flag = FALSE /\ epoch_proof = FALSE /\ panic = FALSE

TaskStep ==
    \/ Send \/ UpdateOrderedRoot \/ Replay
    \/ Recover \/ RecoverBatch \/ RecoverBlock \/ RecoverDone
    \/ InsertQC \/ FetchedBlock \/ SingleQC \/ OrderQC \/ InsertOwnOrdered
    \/ SyncToCommitCert \/ SyncToQuorumCert
    \/ FastForward \/ SaveNumbers \/ SaveRandomness \/ SaveLedgerInfos
    \/ Reset \/ Rebuild \/ Append_ \/ EpochBoundary
    \/ ForwardPrepare \/ ForwardFetch \/ ForwardNext \/ WaitTarget \/ LegacySync
    \/ CommittedEpochChange \/ EpochSyncDone

Pipeline == Execute \/ CommitLedger \/ Persist \/ SaveLedgerInfo \/ RunCallback

Next ==
    \/ \E b \in Blocks \ {Genesis} : ProcessProposal(b) \/ NewQC(b)
    \/ \E v \in PeerViews : ProcessSyncInfo(v) \/ EpochSync(v)
    \/ TaskStep \/ Pipeline
    \/ Crash \/ Restart

Spec == Init /\ [][Next]_vars

-----------------------------------------------------------------------------
\* No assert, expect, unwrap or arithmetic overflow of the block store, its recovery and
\* its sync fails, however commits, callbacks, crashes and certificates interleave: the
\* numbers init_block_number meets agree, storage.start finds a root, and the commit root,
\* the highest certified block and, except while finalize_order is awaited, the ordered
\* root are in the tree (the expects of BlockTree's accessors).
NoPanic ==
    /\ ~panic
    /\ up => /\ {mem.croot, mem.hc} \subseteq mem.blocks
             /\ At("UpdateOrderedRoot") \/ mem.oroot \in mem.blocks

\* What is committed, ordered, in the pipeline, covered by a durable ledger info, or named
\* by execution's height (the root the next recovery picks by number) lies on one chain,
\* and every number given to a block is its height: neither a fork seen by one peer nor a
\* recovery between two writes makes the node continue from another branch.
OneChain ==
    LET roots == {mem.croot, mem.oroot, mem.hcc.commit} \cup {db.li[n] : n \in DOMAIN db.li}
                 \cup RootCandidates \cup UNION {ToSet(pipe[i].blocks) : i \in DOMAIN pipe}
    IN  /\ \A b, c \in roots : b \in Ancestors(c) \/ c \in Ancestors(b)
        /\ \A b \in DOMAIN mem.num : mem.num[b] = Height(b)
        /\ \A b \in DOMAIN db.num : db.num[b] = Height(b)

\* send_for_execution never leaves a gap: every batch continues what execution has
\* persisted or what is before it in the pipeline, also after a reset, a rebuild or a
\* recovery that stopped half way, and for blocks whose proof came with a later batch.
PipeContiguous ==
    \A i \in DOMAIN pipe :
        LET before == {Height(b) : b \in UNION {ToSet(pipe[j].blocks) : j \in 1 .. i - 1}}
        IN  Height(Head(pipe[i].blocks)) <= 1 + Max({exec} \cup before)

\* The epoch-change proof goes to the EpochManager only when execution has persisted the
\* epoch-change block (is_epoch_change_li_boundary_locally_committed), on every path that
\* sends it: block sync, forward epoch sync and the legacy epoch sync.
EpochProofAfterExecution == epoch_proof => exec >= EpochEnd

\* Write order of the sync paths and of commit_ledger: when a ledger info above execution's
\* height is durable, so are the blocks and QCs a recovery needs to reach it.
LedgerInfoRecoverable ==
    \A n \in DOMAIN db.li : n > exec =>
        \A b \in ToSet(chain[db.li[n]]) : Height(b) > exec => b \in db.blocks \cap db.qcs

\* A node that stopped after execution had persisted the epoch-change block finds the
\* virtual genesis of the next epoch when it starts again: find_root takes it from the
\* ledger info stored under that block's number.
EpochRootRecoverable == ~up /\ exec >= EpochEnd => EpochEnd \in DOMAIN db.li

\* An epoch sync that returned Ok, after which RoundManager ignores further EpochChange
\* events, has sent the epoch-change proof.
EpochSyncCompletes == wait_change_epoch_flag => epoch_proof

=============================================================================
