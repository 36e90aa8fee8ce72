---------------------------- MODULE GceiPipeline ----------------------------
(***************************************************************************)
(* The GCEI pipeline of one node: consensus on one side of the             *)
(* BlockBufferManager, the three loops of reth_cli.rs on the other.        *)
(*                                                                         *)
(*   consensus  buffer_manager.rs orders blocks, ExecutionProxy's          *)
(*              schedule_compute hands each one over and waits for its     *)
(*              result, the persisting phase commits it (commit_ledger)    *)
(*              and EpochManager ends the epoch;                           *)
(*   reth       start_execution, start_commit_vote and start_commit.       *)
(*                                                                         *)
(* BFT agreement is given here (SafetyRules and Jolteon establish it): one *)
(* block per epoch and number is ever ordered, so its key is its id.  The  *)
(* executor behind pipe_api is external.                                   *)
(***************************************************************************)
EXTENDS BlockBufferManager

Items == [res : Results, end : Numbers \cup {None}]
Requests == [epoch : Epochs, lo : Numbers, hi : Numbers]
InPersist == [epoch : Epochs, hi : Numbers, wait : SUBSET Numbers]
Pushed == [epoch : Epochs, num : Numbers, id : Ids, parent : Ids]
Executed == [epoch : Epochs, num : Numbers, id : Ids, parent : Ids, reconfig : BOOLEAN]
Computed == [id : Ids, num : Numbers, new : Epochs \cup {None}]
Votes == [res : Computed, epoch : Epochs]

(* The first epoch is 1, and a block's key serves as its id. *)
ASSUME PipelineAssumption ==
    /\ 1 \in Epochs
    /\ Keys \subseteq Ids
    /\ None \notin Items \cup InPersist \cup Votes

VARIABLES
  (* consensus *)
  cons_epoch,      \* epoch of the running EpochManager, 0 before the first
  cons_running,    \* FALSE between end_epoch and start_new_epoch
  epoch_base,      \* [Epochs -> number of the last block before the epoch]
  ordered,         \* last number handed to the BufferManager in this epoch
  head,            \* numbers up to head have left the buffer towards persisting
  task,            \* the schedule_compute future of every block
  item,            \* what process_execution_response recorded of it
  persist_q,       \* requests waiting in the persisting phase
  persisting,      \* the request commit_ledger is working on
  epoch_proof,     \* EpochChangeProof sent to the own EpochManager
  (* reth *)
  reth_epoch,      \* RethCli::current_epoch, the atomic the three loops share
  exec_pc, exec_start,                         \* start_execution
  vote,                                        \* start_commit_vote
  commit_pc, commit_epoch, commit_start, taken,  \* start_commit
  exec_q, chain, result_q, committed, persisted, \* the executor behind pipe_api
  notified,        \* persist_notifier messages sent
  failed           \* loops that returned an error or panicked

consVars == <<cons_epoch, cons_running, epoch_base, ordered, head, task, item,
              persist_q, persisting, epoch_proof>>
rethVars == <<reth_epoch, exec_pc, exec_start, vote, commit_pc, commit_epoch,
              commit_start, taken, exec_q, chain, result_q, committed, persisted,
              notified, failed>>
vars == <<bufferVars, consVars, rethVars>>

GenesisId == <<0, 0>>
EpochGenesisId(e) == <<e, 0>>    \* make_genesis_block_from_ledger_info

Init ==
    /\ BufferInit
    /\ cons_epoch = 0 /\ cons_running = FALSE
    /\ epoch_base = [e \in Epochs |-> 0]
    /\ ordered = 0 /\ head = 0
    /\ task = [k \in Keys |-> "idle"]
    /\ item = [k \in Keys |-> None]
    /\ persist_q = <<>> /\ persisting = None /\ epoch_proof = None
    /\ reth_epoch = 0
    /\ exec_pc = "boot" /\ exec_start = 0
    /\ vote = None
    /\ commit_pc = "load" /\ commit_epoch = 0 /\ commit_start = 1 /\ taken = {}
    /\ exec_q = <<>> /\ chain = <<>> /\ result_q = <<>>
    /\ committed = 0 /\ persisted = 0
    /\ notified = {} /\ failed = {}

-----------------------------------------------------------------------------
(* Startup: init_block_buffer_manager, then EpochManager::start.  The highest epoch in *)
(* the consensus db may be behind the epoch of the reconfiguration notification.        *)
BootBuffer ==
    /\ ~IsReady
    /\ \E e \in {0, 1} : InitBuffer(0, [n \in {0} |-> <<0, GenesisId>>], e)
    /\ UNCHANGED <<consVars, rethVars>>

BootEpoch ==
    /\ IsReady /\ cons_epoch = 0
    /\ InitEpoch(1)
    /\ cons_epoch' = 1 /\ cons_running' = TRUE
    /\ UNCHANGED <<epoch_base, ordered, head, task, item, persist_q, persisting,
                   epoch_proof, rethVars>>

-----------------------------------------------------------------------------
(* Is the item of block k still in the buffer of the running BufferManager? *)
Live(k) == cons_running /\ k[1] = cons_epoch /\ k[2] > head

(* process_ordered_blocks: consensus ordered one more block. *)
ProcessOrderedBlocks ==
    /\ cons_running
    /\ ordered + 1 \in Numbers
    /\ ordered' = ordered + 1
    /\ task' = [task EXCEPT ![<<cons_epoch, ordered + 1>>] = "sched"]
    /\ UNCHANGED <<cons_epoch, cons_running, epoch_base, head, item, persist_q,
                   persisting, epoch_proof, rethVars, bufferVars>>

(* The parent id in the block itself: the first block of an epoch extends the virtual *)
(* genesis block of that epoch, which the execution layer never sees.                  *)
ConsensusParent(k) ==
    IF k[2] = epoch_base[k[1]] + 1 THEN EpochGenesisId(k[1]) ELSE <<k[1], k[2] - 1>>

(* schedule_compute, first half: set_ordered_blocks. *)
ScheduleSetOrdered(k) ==
    /\ task[k] = "sched"
    /\ SetOrderedBlocks(k[1], k[2], k, ConsensusParent(k))
    /\ task' = [task EXCEPT ![k] = IF SetOrderedOk(k[1]) THEN "wait"
                                   ELSE IF Live(k) THEN "err" ELSE "done"]
    /\ UNCHANGED <<cons_epoch, cons_running, epoch_base, ordered, head, item, persist_q,
                   persisting, epoch_proof, rethVars>>

(* schedule_compute, second half: one poll of get_executed_res, or its timeout. *)
ScheduleGetExecuted(k) ==
    LET r == ExecutedRes(k, k[2], k[1])
    IN  /\ task[k] = "wait"
        /\ GetExecutedRes(k, k[2], k[1])
        /\ task' = [task EXCEPT ![k] = IF ~Live(k) THEN "done"
                                       ELSE IF r \in {"wait", "err"} THEN "err" ELSE r]
        /\ UNCHANGED <<cons_epoch, cons_running, epoch_base, ordered, head, item, persist_q,
                       persisting, epoch_proof, rethVars>>

InFlight(k) == task[k] \in {"sched", "wait", "err"} \cup Results

(* The execution wait phase answers in the order of the requests. *)
NextResponse(k) ==
    Live(k) /\ \A m \in Numbers : head < m /\ m < k[2] => ~InFlight(<<k[1], m>>)

\* Mutant of EpochEnd: a suffix block ends the epoch at its own number.
EpochEnd_AtOwnNumber(k, res) == IF HasEpochState(res) THEN k[2] ELSE None

(* resolve_epoch_block_info, with get_epoch_change_block_info: the number of the block *)
(* that changes the epoch, if this block changes it or comes after the change.         *)
EpochEnd(k, res) ==
    IF IsSuffixBlock(k[2]) /\ k[1] = current_epoch THEN epoch_change_block_info.num
    ELSE IF HasEpochState(res) THEN k[2]
    ELSE None

ProcessExecutionResponse(k) ==
    /\ NextResponse(k)
    /\ \/ /\ task[k] \in Results
          /\ item' = [item EXCEPT ![k] = [res |-> task[k], end |-> EpochEnd(k, task[k])]]
          /\ task' = [task EXCEPT ![k] = "done"]
       \/ /\ task[k] = "err"
          /\ task' = [task EXCEPT ![k] = "retry"]
          /\ UNCHANGED item
    /\ UNCHANGED <<cons_epoch, cons_running, epoch_base, ordered, head, persist_q,
                   persisting, epoch_proof, rethVars, bufferVars>>

\* Mutant of RetrySchedulePhase: a failed block is given up.
RetrySchedulePhase_GivesUp ==
    /\ cons_running
    /\ \E k \in Keys : task[k] = "retry"
    /\ task' = [k \in Keys |-> IF task[k] # "retry" THEN task[k] ELSE "done"]
    /\ UNCHANGED <<cons_epoch, cons_running, epoch_base, ordered, head, item, persist_q,
                   persisting, epoch_proof, rethVars, bufferVars>>

(* retry_schedule_phase *)
RetrySchedulePhase ==
    /\ cons_running
    /\ \E k \in Keys : task[k] = "retry"
    /\ task' = [k \in Keys |-> IF task[k] # "retry" THEN task[k]
                               ELSE IF Live(k) THEN "sched" ELSE "done"]
    /\ UNCHANGED <<cons_epoch, cons_running, epoch_base, ordered, head, item, persist_q,
                   persisting, epoch_proof, rethVars, bufferVars>>

(* advance_head: an executed item gathered a commit proof; it and everything before it *)
(* leave the buffer as one persisting request.                                          *)
AdvanceHead(n) ==
    LET k == <<cons_epoch, n>>
    IN  /\ Live(k) /\ item[k] # None
        /\ head' = n
        /\ persist_q' = Append(persist_q, [epoch |-> cons_epoch, lo |-> head + 1, hi |-> n])
        /\ UNCHANGED <<cons_epoch, cons_running, epoch_base, ordered, task, item,
                       persisting, epoch_proof, rethVars, bufferVars>>

(* PersistingPhase::process up to the wait on the persist notifiers in commit_ledger; an *)
(* error of set_commit_blocks panics, and the phase is gone.                             *)
CommitLedger ==
    LET req == Head(persist_q)
        batch == [i \in 1..(req.hi - req.lo + 1) |->
                    [id |-> <<req.epoch, req.lo + i - 1>>, num |-> req.lo + i - 1]]
    IN  /\ persisting = None /\ persist_q # <<>> /\ "commit_ledger" \notin failed
        /\ SetCommitBlocks(batch, req.epoch)
        /\ persist_q' = Tail(persist_q)
        /\ IF SetCommitOk(batch, req.epoch)
           THEN /\ persisting' = [epoch |-> req.epoch, hi |-> req.hi,
                                  wait |-> WithNotifier(batch, req.epoch)]
                /\ UNCHANGED failed
           ELSE /\ failed' = failed \cup {"commit_ledger"}
                /\ UNCHANGED persisting
        /\ UNCHANGED <<cons_epoch, cons_running, epoch_base, ordered, head, task, item,
                       epoch_proof, reth_epoch, exec_pc, exec_start, vote, commit_pc,
                       commit_epoch, commit_start, taken, exec_q, chain, result_q,
                       committed, persisted, notified>>

(* The rest of it: the notifiers fired, the ledger info is saved, and a ledger info that *)
(* ends the epoch goes to the EpochManager, which ignores it outside its own epoch.       *)
PersistDone ==
    LET done == item[<<persisting.epoch, persisting.hi>>]
    IN  /\ persisting # None
        /\ persisting.wait \subseteq notified
        /\ persisting' = None
        /\ epoch_proof' = IF HasEpochState(done.res) /\ persisting.epoch = cons_epoch
                          THEN done.end ELSE epoch_proof
        /\ UNCHANGED <<cons_epoch, cons_running, epoch_base, ordered, head, task, item,
                       persist_q, rethVars, bufferVars>>

\* Mutant of EndEpoch: the BufferManager is stopped before the proof of the epoch's end.
EndEpoch_WithoutProof ==
    /\ cons_running
    /\ cons_running' = FALSE
    /\ persist_q' \in {persist_q, <<>>}
    /\ ReleaseInflightBlocks
    /\ UNCHANGED <<cons_epoch, epoch_base, ordered, head, task, item, persisting,
                   epoch_proof, rethVars>>

(* initiate_new_epoch, shutdown half: the BufferManager is stopped and its reset releases *)
(* the buffer.  The persisting phase drops the requests it meets while reset_flag is set.  *)
EndEpoch ==
    /\ cons_running /\ epoch_proof # None
    /\ cons_running' = FALSE
    /\ persist_q' \in {persist_q, <<>>}
    /\ ReleaseInflightBlocks
    /\ UNCHANGED <<cons_epoch, epoch_base, ordered, head, task, item, persisting,
                   epoch_proof, rethVars>>

(* initiate_new_epoch, second half: sync_to takes the write mutex that commit holds, then *)
(* the next epoch starts from the block that ended this one.                              *)
StartNewEpoch ==
    /\ ~cons_running /\ epoch_proof # None
    /\ persisting = None
    /\ cons_epoch + 1 \in Epochs
    /\ cons_epoch' = cons_epoch + 1 /\ cons_running' = TRUE
    /\ epoch_base' = [epoch_base EXCEPT ![cons_epoch + 1] = epoch_proof]
    /\ ordered' = epoch_proof /\ head' = epoch_proof
    /\ epoch_proof' = None
    /\ UNCHANGED <<task, item, persist_q, persisting, rethVars, bufferVars>>

(* process_reset_request(TargetRound), which fast_forward_sync sends on a validator whose *)
(* ordered blocks all lie before the target: the buffer is emptied and released.          *)
ResetToTarget ==
    /\ cons_running
    /\ head' = ordered
    /\ persist_q' \in {persist_q, <<>>}
    /\ ReleaseInflightBlocks
    /\ UNCHANGED <<cons_epoch, cons_running, epoch_base, ordered, task, item,
                   persisting, epoch_proof, rethVars>>

-----------------------------------------------------------------------------
(* start_execution *)
ExecBoot ==
    /\ exec_pc = "boot" /\ IsReady
    /\ exec_start' = persisted + 1
    /\ reth_epoch' = current_epoch
    /\ exec_pc' = "poll"
    /\ UNCHANGED <<vote, commit_pc, commit_epoch, commit_start, taken, exec_q, chain,
                   result_q, committed, persisted, notified, failed, consVars, bufferVars>>

(* The last number of a run that one poll returns. *)
LastOf(n, run) == n \in run /\ n + 1 \notin run

ExecPoll ==
    LET run == OrderedRun(exec_start, reth_epoch)
    IN  /\ exec_pc = "poll"
        /\ IF InEpochChange(reth_epoch)
           THEN exec_pc' = "consume" /\ UNCHANGED <<exec_start, exec_q>>
           ELSE \E last \in Numbers :
                /\ LastOf(last, run)
                /\ exec_start' = last + 1
                /\ exec_q' = exec_q \o [i \in 1..(last + 1 - exec_start) |->
                      LET b == blocks[<<reth_epoch, exec_start + i - 1>>]
                      IN  [epoch |-> reth_epoch, num |-> exec_start + i - 1,
                           id |-> b.id, parent |-> b.parent]]
                /\ UNCHANGED exec_pc
        /\ UNCHANGED <<reth_epoch, vote, commit_pc, commit_epoch, commit_start, taken, chain,
                       result_q, committed, persisted, notified, failed, consVars, bufferVars>>

ExecConsume ==
    /\ exec_pc = "consume"
    /\ ConsumeEpochChange
    /\ exec_start' = ConsumedNumber + 1
    /\ reth_epoch' = ConsumedEpoch
    /\ exec_pc' = "poll"
    /\ UNCHANGED <<vote, commit_pc, commit_epoch, commit_start, taken, exec_q, chain,
                   result_q, committed, persisted, notified, failed, consVars>>

(* The executor (external): runs blocks in the order they were pushed, drops those of an *)
(* epoch that one of its blocks has ended, and sends a result for the others.             *)
EpochOver(e) == \E i \in DOMAIN chain : chain[i].epoch = e /\ chain[i].reconfig

RethExecute ==
    LET b == Head(exec_q)
    IN  /\ exec_q # <<>>
        /\ exec_q' = Tail(exec_q)
        /\ IF EpochOver(b.epoch)
           THEN UNCHANGED <<chain, result_q>>
           ELSE \E new \in {None} \cup ({b.epoch + 1} \cap Epochs) :
                  /\ chain' = Append(chain, [epoch |-> b.epoch, num |-> b.num, id |-> b.id,
                                             parent |-> b.parent, reconfig |-> new # None])
                  /\ result_q' = Append(result_q, [id |-> b.id, num |-> b.num, new |-> new])
        /\ UNCHANGED <<reth_epoch, exec_pc, exec_start, vote, commit_pc, commit_epoch,
                       commit_start, taken, committed, persisted, notified, failed,
                       consVars, bufferVars>>

(* start_commit_vote: the epoch is read from the atomic after the result arrived, and *)
(* used when the buffer's mutex is obtained.                                           *)
VoteRecv ==
    /\ vote = None /\ result_q # <<>>
    /\ vote' = [res |-> Head(result_q), epoch |-> reth_epoch]
    /\ result_q' = Tail(result_q)
    /\ UNCHANGED <<reth_epoch, exec_pc, exec_start, commit_pc, commit_epoch, commit_start,
                   taken, exec_q, chain, committed, persisted, notified, failed,
                   consVars, bufferVars>>

VoteSetComputeRes ==
    /\ vote # None
    /\ SetComputeRes(vote.res.id, vote.res.num, vote.epoch, vote.res.new)
    /\ failed' = IF SetComputeOk(vote.res.id, vote.res.num, vote.epoch)
                 THEN failed ELSE failed \cup {"start_commit_vote"}
    /\ vote' = None
    /\ UNCHANGED <<reth_epoch, exec_pc, exec_start, commit_pc, commit_epoch, commit_start,
                   taken, exec_q, chain, result_q, committed, persisted, notified, consVars>>

(* start_commit: load the epoch, then poll get_committed_blocks with it until it times out. *)
CommitLoad ==
    /\ commit_pc = "load"
    /\ commit_epoch' = reth_epoch
    /\ commit_pc' = "poll"
    /\ UNCHANGED <<reth_epoch, exec_pc, exec_start, vote, commit_start, taken, exec_q, chain,
                   result_q, committed, persisted, notified, failed, consVars, bufferVars>>

CommitTimeout ==
    /\ commit_pc = "poll"
    /\ IsReady => CommittedRun(commit_start, commit_epoch) = {}
    /\ commit_pc' = "load"
    /\ UNCHANGED <<reth_epoch, exec_pc, exec_start, vote, commit_epoch, commit_start, taken,
                   exec_q, chain, result_q, committed, persisted, notified, failed,
                   consVars, bufferVars>>

(* A batch: the last block must be the one reth executed under that number. *)
CommitPoll ==
    /\ commit_pc = "poll"
    /\ GetCommittedBlocks(commit_start, commit_epoch)
    /\ \E last \in Numbers :
        /\ LastOf(last, CommittedRun(commit_start, commit_epoch))
        /\ IF last \in DOMAIN chain /\ chain[last].id = blocks[<<commit_epoch, last>>].id
           THEN /\ commit_start' = last + 1
                /\ committed' = last
                /\ taken' = TakenNotifiers(commit_start, commit_epoch)
                /\ commit_pc' = "set_state"
                /\ UNCHANGED failed
           ELSE /\ failed' = failed \cup {"start_commit"}
                /\ commit_pc' = "stopped"
                /\ UNCHANGED <<commit_start, committed, taken>>
    /\ UNCHANGED <<reth_epoch, exec_pc, exec_start, vote, commit_epoch, exec_q, chain,
                   result_q, persisted, notified, consVars>>

\* Mutant of CommitSetState: the taken notifiers are dropped.
CommitSetState_DropsNotifiers ==
    /\ commit_pc = "set_state"
    /\ SetState(commit_start - 1, persisted)
    /\ commit_pc' = "load"
    /\ UNCHANGED <<reth_epoch, exec_pc, exec_start, vote, commit_epoch, commit_start, taken,
                   exec_q, chain, result_q, committed, persisted, notified, failed, consVars>>

CommitSetState ==
    /\ commit_pc = "set_state"
    /\ SetState(commit_start - 1, persisted)
    /\ commit_pc' = IF taken = {} THEN "load" ELSE "notify"
    /\ UNCHANGED <<reth_epoch, exec_pc, exec_start, vote, commit_epoch, commit_start, taken,
                   exec_q, chain, result_q, committed, persisted, notified, failed, consVars>>

(* wait_for_block_persistence, then the notifier of the epoch's last block. *)
CommitNotify ==
    /\ commit_pc = "notify"
    /\ \A n \in taken : n <= persisted
    /\ notified' = notified \cup taken
    /\ taken' = {}
    /\ commit_pc' = "load"
    /\ UNCHANGED <<reth_epoch, exec_pc, exec_start, vote, commit_epoch, commit_start, exec_q,
                   chain, result_q, committed, persisted, failed, consVars, bufferVars>>

(* The executor's database (external) persists what was committed, in order. *)
RethPersist ==
    /\ persisted < committed
    /\ persisted' = persisted + 1
    /\ UNCHANGED <<reth_epoch, exec_pc, exec_start, vote, commit_pc, commit_epoch,
                   commit_start, taken, exec_q, chain, result_q, committed, notified,
                   failed, consVars, bufferVars>>

(* The cleaning task of BlockBufferManager::new. *)
CleanBuffer ==
    /\ RemoveCommittedBlocks
    /\ UNCHANGED <<consVars, rethVars>>

-----------------------------------------------------------------------------
ConsensusNext ==
    \/ BootEpoch
    \/ ProcessOrderedBlocks
    \/ \E k \in Keys : \/ ScheduleSetOrdered(k)
                       \/ ScheduleGetExecuted(k)
                       \/ ProcessExecutionResponse(k)
    \/ RetrySchedulePhase
    \/ \E n \in Numbers : AdvanceHead(n)
    \/ CommitLedger
    \/ PersistDone
    \/ EndEpoch
    \/ StartNewEpoch

RethNext ==
    \/ ExecBoot \/ ExecPoll \/ ExecConsume
    \/ RethExecute
    \/ VoteRecv \/ VoteSetComputeRes
    \/ CommitLoad \/ CommitTimeout \/ CommitPoll \/ CommitSetState \/ CommitNotify
    \/ RethPersist

Next == BootBuffer \/ CleanBuffer \/ ConsensusNext \/ RethNext

Spec == Init /\ [][Next]_vars

(* With a validator that falls behind and syncs to a target round. *)
SyncNext == Next \/ ResetToTarget

SyncSpec == Init /\ [][SyncNext]_vars

-----------------------------------------------------------------------------
(* The types of the state of the buffer, of consensus and of the loops of reth_cli.rs; a    *)
(* loop's epoch is always a number, whichever of the two fields consume_epoch_change read.  *)
TypeOK ==
    /\ BufferTypeOK
    /\ {cons_epoch, reth_epoch, commit_epoch} \subseteq Epochs
    /\ cons_running \in BOOLEAN
    /\ epoch_base \in [Epochs -> Numbers]
    /\ {ordered, head, committed, persisted} \subseteq Numbers
    /\ {exec_start, commit_start} \subseteq Nat
    /\ task \in [Keys -> Results \cup {"idle", "sched", "wait", "err", "retry", "done"}]
    /\ item \in [Keys -> Items \cup {None}]
    /\ persist_q \in Seq(Requests)
    /\ persisting \in InPersist \cup {None}
    /\ epoch_proof \in Numbers \cup {None}
    /\ exec_pc \in {"boot", "poll", "consume"}
    /\ commit_pc \in {"load", "poll", "set_state", "notify", "stopped"}
    /\ vote \in Votes \cup {None}
    /\ exec_q \in Seq(Pushed)
    /\ chain \in Seq(Executed)
    /\ result_q \in Seq(Computed)
    /\ taken \cup notified \subseteq Numbers
    /\ failed \subseteq {"commit_ledger", "start_commit_vote", "start_commit"}

(* Nothing stops: no loop of reth_cli.rs returns an error or panics, so no result is       *)
(* written under an epoch start_execution has already left and no suffix block is asked of *)
(* get_block_id.  commit_ledger has one way to fail, a suffix block that a retry of its    *)
(* schedule_compute put into the buffer after its item had left; any other block of a      *)
(* request is computed, or dropped with its epoch, when set_commit_blocks meets it.        *)
NoLoopFails ==
    /\ failed \subseteq {"commit_ledger"}
    /\ \A i \in DOMAIN persist_q : \A n \in persist_q[i].lo..persist_q[i].hi :
          LET k == <<persist_q[i].epoch, n>>
          IN  CommitErr([id |-> k, num |-> n], k[1]) =>
                 St(k) = "ordered" /\ k[1] = current_epoch /\ IsSuffixBlock(n)

(* When start_execution moves the shared epoch on, start_commit has already taken the      *)
(* block that ended the old epoch: otherwise it would look for it under the new epoch's    *)
(* key for ever.                                                                           *)
CommitLoopNotLeftBehind ==
    \A i \in DOMAIN chain :
        chain[i].reconfig /\ chain[i].epoch < reth_epoch => commit_start > chain[i].num

(* One epoch change at a time, consumed after it was released: next_epoch, the suffix      *)
(* cache and latest_epoch_change_block_number stand for the same pending change, and the   *)
(* number that release_inflight_blocks keeps blocks up to is never the 0 a premature       *)
(* consume_epoch_change would leave (it would drop the last block of the epoch).           *)
ChangeReleasedThenConsumed ==
    /\ next_epoch # None <=> epoch_change_block_info # None
    /\ epoch_change_block_info # None =>
          /\ ~epoch_change_ready
          /\ latest_epoch_change_block_number = epoch_change_block_info.num
          /\ next_epoch = epoch_change_block_info.epoch
    /\ epoch_change_ready => latest_epoch_change_block_number # 0

(* What consensus signs is what reth computed: a block of the buffer's prefix has reth's   *)
(* result, never the plain stand-in for old epochs, and every block that ends the epoch,   *)
(* suffix blocks included, names the block in which reth saw the NewEpoch event.           *)
CommitInfoMatchesExecution ==
    \A k \in Keys : item[k] # None =>
        LET at == {i \in DOMAIN chain : chain[i].epoch = k[1]}
        IN  /\ item[k].res # "dummy"
            /\ item[k].res = "executed" => \E i \in at : chain[i].num = k[2] /\ ~chain[i].reconfig
            /\ HasEpochState(item[k].res) =>
                  \E i \in at : chain[i].reconfig /\ chain[i].num = item[k].end
            /\ ~HasEpochState(item[k].res) => item[k].end = None

(* The pipeline implements the ledger it promises: reth executes one chain, linked by the  *)
(* parent ids set_ordered_blocks settles on, with no gap, no repetition and no suffix      *)
(* block across epoch changes, and start_commit commits a growing prefix of it.            *)
Ledger == INSTANCE ExecutionLedger WITH executed <- chain, committed <- committed
ImplementsLedger == Ledger!Spec

(* current_epoch "MUST only be advanced in release_inflight_blocks when the consensus      *)
(* pipeline officially transitions" (consume_epoch_change): once blocks flow, it moves     *)
(* only after the EpochManager has received the proof that the epoch is over.              *)
EpochMovesWithConsensus ==
    [][cons_epoch # 0 /\ current_epoch' # current_epoch => epoch_proof # None]_vars

-----------------------------------------------------------------------------
(***************************************************************************)
(* Fairness: every loop and spawned future is a task of a tokio runtime    *)
(* that polls each ready task again, the retry timer fires, and the        *)
(* executor and its database make progress.  AdvanceHead stands for the    *)
(* commit votes of a quorum, which reliable broadcast delivers.  Ordering  *)
(* more blocks, cleaning the buffer and timing out are not assumed.        *)
(***************************************************************************)
Fairness ==
    /\ WF_vars(BootBuffer) /\ WF_vars(BootEpoch)
    /\ \A k \in Keys : /\ WF_vars(ScheduleSetOrdered(k))
                       /\ WF_vars(ScheduleGetExecuted(k))
                       /\ WF_vars(ProcessExecutionResponse(k))
    /\ WF_vars(RetrySchedulePhase)
    /\ WF_vars(\E n \in Numbers : AdvanceHead(n))
    /\ WF_vars(CommitLedger) /\ WF_vars(PersistDone)
    /\ WF_vars(EndEpoch) /\ WF_vars(StartNewEpoch)
    /\ WF_vars(ExecBoot) /\ WF_vars(ExecPoll) /\ WF_vars(ExecConsume)
    /\ WF_vars(RethExecute)
    /\ WF_vars(VoteRecv) /\ WF_vars(VoteSetComputeRes)
    /\ WF_vars(CommitLoad) /\ WF_vars(CommitTimeout) /\ WF_vars(CommitPoll)
    /\ WF_vars(CommitSetState) /\ WF_vars(CommitNotify)
    /\ WF_vars(RethPersist)

FairSpec == Spec /\ Fairness

(* Whatever reth executes is committed: no wait on a result, on a persist notifier or on   *)
(* the epoch change holds a block back for ever.                                           *)
ExecutedIsCommitted ==
    \A n \in Numbers : n \in DOMAIN chain ~> committed >= n

(* An epoch change completes on both sides: after the block that changes the epoch,        *)
(* consensus and the three reth loops reach the next epoch.                                *)
EpochChangeCompletes ==
    \A e \in Epochs : EpochOver(e) ~> cons_epoch > e /\ reth_epoch > e /\ commit_epoch > e
=============================================================================
