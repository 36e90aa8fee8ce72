------------------------- MODULE BlockBufferManager -------------------------
(***************************************************************************)
(* The BlockBufferManager (crates/block-buffer-manager): the map of blocks *)
(* through which consensus and the execution layer (reth) exchange work.   *)
(* Every block goes Ordered -> Computed -> Committed under its key         *)
(* (epoch, number); a block that emits NewEpoch starts an epoch change.    *)
(*                                                                         *)
(* The state is the BlockStateMachine behind the one mutex, plus the       *)
(* buffer_state atomic.  Each operation holds the mutex from its first     *)
(* read to its last write, so each is one action here.  The operations     *)
(* that poll (get_ordered_blocks, get_executed_res, get_committed_blocks)  *)
(* drop the mutex between two polls: an action is one poll, and a poll     *)
(* that finds nothing changes nothing.  The operations are parameterised   *)
(* by the arguments of the call; GceiPipeline supplies the real callers,   *)
(* and Next below lets any caller make any call.                           *)
(***************************************************************************)
EXTENDS Integers, FiniteSets, Sequences

CONSTANTS Epochs,            \* epoch numbers
          Numbers,           \* block numbers
          Ids,               \* block ids (hashes)
          None,              \* the Option::None of the code
          max_block_size     \* BlockBufferManagerConfig::max_block_size

ASSUME BufferAssumption ==
    /\ Epochs \subseteq Nat /\ 0 \in Epochs
    /\ Numbers \subseteq Nat /\ 0 \in Numbers
    /\ \A n \in Numbers : 0..n \subseteq Numbers
    /\ None \notin Nat \cup Ids \cup [num : Numbers, epoch : Epochs]
    /\ max_block_size \in Nat

VARIABLES blocks,            \* BlockStateMachine::blocks, Absent where the map has no entry
          current_epoch,
          next_epoch,        \* Option<u64>
          latest_epoch_change_block_number,
          epoch_change_block_info,   \* Option<EpochChangeCache>
          epoch_change_ready,
          latest_commit_block_number,
          latest_finalized_block_number,
          buffer_state

bufferVars == <<blocks, current_epoch, next_epoch, latest_epoch_change_block_number,
                epoch_change_block_info, epoch_change_ready,
                latest_commit_block_number, latest_finalized_block_number, buffer_state>>

Keys == Epochs \X Numbers

(***************************************************************************)
(* A compute result, up to what the code asks of it: does it carry an      *)
(* epoch state (has_reconfiguration), and is it what reth computed or one  *)
(* of the two stand-ins new_dummy and new_dummy_with_epoch_state.          *)
(***************************************************************************)
Results == {"executed", "reconfig", "dummy", "dummy_reconfig"}

HasEpochState(res) == res \in {"reconfig", "dummy_reconfig"}

BlockStates ==
    [st : {"ordered"}, id : Ids, parent : Ids]
      \cup [st : {"computed"}, id : Ids, res : Results]
      \cup [st : {"committed"}, id : Ids, res : Results, notifier : BOOLEAN]
      \cup [st : {"historical"}, id : Ids]

Absent == [st |-> "absent"]

St(k) == blocks[k].st

Held(k) == St(k) # "absent"

EpochChangeCache == [num : Numbers, epoch : Epochs]

(* BlockStateMachine::is_suffix_block: the number lies after the block that changed the epoch. *)
IsSuffixBlock(n) ==
    epoch_change_block_info # None /\ n > epoch_change_block_info.num

\* Mutant of IsStaleCommit: a late commit from an epoch that is over counts as unknown.
IsStaleCommit_SameEpochOnly(e, n) == e = current_epoch /\ IsSuffixBlock(n)

(* BlockStateMachine::is_stale_commit_after_epoch_change *)
IsStaleCommit(e, n) ==
    e < current_epoch \/ (e = current_epoch /\ IsSuffixBlock(n))

-----------------------------------------------------------------------------
(* BlockBufferManager::new *)
BufferInit ==
    /\ blocks = [k \in Keys |-> Absent]
    /\ current_epoch = 0
    /\ next_epoch = None
    /\ latest_epoch_change_block_number = 0
    /\ epoch_change_block_info = None
    /\ epoch_change_ready = FALSE
    /\ latest_commit_block_number = 0
    /\ latest_finalized_block_number = 0
    /\ buffer_state = "Uninitialized"

IsReady == buffer_state # "Uninitialized"

(* init: recovered maps a number to <<epoch, id>>; without an entry for the latest  *)
(* committed number it is an error, except for an empty map at number 0.            *)
InitBuffer(commit, recovered, initial_epoch) ==
    /\ \/ commit \in DOMAIN recovered
       \/ DOMAIN recovered = {} /\ commit = 0
    /\ latest_commit_block_number' = commit
    /\ latest_finalized_block_number' = commit
    /\ current_epoch' = initial_epoch
    /\ IF DOMAIN recovered = {}
       THEN UNCHANGED <<blocks, latest_epoch_change_block_number>>
       ELSE /\ blocks' = [blocks EXCEPT ![<<recovered[commit][1], commit>>] =
                            [st |-> "historical", id |-> recovered[commit][2]]]
            /\ latest_epoch_change_block_number' = 0
    /\ buffer_state' = "Ready"
    /\ UNCHANGED <<next_epoch, epoch_change_block_info, epoch_change_ready>>

(* init_epoch: only the epoch number moves. *)
InitEpoch(e) ==
    /\ current_epoch' = e
    /\ UNCHANGED <<blocks, next_epoch, latest_epoch_change_block_number,
                   epoch_change_block_info, epoch_change_ready,
                   latest_commit_block_number, latest_finalized_block_number, buffer_state>>

(* remove_committed_blocks: nothing happens below the size limit. *)
RemoveCommittedBlocks ==
    /\ Cardinality({k \in Keys : Held(k)}) >= max_block_size
    /\ blocks' = [k \in Keys |->
                    IF k[2] >= latest_finalized_block_number THEN blocks[k] ELSE Absent]
    /\ UNCHANGED <<current_epoch, next_epoch, latest_epoch_change_block_number,
                   epoch_change_block_info, epoch_change_ready,
                   latest_commit_block_number, latest_finalized_block_number, buffer_state>>

-----------------------------------------------------------------------------
(* set_ordered_blocks *)

SetOrderedOk(e) == ~epoch_change_ready /\ e <= current_epoch

\* Mutant of ActualParent: the parent id of the consensus block is kept.
ActualParent_AsGiven(e, n, parent) == parent

(* The parent the buffer knows under the previous number, in this epoch or else in *)
(* the one before, replaces the parent id the caller gave.                          *)
ActualParent(e, n, parent) ==
    LET known == {k \in {<<e, n - 1>>, <<e - 1, n - 1>>} \cap Keys : Held(k)}
    IN  IF known = {} THEN parent
        ELSE IF <<e, n - 1>> \in known THEN blocks[<<e, n - 1>>].id
        ELSE blocks[<<e - 1, n - 1>>].id

\* Mutants of SetOrderedBlocks: without the check for an entry, and without the one for the epoch.
SetOrderedBlocks_Overwrites(e, n, id, parent) ==
    /\ IsReady
    /\ blocks' = IF SetOrderedOk(e) /\ e = current_epoch
                 THEN [blocks EXCEPT ![<<e, n>>] =
                         [st |-> "ordered", id |-> id, parent |-> ActualParent(e, n, parent)]]
                 ELSE blocks
    /\ UNCHANGED <<current_epoch, next_epoch, latest_epoch_change_block_number,
                   epoch_change_block_info, epoch_change_ready,
                   latest_commit_block_number, latest_finalized_block_number, buffer_state>>

SetOrderedBlocks_AnyEpoch(e, n, id, parent) ==
    /\ IsReady
    /\ blocks' = IF SetOrderedOk(e) /\ ~Held(<<e, n>>)
                 THEN [blocks EXCEPT ![<<e, n>>] =
                         [st |-> "ordered", id |-> id, parent |-> ActualParent(e, n, parent)]]
                 ELSE blocks
    /\ UNCHANGED <<current_epoch, next_epoch, latest_epoch_change_block_number,
                   epoch_change_block_info, epoch_change_ready,
                   latest_commit_block_number, latest_finalized_block_number, buffer_state>>

SetOrderedBlocks(e, n, id, parent) ==
    /\ IsReady
    /\ blocks' = IF SetOrderedOk(e) /\ e = current_epoch /\ ~Held(<<e, n>>)
                 THEN [blocks EXCEPT ![<<e, n>>] =
                         [st |-> "ordered", id |-> id, parent |-> ActualParent(e, n, parent)]]
                 ELSE blocks
    /\ UNCHANGED <<current_epoch, next_epoch, latest_epoch_change_block_number,
                   epoch_change_block_info, epoch_change_ready,
                   latest_commit_block_number, latest_finalized_block_number, buffer_state>>

(* get_ordered_blocks: the error "Buffer is in epoch change", and the numbers one poll returns. *)
InEpochChange(expected_epoch) ==
    epoch_change_ready \/ current_epoch # expected_epoch

OrderedRun(start, e) ==
    {n \in Numbers : n >= start /\ \A m \in start..n : St(<<e, m>>) = "ordered"}

-----------------------------------------------------------------------------
(* get_executed_res: "wait" is another poll, "err" an error, anything else the result. *)
ExecutedRes(id, n, e) ==
    LET b == blocks[<<e, n>>]
    IN  CASE b.st \in {"computed", "committed"} -> IF b.id = id THEN b.res ELSE "err"
          [] b.st = "ordered"    -> IF IsSuffixBlock(n) THEN "dummy_reconfig" ELSE "wait"
          [] b.st = "historical" -> "err"
          [] b.st = "absent"     -> IF e < current_epoch THEN "dummy" ELSE "err"

(* A suffix block is computed here, under the id of the caller. *)
GetExecutedRes(id, n, e) ==
    /\ IsReady
    /\ blocks' = IF St(<<e, n>>) = "ordered" /\ IsSuffixBlock(n)
                 THEN [blocks EXCEPT ![<<e, n>>] =
                         [st |-> "computed", id |-> id, res |-> "dummy_reconfig"]]
                 ELSE blocks
    /\ UNCHANGED <<current_epoch, next_epoch, latest_epoch_change_block_number,
                   epoch_change_block_info, epoch_change_ready,
                   latest_commit_block_number, latest_finalized_block_number, buffer_state>>

-----------------------------------------------------------------------------
(* set_compute_res, with calculate_new_epoch_state and handle_epoch_change_suffix_blocks. *)
(* new_epoch is the epoch of the NewEpoch event, None without one.                         *)
SetComputeOk(id, n, e) == St(<<e, n>>) = "ordered" /\ blocks[<<e, n>>].id = id

WithSuffixDummies(e, n, bs) ==
    [k \in Keys |-> IF k[1] = e /\ k[2] > n /\ bs[k].st = "ordered"
                    THEN [st |-> "computed", id |-> bs[k].id, res |-> "dummy_reconfig"]
                    ELSE bs[k]]

SetComputeRes(id, n, e, new_epoch) ==
    /\ IsReady
    /\ IF ~SetComputeOk(id, n, e)
       THEN UNCHANGED <<blocks, next_epoch, latest_epoch_change_block_number,
                        epoch_change_block_info>>
       ELSE IF new_epoch = None
       THEN /\ blocks' = [blocks EXCEPT ![<<e, n>>] =
                            [st |-> "computed", id |-> id, res |-> "executed"]]
            /\ UNCHANGED <<next_epoch, latest_epoch_change_block_number,
                           epoch_change_block_info>>
       ELSE /\ blocks' = WithSuffixDummies(e, n,
                            [blocks EXCEPT ![<<e, n>>] =
                               [st |-> "computed", id |-> id, res |-> "reconfig"]])
            /\ next_epoch' = new_epoch
            /\ latest_epoch_change_block_number' = n
            /\ epoch_change_block_info' = [num |-> n, epoch |-> new_epoch]
    /\ UNCHANGED <<current_epoch, epoch_change_ready, latest_commit_block_number,
                   latest_finalized_block_number, buffer_state>>

-----------------------------------------------------------------------------
(* set_commit_blocks over a batch of [id, num]; the entries before the first error are applied. *)
CommitErr(b, e) ==
    LET s == blocks[<<e, b.num>>]
    IN  \/ s.st = "computed" /\ s.id # b.id
        \/ s.st = "committed" /\ s.id # b.id /\ ~IsSuffixBlock(b.num)
        \/ s.st = "ordered"
        \/ s.st = "historical" /\ s.id # b.id
        \/ s.st = "absent" /\ ~IsStaleCommit(e, b.num)

Applied(batch, e) ==
    {i \in DOMAIN batch : \A j \in 1..i : ~CommitErr(batch[j], e)}

SetCommitOk(batch, e) == Applied(batch, e) = DOMAIN batch

(* The entries that turn Committed, and those that get a persist_notifier channel. *)
NewlyCommitted(batch, e) ==
    {batch[i].num : i \in {j \in Applied(batch, e) : St(<<e, batch[j].num>>) = "computed"}}

\* Mutant of WithNotifier: the block that ends the epoch is committed like any other.
WithNotifier_Never(batch, e) == {}

WithNotifier(batch, e) ==
    {n \in NewlyCommitted(batch, e) :
        HasEpochState(blocks[<<e, n>>].res) /\ ~IsSuffixBlock(n)}

SetCommitBlocks(batch, e) ==
    /\ IsReady
    /\ blocks' = [k \in Keys |->
                    IF k[1] = e /\ k[2] \in NewlyCommitted(batch, e)
                    THEN [st |-> "committed", id |-> blocks[k].id, res |-> blocks[k].res,
                          notifier |-> k[2] \in WithNotifier(batch, e)]
                    ELSE blocks[k]]
    /\ UNCHANGED <<current_epoch, next_epoch, latest_epoch_change_block_number,
                   epoch_change_block_info, epoch_change_ready,
                   latest_commit_block_number, latest_finalized_block_number, buffer_state>>

\* Mutant of CommittedRun: suffix blocks are handed over with the others.
CommittedRun_WithSuffix(start, e) ==
    {n \in Numbers : n >= start /\ \A m \in start..n : St(<<e, m>>) = "committed"}

(* get_committed_blocks: the numbers one poll returns; their notifiers are taken. *)
CommittedRun(start, e) ==
    {n \in Numbers : n >= start /\
        \A m \in start..n : ~IsSuffixBlock(m) /\ St(<<e, m>>) = "committed"}

TakenNotifiers(start, e) == {n \in CommittedRun(start, e) : blocks[<<e, n>>].notifier}

GetCommittedBlocks(start, e) ==
    /\ IsReady
    /\ CommittedRun(start, e) # {}
    /\ blocks' = [k \in Keys |->
                    IF k[1] = e /\ k[2] \in TakenNotifiers(start, e)
                    THEN [blocks[k] EXCEPT !.notifier = FALSE]
                    ELSE blocks[k]]
    /\ UNCHANGED <<current_epoch, next_epoch, latest_epoch_change_block_number,
                   epoch_change_block_info, epoch_change_ready,
                   latest_commit_block_number, latest_finalized_block_number, buffer_state>>

(* set_state *)
SetState(commit, finalized) ==
    /\ latest_commit_block_number' = commit
    /\ latest_finalized_block_number' = finalized
    /\ UNCHANGED <<blocks, current_epoch, next_epoch, latest_epoch_change_block_number,
                   epoch_change_block_info, epoch_change_ready, buffer_state>>

-----------------------------------------------------------------------------
(* release_inflight_blocks *)
HasPendingEpochChange ==
    \/ latest_epoch_change_block_number # 0
    \/ next_epoch # None
    \/ epoch_change_block_info # None

\* Mutants of ReleaseInflightBlocks: next_epoch is unwrapped unchecked, and the cache is kept.
ReleaseInflightBlocks_Unwraps ==
    \/ /\ ~HasPendingEpochChange
       /\ UNCHANGED bufferVars
    \/ /\ HasPendingEpochChange
       /\ current_epoch' = next_epoch
       /\ next_epoch' = None
       /\ blocks' = [k \in Keys |-> IF k[2] <= latest_epoch_change_block_number
                                    THEN blocks[k] ELSE Absent]
       /\ epoch_change_block_info' = None
       /\ epoch_change_ready' = TRUE
       /\ buffer_state' = "EpochChange"
       /\ UNCHANGED <<latest_epoch_change_block_number, latest_commit_block_number,
                      latest_finalized_block_number>>

ReleaseInflightBlocks_KeepsCache ==
    \/ /\ ~HasPendingEpochChange
       /\ UNCHANGED bufferVars
    \/ /\ HasPendingEpochChange
       /\ current_epoch' = IF next_epoch # None THEN next_epoch ELSE current_epoch
       /\ next_epoch' = None
       /\ blocks' = [k \in Keys |-> IF k[2] <= latest_epoch_change_block_number
                                    THEN blocks[k] ELSE Absent]
       /\ epoch_change_ready' = TRUE
       /\ buffer_state' = "EpochChange"
       /\ UNCHANGED <<epoch_change_block_info, latest_epoch_change_block_number,
                      latest_commit_block_number, latest_finalized_block_number>>

ReleaseInflightBlocks ==
    \/ /\ ~HasPendingEpochChange
       /\ UNCHANGED bufferVars
    \/ /\ HasPendingEpochChange
       /\ current_epoch' = IF next_epoch # None THEN next_epoch ELSE current_epoch
       /\ next_epoch' = None
       /\ blocks' = [k \in Keys |-> IF k[2] <= latest_epoch_change_block_number
                                    THEN blocks[k] ELSE Absent]
       /\ epoch_change_block_info' = None
       /\ epoch_change_ready' = TRUE
       /\ buffer_state' = "EpochChange"
       /\ UNCHANGED <<latest_epoch_change_block_number, latest_commit_block_number,
                      latest_finalized_block_number>>

\* Mutant of ConsumedEpoch: the pending epoch, although the release has already taken it.
ConsumedEpoch_PendingOnly == next_epoch

(* consume_epoch_change, and the pair it returns. *)
ConsumedEpoch == IF next_epoch # None THEN next_epoch ELSE current_epoch

ConsumedNumber ==
    IF latest_epoch_change_block_number = 0
    THEN latest_commit_block_number
    ELSE latest_epoch_change_block_number

ConsumeEpochChange ==
    /\ latest_epoch_change_block_number' = 0
    /\ epoch_change_ready' = FALSE
    /\ buffer_state' = "Ready"
    /\ UNCHANGED <<blocks, current_epoch, next_epoch, epoch_change_block_info,
                   latest_commit_block_number, latest_finalized_block_number>>

-----------------------------------------------------------------------------
(***************************************************************************)
(* The buffer under any caller.  The one thing asked of the callers is     *)
(* what the comment in set_compute_res states of reth: once a block has    *)
(* changed the epoch, reth sends no result for the blocks after it; and    *)
(* that init_epoch runs at startup, before the first block is ordered, as  *)
(* EpochManager::start does.  Nothing else orders these calls.             *)
(***************************************************************************)
Batches ==
    {<<[id |-> i, num |-> n]>> : i \in Ids, n \in Numbers}
      \cup {<<[id |-> i, num |-> n], [id |-> j, num |-> n + 1]>> :
                i \in Ids, j \in Ids, n \in {m \in Numbers : m + 1 \in Numbers}}

AnyInit ==
    /\ ~IsReady
    /\ \E c \in Numbers, e \in Epochs, i \in Ids, e0 \in Epochs :
          e <= e0 /\ InitBuffer(c, [n \in {c} |-> <<e, i>>], e0)

AnyConsensusCall ==
    \E e \in Epochs, n \in Numbers, i \in Ids :
        \/ \E p \in Ids : SetOrderedBlocks(e, n, i, p)
        \/ GetExecutedRes(i, n, e)

AnyCommit == \E e \in Epochs, batch \in Batches : SetCommitBlocks(batch, e)

AnyRethCall ==
    \/ \E e \in Epochs, n \in Numbers, i \in Ids, new \in Epochs \cup {None} :
          /\ ~IsSuffixBlock(n)
          /\ SetComputeRes(i, n, e, new)
    \/ \E n \in Numbers, e \in Epochs : GetCommittedBlocks(n, e)
    \/ \E c \in Numbers, f \in Numbers : f <= c /\ SetState(c, f)

AnyEpochChange ==
    /\ IsReady
    /\ \/ ReleaseInflightBlocks
       \/ ConsumeEpochChange
       \/ /\ \A k \in Keys : St(k) \in {"absent", "historical"}
          /\ \E e \in Epochs : e >= current_epoch /\ InitEpoch(e)

BufferNext ==
    \/ AnyInit
    \/ AnyConsensusCall
    \/ AnyCommit
    \/ AnyRethCall
    \/ AnyEpochChange
    \/ RemoveCommittedBlocks

BufferSpec == BufferInit /\ [][BufferNext]_bufferVars

-----------------------------------------------------------------------------
(* The types of the BlockStateMachine fields. *)
BufferTypeOK ==
    /\ blocks \in [Keys -> BlockStates \cup {Absent}]
    /\ current_epoch \in Epochs
    /\ next_epoch \in Epochs \cup {None}
    /\ latest_epoch_change_block_number \in Numbers
    /\ epoch_change_block_info \in EpochChangeCache \cup {None}
    /\ epoch_change_ready \in BOOLEAN
    /\ latest_commit_block_number \in Numbers
    /\ latest_finalized_block_number \in Numbers
    /\ buffer_state \in {"Uninitialized", "Ready", "EpochChange"}

(* No block reth never executed reaches reth's commit loop: whatever the interleaving of   *)
(* set_compute_res, set_commit_blocks, release_inflight_blocks and consume_epoch_change,   *)
(* get_committed_blocks never returns a block whose result is the stand-in given to suffix *)
(* blocks (reth's get_block_id would fail on it, see the comment in get_committed_blocks). *)
SuffixNeverHandedToReth ==
    \A e \in Epochs, start \in Numbers :
        \A n \in CommittedRun(start, e) : blocks[<<e, n>>].res # "dummy_reconfig"

Rank(st) == CASE st = "absent" -> 0 [] st = "ordered" -> 1 [] st = "computed" -> 2
              [] st = "committed" -> 3 [] st = "historical" -> 3

(* The life cycle "Ordered -> Computed -> Committed" runs one way: an entry of the map     *)
(* advances, keeps the result it was computed with, or is dropped; no call moves it back   *)
(* or gives a computed block another result.                                               *)
LifeCycle ==
    [][IsReady => \A k \in Keys :
          \/ ~Held(k)' 
          \/ /\ Rank(St(k)) <= Rank(St(k)')
             /\ Rank(St(k)) \in {2, 3} /\ St(k) # "historical" =>
                    blocks[k].res = blocks'[k].res]_bufferVars

(* A block that is out of the map because the epoch changed stays out: its epoch is over,  *)
(* and set_ordered_blocks ignores it.  A dropped block never comes back in the same epoch  *)
(* while that epoch is below the current one.                                              *)
OldEpochsStayClosed ==
    [][\A k \in Keys : IsReady /\ k[1] < current_epoch /\ ~Held(k) => ~Held(k)']_bufferVars
=============================================================================
