------------------------- MODULE GceiBuffer_proofs -------------------------
(*****************************************************************************)
(* The block buffer under any caller, for any number of epochs, block numbers *)
(* and ids and any max_block_size: its type invariant, SuffixNeverHandedToReth, *)
(* LifeCycle and OldEpochsStayClosed.  Then the same buffer inside the GCEI  *)
(* pipeline: the types every step keeps, what the invariant says of numbers and *)
(* queues, the initial state, and the steps of startup, of the cleaning task *)
(* and of start_commit outside get_committed_blocks.                         *)
(*****************************************************************************)
EXTENDS GceiInvariant, TLAPS

(* The provers for the steps that name none, in the order they are tried. *)
USE Zenon, SMTT(30), ZenonT(40), SMTT(31)

(* A key is a pair of an epoch and a number. *)
LEMMA KeyParts ==
    ASSUME NEW k \in Keys
    PROVE  k[1] \in Epochs /\ k[2] \in Numbers /\ k = <<k[1], k[2]>>
  BY DEF Keys

(* BufferInit establishes the types. *)
LEMMA TypeInit == BufferInit => BufferTypeOK
  BY BufferAssumption DEF BufferInit, BufferTypeOK

(* init and init_epoch keep the types. *)
LEMMA TypeAnyInit ==
    ASSUME BufferTypeOK, AnyInit
    PROVE  BufferTypeOK'
<1>1. PICK c \in Numbers, e \in Epochs, i \in Ids, e0 \in Epochs :
          InitBuffer(c, [n \in {c} |-> <<e, i>>], e0)
  BY DEF AnyInit
<1>2. <<e, c>> \in Keys /\ [st |-> "historical", id |-> i] \in BlockStates
  BY DEF Keys, BlockStates
<1>3. blocks' = [blocks EXCEPT ![<<e, c>>] = [st |-> "historical", id |-> i]]
  BY <1>1 DEF InitBuffer
<1> QED BY <1>1, <1>2, <1>3, BufferAssumption DEF InitBuffer, BufferTypeOK

(* The operations consensus calls keep the types. *)
LEMMA TypeConsensus ==
    ASSUME BufferTypeOK, AnyConsensusCall
    PROVE  BufferTypeOK'
<1>1. PICK e \in Epochs, n \in Numbers, i \in Ids :
          (\E p \in Ids : SetOrderedBlocks(e, n, i, p)) \/ GetExecutedRes(i, n, e)
  BY DEF AnyConsensusCall
<1>2. <<e, n>> \in Keys
  BY DEF Keys
<1>3. CASE \E p \in Ids : SetOrderedBlocks(e, n, i, p)
  <2>1. PICK p \in Ids : SetOrderedBlocks(e, n, i, p)
    BY <1>3
  <2>2. ActualParent(e, n, p) \in Ids
    <3>1. ASSUME NEW k \in Keys, Held(k) PROVE blocks[k].id \in Ids
      BY <3>1 DEF BufferTypeOK, BlockStates, Held, St, Absent
    <3> QED BY <3>1 DEF ActualParent
  <2>3. [st |-> "ordered", id |-> i, parent |-> ActualParent(e, n, p)] \in BlockStates
    BY <2>2 DEF BlockStates
  <2> QED BY <1>2, <2>1, <2>3 DEF SetOrderedBlocks, BufferTypeOK
<1>4. CASE GetExecutedRes(i, n, e)
  <2>1. [st |-> "computed", id |-> i, res |-> "dummy_reconfig"] \in BlockStates
    BY DEF BlockStates, Results
  <2> QED BY <1>2, <1>4, <2>1 DEF GetExecutedRes, BufferTypeOK
<1> QED BY <1>1, <1>3, <1>4

(* So does a batch of set_commit_blocks, stopped at its first error or not. *)
LEMMA TypeCommit ==
    ASSUME BufferTypeOK, AnyCommit
    PROVE  BufferTypeOK'
<1>1. PICK e \in Epochs, batch \in Batches : SetCommitBlocks(batch, e)
  BY DEF AnyCommit
<1>2. ASSUME NEW k \in Keys, k[1] = e, k[2] \in NewlyCommitted(batch, e)
      PROVE  [st |-> "committed", id |-> blocks[k].id, res |-> blocks[k].res,
              notifier |-> k[2] \in WithNotifier(batch, e)] \in BlockStates
  <2>1. St(k) = "computed"
    BY <1>2, KeyParts DEF NewlyCommitted
  <2>2. blocks[k].id \in Ids /\ blocks[k].res \in Results
    BY <2>1 DEF BufferTypeOK, BlockStates, St, Absent
  <2>3. (k[2] \in WithNotifier(batch, e)) \in BOOLEAN
    OBVIOUS
  <2> QED BY <2>2, <2>3 DEF BlockStates
<1> QED BY <1>1, <1>2 DEF SetCommitBlocks, BufferTypeOK

(* The operations the reth loops call keep the types. *)
LEMMA TypeReth ==
    ASSUME BufferTypeOK, AnyRethCall
    PROVE  BufferTypeOK'
<1>1. ASSUME NEW e \in Epochs, NEW n \in Numbers, NEW i \in Ids,
             NEW new \in Epochs \cup {None}, SetComputeRes(i, n, e, new)
      PROVE  BufferTypeOK'
  <2>1. <<e, n>> \in Keys
    BY DEF Keys
  <2>2. \A r \in Results, j \in Ids : [st |-> "computed", id |-> j, res |-> r] \in BlockStates
    BY DEF BlockStates
  <2>3. {"executed", "reconfig", "dummy_reconfig"} \subseteq Results
    BY DEF Results
  <2>4. CASE ~SetComputeOk(i, n, e)
    BY <1>1, <2>4 DEF SetComputeRes, BufferTypeOK
  <2>5. CASE SetComputeOk(i, n, e) /\ new = None
    BY <1>1, <2>1, <2>2, <2>3, <2>5 DEF SetComputeRes, BufferTypeOK
  <2>6. CASE SetComputeOk(i, n, e) /\ new # None
    <3> DEFINE bs == [blocks EXCEPT ![<<e, n>>] =
                        [st |-> "computed", id |-> i, res |-> "reconfig"]]
    <3>1. bs \in [Keys -> BlockStates \cup {Absent}]
      BY <2>1, <2>2, <2>3 DEF BufferTypeOK
    <3>2. \A k \in Keys : bs[k].st = "ordered" => bs[k].id \in Ids
      BY <3>1 DEF BlockStates, Absent
    <3> HIDE DEF bs
    <3>3. WithSuffixDummies(e, n, bs) \in [Keys -> BlockStates \cup {Absent}]
      BY <2>2, <2>3, <3>1, <3>2 DEF WithSuffixDummies
    <3>4. blocks' = WithSuffixDummies(e, n, bs)
      BY <1>1, <2>6 DEF SetComputeRes, bs
    <3>5. [num |-> n, epoch |-> new] \in EpochChangeCache
      BY <2>6 DEF EpochChangeCache
    <3> QED BY <1>1, <2>6, <3>3, <3>4, <3>5 DEF SetComputeRes, BufferTypeOK
  <2> QED BY <2>4, <2>5, <2>6
<1>2. ASSUME NEW n \in Numbers, NEW e \in Epochs, GetCommittedBlocks(n, e)
      PROVE  BufferTypeOK'
  <2>1. ASSUME NEW k \in Keys, k[1] = e, k[2] \in TakenNotifiers(n, e)
        PROVE  [blocks[k] EXCEPT !.notifier = FALSE] \in BlockStates
    <3>1. St(k) = "committed"
      BY <2>1, KeyParts, BufferAssumption DEF TakenNotifiers, CommittedRun
    <3>2. blocks[k] \in [st : {"committed"}, id : Ids, res : Results, notifier : BOOLEAN]
      BY <3>1 DEF BufferTypeOK, BlockStates, St, Absent
    <3> QED BY <3>2 DEF BlockStates
  <2> QED BY <1>2, <2>1 DEF GetCommittedBlocks, BufferTypeOK
<1>3. ASSUME NEW c \in Numbers, NEW f \in Numbers, SetState(c, f)
      PROVE  BufferTypeOK'
  BY <1>3 DEF SetState, BufferTypeOK
<1> QED BY <1>1, <1>2, <1>3 DEF AnyRethCall

(* release_inflight_blocks and consume_epoch_change keep the types. *)
LEMMA TypeEpochChange ==
    ASSUME BufferTypeOK, AnyEpochChange
    PROVE  BufferTypeOK'
<1>1. CASE ReleaseInflightBlocks
  BY <1>1 DEF ReleaseInflightBlocks, BufferTypeOK, bufferVars
<1>2. CASE ConsumeEpochChange
  BY <1>2, BufferAssumption DEF ConsumeEpochChange, BufferTypeOK
<1>3. CASE \E e \in Epochs : InitEpoch(e)
  BY <1>3 DEF InitEpoch, BufferTypeOK
<1> QED BY <1>1, <1>2, <1>3 DEF AnyEpochChange

(* remove_committed_blocks keeps the types. *)
LEMMA TypeRemove ==
    ASSUME BufferTypeOK, RemoveCommittedBlocks
    PROVE  BufferTypeOK'
  BY DEF RemoveCommittedBlocks, BufferTypeOK

(* Every call keeps the types. *)
LEMMA TypeStep == BufferTypeOK /\ [BufferNext]_bufferVars => BufferTypeOK'
<1>1. CASE UNCHANGED bufferVars
  BY <1>1 DEF bufferVars, BufferTypeOK
<1> QED BY <1>1, TypeAnyInit, TypeConsensus, TypeCommit, TypeReth, TypeEpochChange,
           TypeRemove DEF BufferNext

(* Type correctness of the block buffer, whoever calls it. *)
THEOREM TypeCorrect == BufferSpec => []BufferTypeOK
  BY TypeInit, TypeStep, PTL DEF BufferSpec

-----------------------------------------------------------------------------
(***************************************************************************)
(* SuffixNeverHandedToReth is not inductive: clearing the suffix cache in  *)
(* release_inflight_blocks would expose the stand-in results unless they   *)
(* are dropped in the same step.  The strengthening says why they are: a   *)
(* stand-in lies after the cached epoch change, and the number blocks are  *)
(* kept up to is that block's, or 0 once consumed.                         *)
(***************************************************************************)
StandInsAreSuffix ==
    /\ \A k \in Keys : St(k) \in {"computed", "committed"} /\ blocks[k].res = "dummy_reconfig"
                          => IsSuffixBlock(k[2])
    /\ epoch_change_block_info # None =>
          latest_epoch_change_block_number \in {0, epoch_change_block_info.num}

(* A stand-in that lies after the pending change is never in a committed run. *)
LEMMA StandInsImply == StandInsAreSuffix /\ BufferTypeOK => SuffixNeverHandedToReth
<1> SUFFICES ASSUME StandInsAreSuffix, BufferTypeOK, NEW e \in Epochs, NEW start \in Numbers,
                    NEW n \in CommittedRun(start, e)
             PROVE  blocks[<<e, n>>].res # "dummy_reconfig"
  BY DEF SuffixNeverHandedToReth
<1>1. <<e, n>> \in Keys /\ n \in start..n
  BY BufferAssumption DEF CommittedRun, Keys
<1>2. ~IsSuffixBlock(n) /\ St(<<e, n>>) = "committed"
  BY <1>1 DEF CommittedRun
<1> QED BY <1>1, <1>2 DEF StandInsAreSuffix

(* The map starts with no stand-in. *)
LEMMA StandInsInit == BufferInit => StandInsAreSuffix
  BY DEF BufferInit, StandInsAreSuffix, St, Absent

(* No operation leaves a stand-in anywhere but after the block of a pending change. *)
LEMMA StandInsStep ==
    BufferTypeOK /\ StandInsAreSuffix /\ [BufferNext]_bufferVars => StandInsAreSuffix'
<1> SUFFICES ASSUME BufferTypeOK, StandInsAreSuffix, [BufferNext]_bufferVars
             PROVE  StandInsAreSuffix'
  OBVIOUS
<1>1. CASE UNCHANGED bufferVars
  BY <1>1 DEF bufferVars, StandInsAreSuffix, St, IsSuffixBlock
<1>2. CASE AnyInit
  <2>1. PICK c \in Numbers, e \in Epochs, i \in Ids, e0 \in Epochs :
            InitBuffer(c, [n \in {c} |-> <<e, i>>], e0)
    BY <1>2 DEF AnyInit
  <2>2. blocks' = [blocks EXCEPT ![<<e, c>>] = [st |-> "historical", id |-> i]]
    BY <2>1 DEF InitBuffer
  <2>3. \A k \in Keys : St(k)' = "historical" \/ blocks'[k] = blocks[k]
    BY <2>2 DEF BufferTypeOK, St
  <2> QED BY <2>1, <2>3 DEF InitBuffer, StandInsAreSuffix, St, IsSuffixBlock
<1>3. CASE AnyConsensusCall
  <2>1. PICK e \in Epochs, n \in Numbers, i \in Ids :
            (\E p \in Ids : SetOrderedBlocks(e, n, i, p)) \/ GetExecutedRes(i, n, e)
    BY <1>3 DEF AnyConsensusCall
  <2>2. \A k \in Keys : \/ blocks'[k] = blocks[k]
                        \/ St(k)' = "ordered"
                        \/ IsSuffixBlock(k[2])
    <3>1. CASE \E p \in Ids : SetOrderedBlocks(e, n, i, p)
      BY <3>1 DEF SetOrderedBlocks, BufferTypeOK, St
    <3>2. CASE GetExecutedRes(i, n, e)
      <4>1. CASE St(<<e, n>>) = "ordered" /\ IsSuffixBlock(n)
        <5>1. \A k \in Keys : k = <<e, n>> \/ blocks'[k] = blocks[k]
          BY <3>2, <4>1 DEF GetExecutedRes, BufferTypeOK
        <5>2. <<e, n>>[2] = n
          OBVIOUS
        <5> QED BY <4>1, <5>1, <5>2
      <4>2. CASE ~(St(<<e, n>>) = "ordered" /\ IsSuffixBlock(n))
        BY <3>2, <4>2 DEF GetExecutedRes
      <4> QED BY <4>1, <4>2
    <3> QED BY <2>1, <3>1, <3>2
  <2>3. UNCHANGED <<epoch_change_block_info, latest_epoch_change_block_number>>
    BY <2>1 DEF SetOrderedBlocks, GetExecutedRes
  <2> QED BY <2>2, <2>3 DEF StandInsAreSuffix, St, IsSuffixBlock
<1>4. CASE AnyCommit
  <2>1. PICK e \in Epochs, batch \in Batches : SetCommitBlocks(batch, e)
    BY <1>4 DEF AnyCommit
  <2>2. \A k \in Keys : \/ blocks'[k] = blocks[k]
                        \/ St(k) = "computed" /\ blocks'[k].res = blocks[k].res
    <3> SUFFICES ASSUME NEW k \in Keys, k[1] = e, k[2] \in NewlyCommitted(batch, e)
                 PROVE  St(k) = "computed" /\ blocks'[k].res = blocks[k].res
      BY <2>1 DEF SetCommitBlocks
    <3>1. St(k) = "computed"
      BY KeyParts DEF NewlyCommitted
    <3> QED BY <2>1, <3>1 DEF SetCommitBlocks
  <2>3. UNCHANGED <<epoch_change_block_info, latest_epoch_change_block_number>>
    BY <2>1 DEF SetCommitBlocks
  <2> QED BY <2>2, <2>3 DEF StandInsAreSuffix, St, IsSuffixBlock
<1>5. CASE AnyRethCall
  <2>1. ASSUME NEW e \in Epochs, NEW n \in Numbers, NEW i \in Ids,
               NEW new \in Epochs \cup {None}, ~IsSuffixBlock(n), SetComputeRes(i, n, e, new)
        PROVE  StandInsAreSuffix'
    <3>1. CASE ~SetComputeOk(i, n, e)
      BY <2>1, <3>1 DEF SetComputeRes, StandInsAreSuffix, St, IsSuffixBlock
    <3>2. CASE SetComputeOk(i, n, e) /\ new = None
      <4>1. \A k \in Keys : blocks'[k] = blocks[k] \/ blocks'[k].res = "executed"
        BY <2>1, <3>2 DEF SetComputeRes, BufferTypeOK
      <4> QED BY <2>1, <3>2, <4>1 DEF SetComputeRes, StandInsAreSuffix, St, IsSuffixBlock
    <3>3. CASE SetComputeOk(i, n, e) /\ new # None
      <4> DEFINE bs == [blocks EXCEPT ![<<e, n>>] =
                          [st |-> "computed", id |-> i, res |-> "reconfig"]]
      <4>1. \A k \in Keys : bs[k] = blocks[k] \/ bs[k].res = "reconfig"
        BY DEF BufferTypeOK
      <4> HIDE DEF bs
      <4>2. blocks' = WithSuffixDummies(e, n, bs)
        BY <2>1, <3>3 DEF SetComputeRes, bs
      <4>3. \A k \in Keys : \/ k[2] > n
                            \/ blocks'[k] = blocks[k]
                            \/ blocks'[k].res = "reconfig"
        BY <4>1, <4>2 DEF WithSuffixDummies
      <4>4. /\ epoch_change_block_info' = [num |-> n, epoch |-> new]
            /\ latest_epoch_change_block_number' = n
        BY <2>1, <3>3 DEF SetComputeRes
      <4>5. epoch_change_block_info' # None /\ epoch_change_block_info'.num = n
        BY <3>3, <4>4, BufferAssumption
      <4>6. ASSUME NEW k \in Keys, IsSuffixBlock(k[2])
            PROVE  k[2] > n
        BY <2>1, <4>6, KeyParts, BufferAssumption DEF IsSuffixBlock, BufferTypeOK, EpochChangeCache
      <4> QED BY <4>3, <4>4, <4>5, <4>6 DEF StandInsAreSuffix, St, IsSuffixBlock
    <3> QED BY <3>1, <3>2, <3>3
  <2>2. ASSUME NEW n \in Numbers, NEW e \in Epochs, GetCommittedBlocks(n, e)
        PROVE  StandInsAreSuffix'
    <3>1. \A k \in Keys : \/ blocks'[k] = blocks[k]
                          \/ St(k) = "committed" /\ blocks'[k].res = blocks[k].res
      <4> SUFFICES ASSUME NEW k \in Keys, k[1] = e, k[2] \in TakenNotifiers(n, e)
                   PROVE  St(k) = "committed" /\ blocks'[k].res = blocks[k].res
        BY <2>2 DEF GetCommittedBlocks
      <4>1. St(k) = "committed"
        BY KeyParts, BufferAssumption DEF TakenNotifiers, CommittedRun
      <4>2. blocks[k] \in [st : {"committed"}, id : Ids, res : Results, notifier : BOOLEAN]
        BY <4>1 DEF BufferTypeOK, BlockStates, St, Absent
      <4> QED BY <2>2, <4>1, <4>2 DEF GetCommittedBlocks
    <3> QED BY <2>2, <3>1 DEF GetCommittedBlocks, StandInsAreSuffix, St, IsSuffixBlock
  <2>3. ASSUME NEW c \in Numbers, NEW f \in Numbers, SetState(c, f)
        PROVE  StandInsAreSuffix'
    BY <2>3 DEF SetState, StandInsAreSuffix, St, IsSuffixBlock
  <2> QED BY <1>5, <2>1, <2>2, <2>3 DEF AnyRethCall
<1>6. CASE AnyEpochChange
  <2>1. CASE ReleaseInflightBlocks /\ HasPendingEpochChange
    <3>1. \A k \in Keys : St(k)' \in {"computed", "committed"} =>
              blocks'[k] = blocks[k] /\ k[2] <= latest_epoch_change_block_number
      BY <2>1 DEF ReleaseInflightBlocks, St, Absent
    <3>2. ASSUME NEW k \in Keys, IsSuffixBlock(k[2])
          PROVE  ~(k[2] <= latest_epoch_change_block_number)
      BY <3>2, KeyParts, BufferAssumption
         DEF IsSuffixBlock, StandInsAreSuffix, BufferTypeOK, EpochChangeCache
    <3>3. epoch_change_block_info' = None
      BY <2>1 DEF ReleaseInflightBlocks
    <3> QED BY <3>1, <3>2, <3>3 DEF StandInsAreSuffix, St
  <2>2. CASE ReleaseInflightBlocks /\ ~HasPendingEpochChange
    BY <2>2 DEF ReleaseInflightBlocks, bufferVars, StandInsAreSuffix, St, IsSuffixBlock
  <2>3. CASE ConsumeEpochChange
    BY <2>3 DEF ConsumeEpochChange, StandInsAreSuffix, St, IsSuffixBlock
  <2>4. CASE \E e \in Epochs : InitEpoch(e)
    BY <2>4 DEF InitEpoch, StandInsAreSuffix, St, IsSuffixBlock
  <2> QED BY <1>6, <2>1, <2>2, <2>3, <2>4 DEF AnyEpochChange
<1>7. CASE RemoveCommittedBlocks
  <2>1. \A k \in Keys : blocks'[k] = blocks[k] \/ St(k)' = "absent"
    BY <1>7 DEF RemoveCommittedBlocks, St, Absent
  <2> QED BY <1>7, <2>1 DEF RemoveCommittedBlocks, StandInsAreSuffix, St, IsSuffixBlock
<1> QED BY <1>1, <1>2, <1>3, <1>4, <1>5, <1>6, <1>7 DEF BufferNext

(* get_committed_blocks never returns a block reth did not execute, for any number of      *)
(* epochs, numbers and ids and any order of calls.                                         *)
THEOREM SuffixSafe == BufferSpec => []SuffixNeverHandedToReth
<1>1. BufferInit => BufferTypeOK /\ StandInsAreSuffix
  BY TypeInit, StandInsInit
<1>2. (BufferTypeOK /\ StandInsAreSuffix) /\ [BufferNext]_bufferVars
        => (BufferTypeOK /\ StandInsAreSuffix)'
  BY TypeStep, StandInsStep
<1> QED BY <1>1, <1>2, StandInsImply, PTL DEF BufferSpec

-----------------------------------------------------------------------------
(***************************************************************************)
(* The action properties.  One lemma says how a call may change one entry  *)
(* of the map; both properties follow from it.                             *)
(***************************************************************************)
Move(b, c) ==
    \/ c.st = "absent"
    \/ c = b
    \/ b.st = "absent" /\ c.st = "ordered"
    \/ b.st = "ordered" /\ c.st = "computed"
    \/ b.st \in {"computed", "committed"} /\ c.st = "committed" /\ c.res = b.res

(* What one operation may do to one entry of the map. *)
LEMMA EntryMoves ==
    ASSUME BufferTypeOK, IsReady, [BufferNext]_bufferVars, NEW k \in Keys
    PROVE  /\ Move(blocks[k], blocks'[k])
           /\ blocks[k].st = "absent" /\ blocks'[k].st # "absent" => k[1] = current_epoch
<1>1. CASE UNCHANGED bufferVars
  BY <1>1 DEF bufferVars, Move
<1>2. CASE AnyInit
  BY <1>2 DEF AnyInit
<1>3. CASE AnyConsensusCall
  <2>1. PICK e \in Epochs, n \in Numbers, i \in Ids :
            (\E p \in Ids : SetOrderedBlocks(e, n, i, p)) \/ GetExecutedRes(i, n, e)
    BY <1>3 DEF AnyConsensusCall
  <2>2. CASE \E p \in Ids : SetOrderedBlocks(e, n, i, p)
    <3>1. PICK p \in Ids : SetOrderedBlocks(e, n, i, p)
      BY <2>2
    <3>2. CASE blocks' = blocks
      BY <3>2 DEF Move
    <3>3. CASE /\ e = current_epoch /\ St(<<e, n>>) = "absent"
               /\ blocks' = [blocks EXCEPT ![<<e, n>>] =
                     [st |-> "ordered", id |-> i, parent |-> ActualParent(e, n, p)]]
      <4>1. CASE k = <<e, n>>
        BY <3>3, <4>1 DEF Move, St, BufferTypeOK
      <4>2. CASE k # <<e, n>>
        BY <3>3, <4>2 DEF Move, BufferTypeOK
      <4> QED BY <4>1, <4>2
    <3> QED BY <3>1, <3>2, <3>3 DEF SetOrderedBlocks, Held
  <2>3. CASE GetExecutedRes(i, n, e)
    BY <2>3 DEF GetExecutedRes, Move, St, BufferTypeOK
  <2> QED BY <2>1, <2>2, <2>3
<1>4. CASE AnyCommit
  <2>1. PICK e \in Epochs, batch \in Batches : SetCommitBlocks(batch, e)
    BY <1>4 DEF AnyCommit
  <2>2. CASE ~(k[1] = e /\ k[2] \in NewlyCommitted(batch, e))
    BY <2>1, <2>2 DEF SetCommitBlocks, Move
  <2>3. CASE k[1] = e /\ k[2] \in NewlyCommitted(batch, e)
    <3>1. St(k) = "computed"
      BY <2>3, KeyParts DEF NewlyCommitted
    <3> QED BY <2>1, <2>3, <3>1 DEF SetCommitBlocks, Move, St
  <2> QED BY <2>2, <2>3
<1>5. CASE AnyRethCall
  <2>1. ASSUME NEW e \in Epochs, NEW n \in Numbers, NEW i \in Ids,
               NEW new \in Epochs \cup {None}, SetComputeRes(i, n, e, new)
        PROVE  Move(blocks[k], blocks'[k]) /\ (blocks[k].st = "absent" => blocks'[k] = blocks[k])
    <3>1. CASE ~SetComputeOk(i, n, e)
      BY <2>1, <3>1 DEF SetComputeRes, Move
    <3>2. CASE SetComputeOk(i, n, e) /\ new = None
      BY <2>1, <3>2, SMTT(30) DEF SetComputeRes, SetComputeOk, Move, St, BufferTypeOK
    <3>3. CASE SetComputeOk(i, n, e) /\ new # None
      <4> DEFINE bs == [blocks EXCEPT ![<<e, n>>] =
                          [st |-> "computed", id |-> i, res |-> "reconfig"]]
      <4>1. blocks' = WithSuffixDummies(e, n, bs)
        BY <2>1, <3>3 DEF SetComputeRes
      <4>2. bs[k] = blocks[k] \/ (blocks[k].st = "ordered" /\ bs[k].st = "computed")
        BY <3>3 DEF SetComputeOk, St, BufferTypeOK
      <4> HIDE DEF bs
      <4>3. blocks'[k] = bs[k] \/ (bs[k].st = "ordered" /\ blocks'[k].st = "computed")
        BY <4>1 DEF WithSuffixDummies
      <4> QED BY <4>2, <4>3 DEF Move
    <3> QED BY <3>1, <3>2, <3>3
  <2>2. ASSUME NEW n \in Numbers, NEW e \in Epochs, GetCommittedBlocks(n, e)
        PROVE  Move(blocks[k], blocks'[k]) /\ (blocks[k].st = "absent" => blocks'[k] = blocks[k])
    <3>1. CASE ~(k[1] = e /\ k[2] \in TakenNotifiers(n, e))
      BY <2>2, <3>1 DEF GetCommittedBlocks, Move
    <3>2. CASE k[1] = e /\ k[2] \in TakenNotifiers(n, e)
      <4>1. St(k) = "committed"
        BY <3>2, KeyParts, BufferAssumption DEF TakenNotifiers, CommittedRun
      <4>2. blocks[k] \in [st : {"committed"}, id : Ids, res : Results, notifier : BOOLEAN]
        BY <4>1 DEF BufferTypeOK, BlockStates, St, Absent
      <4> QED BY <2>2, <3>2, <4>1, <4>2 DEF GetCommittedBlocks, Move, St
    <3> QED BY <3>1, <3>2
  <2>3. ASSUME NEW c \in Numbers, NEW f \in Numbers, SetState(c, f)
        PROVE  blocks' = blocks
    BY <2>3 DEF SetState
  <2> QED BY <1>5, <2>1, <2>2, <2>3 DEF AnyRethCall, Move
<1>6. CASE AnyEpochChange
  <2>1. blocks'[k] = blocks[k] \/ blocks'[k] = Absent
    BY <1>6 DEF AnyEpochChange, ReleaseInflightBlocks, ConsumeEpochChange, InitEpoch, bufferVars
  <2> QED BY <2>1 DEF Move, Absent
<1>7. CASE RemoveCommittedBlocks
  <2>1. blocks'[k] = blocks[k] \/ blocks'[k] = Absent
    BY <1>7 DEF RemoveCommittedBlocks
  <2> QED BY <2>1 DEF Move, Absent
<1> QED BY <1>1, <1>2, <1>3, <1>4, <1>5, <1>6, <1>7 DEF BufferNext

(* No call moves a block back or gives a computed block another result. *)
THEOREM LifeCycleHolds == BufferSpec => LifeCycle
<1>1. BufferTypeOK /\ [BufferNext]_bufferVars =>
        [IsReady => \A k \in Keys :
           \/ ~Held(k)'
           \/ /\ Rank(St(k)) <= Rank(St(k)')
              /\ Rank(St(k)) \in {2, 3} /\ St(k) # "historical" =>
                     blocks[k].res = blocks'[k].res]_bufferVars
  <2> SUFFICES ASSUME BufferTypeOK, IsReady, [BufferNext]_bufferVars, NEW k \in Keys, Held(k)'
               PROVE  /\ Rank(St(k)) <= Rank(St(k)')
                      /\ Rank(St(k)) \in {2, 3} /\ St(k) # "historical" =>
                            blocks[k].res = blocks'[k].res
    OBVIOUS
  <2>1. Move(blocks[k], blocks'[k])
    BY EntryMoves
  <2>2. St(k) \in {"absent", "ordered", "computed", "committed", "historical"}
    BY DEF BufferTypeOK, BlockStates, Absent, St
  <2> QED BY <2>1, <2>2 DEF Move, Rank, St, Held
<1> QED BY <1>1, TypeCorrect, PTL DEF BufferSpec, LifeCycle

(* set_ordered_blocks adds no block to an epoch below the current one, and nothing else    *)
(* adds a block at all.                                                                    *)
THEOREM OldEpochsClosed == BufferSpec => OldEpochsStayClosed
<1>1. BufferTypeOK /\ [BufferNext]_bufferVars =>
        [\A k \in Keys : IsReady /\ k[1] < current_epoch /\ ~Held(k) => ~Held(k)']_bufferVars
  <2> SUFFICES ASSUME BufferTypeOK, IsReady, [BufferNext]_bufferVars, NEW k \in Keys,
                      k[1] < current_epoch, ~Held(k), Held(k)'
               PROVE  FALSE
    OBVIOUS
  <2>1. k[1] = current_epoch
    BY EntryMoves DEF Held, St
  <2> QED BY <2>1, KeyParts, BufferAssumption DEF BufferTypeOK
<1> QED BY <1>1, TypeCorrect, PTL DEF BufferSpec, OldEpochsStayClosed

(* Epochs and numbers are natural, and what lies below a number is one. *)
LEMMA Naturals == Epochs \subseteq Nat /\ Numbers \subseteq Nat
  BY BufferAssumption

(* What lies below a number is one. *)
LEMMA Below == ASSUME NEW n \in Numbers, NEW m \in Nat, m <= n PROVE m \in Numbers
<1>1. m \in 0..n
  BY BufferAssumption
<1> QED BY <1>1, BufferAssumption

(* So does the predecessor of a number other than 0. *)
LEMMA Before == ASSUME NEW n \in Numbers, n # 0 PROVE n - 1 \in Numbers /\ n - 1 \in Nat
<1>1. n - 1 \in Nat /\ n - 1 <= n
  BY BufferAssumption
<1> QED BY <1>1, Below

(* What the types say of the numbers. *)
NatState ==
    /\ cons_epoch \in Nat /\ reth_epoch \in Nat /\ commit_epoch \in Nat /\ current_epoch \in Nat
    /\ ordered \in Nat /\ head \in Nat /\ committed \in Nat /\ persisted \in Nat
    /\ exec_start \in Nat /\ commit_start \in Nat
    /\ latest_epoch_change_block_number \in Nat
    /\ latest_commit_block_number \in Nat /\ latest_finalized_block_number \in Nat
    /\ Len(chain) \in Nat /\ Len(exec_q) \in Nat /\ Len(result_q) \in Nat
    /\ Len(persist_q) \in Nat /\ Pending \in Nat /\ Stored \in Int

(* The types give them. *)
LEMMA NatTypes == TypeOK => NatState
<1> SUFFICES ASSUME TypeOK PROVE NatState
  OBVIOUS
<1>1. /\ cons_epoch \in Epochs /\ reth_epoch \in Epochs /\ commit_epoch \in Epochs
      /\ current_epoch \in Epochs /\ ordered \in Numbers /\ head \in Numbers
      /\ committed \in Numbers /\ persisted \in Numbers
      /\ latest_epoch_change_block_number \in Numbers
      /\ latest_commit_block_number \in Numbers /\ latest_finalized_block_number \in Numbers
  BY DEF TypeOK, BufferTypeOK
<1>2. exec_start \in Nat /\ commit_start \in Nat
  BY DEF TypeOK
<1>3. Len(chain) \in Nat /\ Len(exec_q) \in Nat /\ Len(result_q) \in Nat /\ Len(persist_q) \in Nat
  BY DEF TypeOK
<1>4. Pending \in Nat
  BY <1>3 DEF Pending
<1>5. Stored \in Int
  BY <1>3, <1>4 DEF Stored
<1> QED BY <1>1, <1>2, <1>3, <1>4, <1>5, Naturals DEF NatState

(* The same after a step. *)
LEMMA NatTypesNext == TypeOK' => NatState'
  BY NatTypes, PTL

(* A function on an initial interval is a sequence. *)
LEMMA IsSeq ==
    ASSUME NEW S, NEW n \in Nat, NEW f \in [1..n -> S]
    PROVE  f \in Seq(S) /\ Len(f) = n
  OBVIOUS

(* What a concatenation holds. *)
LEMMA Concat ==
    ASSUME NEW S, NEW s \in Seq(S), NEW t \in Seq(S)
    PROVE  /\ Len(s \o t) = Len(s) + Len(t) /\ DOMAIN (s \o t) = 1..(Len(s) + Len(t))
           /\ DOMAIN s = 1..Len(s) /\ Len(s) \in Nat /\ Len(t) \in Nat
           /\ \A i \in 1..Len(s) : (s \o t)[i] = s[i]
           /\ \A i \in 1..(Len(s) + Len(t)) :
                 i > Len(s) => i - Len(s) \in 1..Len(t) /\ (s \o t)[i] = t[i - Len(s)]
  OBVIOUS

(* The initial state satisfies the invariant. *)
LEMMA InitType == Init => TypeOK
<1> SUFFICES ASSUME Init PROVE TypeOK
  OBVIOUS
<1>1. BufferTypeOK
  BY TypeInit DEF Init
<1> QED BY <1>1, BufferAssumption, PipelineAssumption DEF Init, TypeOK, Results

(* Types: init_block_buffer_manager. *)
LEMMA TypeBootBuffer == ASSUME TypeOK, BootBuffer PROVE TypeOK'
<1>1. BufferTypeOK'
  <2>1. PICK e \in {0, 1} : InitBuffer(0, [n \in {0} |-> <<0, GenesisId>>], e)
    BY DEF BootBuffer
  <2>2. <<0, 0>> \in Keys /\ [st |-> "historical", id |-> <<0, 0>>] \in BlockStates
    BY BufferAssumption, PipelineAssumption DEF Keys, BlockStates
  <2>3. blocks' = [blocks EXCEPT ![<<0, 0>>] = [st |-> "historical", id |-> <<0, 0>>]]
    BY <2>1 DEF InitBuffer, GenesisId
  <2> QED BY <2>1, <2>2, <2>3, BufferAssumption, PipelineAssumption DEF InitBuffer, BufferTypeOK, TypeOK
<1> QED BY <1>1 DEF TypeOK, BootBuffer, consVars, rethVars

(* Types: the cleaning task. *)
LEMMA TypeCleanBuffer == ASSUME TypeOK, CleanBuffer PROVE TypeOK'
  BY TypeRemove DEF TypeOK, CleanBuffer, consVars, rethVars

(* Types: the start of start_execution. *)
LEMMA TypeExecBoot == ASSUME TypeOK, ExecBoot PROVE TypeOK'
<1>1. BufferTypeOK'
  BY DEF TypeOK, BufferTypeOK, ExecBoot, bufferVars
<1>2. persisted + 1 \in Nat /\ current_epoch \in Epochs
  <2>1. NatState
    BY NatTypes
  <2>2. persisted + 1 \in Nat
    BY <2>1 DEF NatState
  <2> QED BY <2>2 DEF TypeOK, BufferTypeOK
<1> QED BY <1>1, <1>2 DEF TypeOK, ExecBoot, consVars

(* What one poll of get_ordered_blocks pushes to the executor. *)
Push(last) ==
    [i \in 1..(last + 1 - exec_start) |->
        [epoch |-> reth_epoch, num |-> exec_start + i - 1,
         id |-> blocks[<<reth_epoch, exec_start + i - 1>>].id,
         parent |-> blocks[<<reth_epoch, exec_start + i - 1>>].parent]]

(* Every number of the run is that of an ordered block. *)
LEMMA PushedOrdered ==
    ASSUME TypeOK, NEW last \in Numbers, LastOf(last, OrderedRun(exec_start, reth_epoch)),
           NEW i \in 1..(last + 1 - exec_start)
    PROVE  /\ exec_start + i - 1 \in Numbers
           /\ <<reth_epoch, exec_start + i - 1>> \in Keys
           /\ St(<<reth_epoch, exec_start + i - 1>>) = "ordered"
<1>1. exec_start \in Nat /\ last \in Nat /\ reth_epoch \in Epochs
  BY BufferAssumption DEF TypeOK
<1>2. exec_start + i - 1 \in exec_start..last /\ exec_start + i - 1 \in 0..last
  BY <1>1
<1>3. \A m \in exec_start..last : St(<<reth_epoch, m>>) = "ordered"
  BY DEF LastOf, OrderedRun
<1>4. exec_start + i - 1 \in Numbers
  BY <1>2, BufferAssumption
<1> QED BY <1>1, <1>2, <1>3, <1>4 DEF Keys

(* What one poll of get_ordered_blocks pushes is typed. *)
LEMMA PushTypes ==
    ASSUME TypeOK, NEW last \in Numbers, LastOf(last, OrderedRun(exec_start, reth_epoch))
    PROVE  /\ last + 1 - exec_start \in Nat
           /\ Push(last) \in Seq(Pushed) /\ Len(Push(last)) = last + 1 - exec_start
<1>1. ASSUME NEW i \in 1..(last + 1 - exec_start)
      PROVE  [epoch |-> reth_epoch, num |-> exec_start + i - 1,
              id |-> blocks[<<reth_epoch, exec_start + i - 1>>].id,
              parent |-> blocks[<<reth_epoch, exec_start + i - 1>>].parent] \in Pushed
  <2> DEFINE k == <<reth_epoch, exec_start + i - 1>>
  <2>1. k \in Keys /\ St(k) = "ordered" /\ exec_start + i - 1 \in Numbers
    BY PushedOrdered
  <2>2. blocks[k].id \in Ids /\ blocks[k].parent \in Ids
    <3> HIDE DEF k
    <3> QED BY <2>1, SMTT(30) DEF TypeOK, BufferTypeOK, BlockStates, Absent, St
  <2> QED BY <2>1, <2>2 DEF Pushed, TypeOK
<1>2. last + 1 - exec_start \in Nat
  <2>1. last \in Numbers /\ last >= exec_start
    BY DEF LastOf, OrderedRun
  <2>2. exec_start \in Nat
    BY DEF TypeOK
  <2>3. last \in Nat
    BY <2>1, BufferAssumption
  <2> QED BY <2>1, <2>2, <2>3, SMTT(30)
<1>3. Push(last) \in [1..(last + 1 - exec_start) -> Pushed]
  BY <1>1 DEF Push
<1> QED BY <1>2, <1>3, IsSeq

(* Types: get_ordered_blocks. *)
LEMMA TypeExecPoll == ASSUME TypeOK, ExecPoll PROVE TypeOK'
<1>1. BufferTypeOK'
  BY DEF TypeOK, BufferTypeOK, ExecPoll, bufferVars
<1>2. CASE InEpochChange(reth_epoch)
  BY <1>1, <1>2 DEF TypeOK, ExecPoll, consVars
<1>3. CASE ~InEpochChange(reth_epoch)
  <2>1. PICK last \in Numbers :
           /\ LastOf(last, OrderedRun(exec_start, reth_epoch))
           /\ exec_start' = last + 1 /\ exec_q' = exec_q \o Push(last) /\ exec_pc' = exec_pc
    BY <1>3 DEF ExecPoll, Push
  <2>3. Push(last) \in Seq(Pushed)
    BY <2>1, PushTypes
  <2>4. exec_q' \in Seq(Pushed) /\ exec_start' \in Nat
    BY <2>1, <2>3, BufferAssumption, SMTT(30) DEF TypeOK
  <2> QED BY <1>1, <2>1, <2>4 DEF TypeOK, ExecPoll, consVars
<1> QED BY <1>2, <1>3

(* Types: consume_epoch_change. *)
LEMMA TypeExecConsume == ASSUME TypeOK, ExecConsume PROVE TypeOK'
<1>1. BufferTypeOK'
  BY BufferAssumption DEF TypeOK, BufferTypeOK, ExecConsume, ConsumeEpochChange
<1>2. ConsumedNumber + 1 \in Nat /\ ConsumedEpoch \in Epochs
  <2>1. ConsumedNumber \in Numbers /\ ConsumedEpoch \in Epochs
    BY DEF TypeOK, BufferTypeOK, ConsumedNumber, ConsumedEpoch
  <2>2. ConsumedNumber \in Nat
    BY <2>1, Naturals
  <2> QED BY <2>1, <2>2
<1> QED BY <1>1, <1>2 DEF TypeOK, ExecConsume, consVars

(* Types: the executor. *)
LEMMA TypeRethExecute == ASSUME TypeOK, RethExecute PROVE TypeOK'
<1>1. BufferTypeOK'
  BY DEF TypeOK, BufferTypeOK, RethExecute, bufferVars
<1> DEFINE b == Head(exec_q)
<1>2. b \in Pushed /\ Tail(exec_q) \in Seq(Pushed)
  BY DEF TypeOK, RethExecute
<1>3. /\ exec_q' = Tail(exec_q)
      /\ \/ UNCHANGED <<chain, result_q>>
         \/ \E new \in {None} \cup ({b.epoch + 1} \cap Epochs) :
              /\ chain' = Append(chain, [epoch |-> b.epoch, num |-> b.num, id |-> b.id,
                                         parent |-> b.parent, reconfig |-> new # None])
              /\ result_q' = Append(result_q, [id |-> b.id, num |-> b.num, new |-> new])
  BY DEF RethExecute
<1> HIDE DEF b
<1>4. ASSUME NEW new \in {None} \cup ({b.epoch + 1} \cap Epochs)
      PROVE  /\ [epoch |-> b.epoch, num |-> b.num, id |-> b.id,
                 parent |-> b.parent, reconfig |-> new # None] \in Executed
             /\ [id |-> b.id, num |-> b.num, new |-> new] \in Computed
  BY <1>2 DEF Pushed, Executed, Computed
<1>5. chain' \in Seq(Executed) /\ result_q' \in Seq(Computed)
  <2>1. chain \in Seq(Executed) /\ result_q \in Seq(Computed)
    BY DEF TypeOK
  <2>2. ASSUME NEW new \in {None} \cup ({b.epoch + 1} \cap Epochs),
               chain' = Append(chain, [epoch |-> b.epoch, num |-> b.num, id |-> b.id,
                                       parent |-> b.parent, reconfig |-> new # None]),
               result_q' = Append(result_q, [id |-> b.id, num |-> b.num, new |-> new])
        PROVE  chain' \in Seq(Executed) /\ result_q' \in Seq(Computed)
    BY <1>4, <2>1, <2>2, SMTT(30)
  <2> QED BY <1>3, <2>1, <2>2
<1> QED BY <1>1, <1>2, <1>3, <1>5 DEF TypeOK, RethExecute, consVars

(* A step that leaves alone what a conjunct of the invariant speaks of keeps the conjunct. *)
LEMMA Frames ==
    ASSUME IInv
    PROVE  /\ UNCHANGED <<chain>> => ChainInv'
           /\ UNCHANGED <<next_epoch, epoch_change_block_info,
                         latest_epoch_change_block_number, epoch_change_ready, current_epoch,
                         reth_epoch, exec_pc, exec_start, exec_q, chain, Pending>> => PhaseInv'
           /\ UNCHANGED <<buffer_state, cons_epoch, current_epoch, exec_pc, blocks>>
                         => NotReadyInv'
           /\ UNCHANGED <<cons_epoch, cons_running, epoch_proof, persist_q,
                         persisting, current_epoch, chain, exec_q, Pending, task>> =>
                         NotStartedInv'
           /\ UNCHANGED <<cons_running, cons_epoch, current_epoch, epoch_proof>> =>
                         EpochInv'
           /\ UNCHANGED <<epoch_proof, chain, cons_epoch, Pending, committed>> =>
                         ProofInv'
           /\ UNCHANGED <<chain, cons_epoch, epoch_base, head, ordered>> => BaseInv'
           /\ UNCHANGED <<task, cons_epoch, epoch_base>> => ScheduledInv'
           /\ UNCHANGED <<chain, result_q, vote, reth_epoch>> => ResultInv'
           /\ UNCHANGED <<chain, Pending, reth_epoch, current_epoch, blocks>> =>
                         AwaitedInv'
           /\ UNCHANGED <<exec_pc, chain, exec_q, exec_start, reth_epoch, blocks,
                         Pending, current_epoch>> => ExecInv'
           /\ UNCHANGED <<blocks, cons_epoch, epoch_base, current_epoch, chain>> =>
                         HeldInv'
           /\ UNCHANGED <<blocks, chain, Pending, current_epoch,
                         epoch_change_block_info>> => EntryInv'
           /\ UNCHANGED <<blocks, cons_running, cons_epoch, epoch_base, chain,
                         Pending>> => ParentInv'
           /\ UNCHANGED <<blocks, chain, buffer_state>> => TopInv'
           /\ UNCHANGED <<commit_start, committed, persisted, chain, Pending,
                         latest_finalized_block_number, latest_commit_block_number,
                         commit_epoch, reth_epoch, taken, notified>> => CommitInv'
           /\ UNCHANGED <<chain, current_epoch, committed>> => OldCommittedInv'
           /\ UNCHANGED <<chain, committed, Pending, blocks>> => StoredInv'
           /\ UNCHANGED <<task, chain, Pending, current_epoch,
                         epoch_change_block_info>> => TaskInv'
           /\ UNCHANGED <<item, chain, Pending>> => ItemInv'
           /\ UNCHANGED <<persist_q, cons_epoch, item, head>> => RequestInv'
           /\ UNCHANGED <<persist_q, current_epoch, committed, epoch_base,
                         cons_epoch, blocks>> => CurrentInv'
           /\ UNCHANGED <<persist_q, current_epoch, head>> => QueueInv'
           /\ UNCHANGED <<persist_q, current_epoch, blocks>> => OldInv'
           /\ UNCHANGED <<cons_running, committed, head, chain, Pending,
                         epoch_change_block_info, cons_epoch, blocks>> => HeadInv'
           /\ UNCHANGED <<persisting, cons_epoch, item, committed, failed, head>> =>
                         PersistingInv'
           /\ UNCHANGED <<failed, cons_running, chain, Pending, current_epoch,
                         persist_q, committed, persisting, head>> => FrontInv'
           /\ UNCHANGED <<failed>> => FailInv'
<1>Chain. ASSUME UNCHANGED <<chain>>
      PROVE  ChainInv'
  <2>1. ChainInv
    BY DEF IInv
  <2> QED BY <2>1, <1>Chain DEF ChainInv
<1>Phase. ASSUME UNCHANGED <<next_epoch, epoch_change_block_info,
                        latest_epoch_change_block_number, epoch_change_ready, current_epoch,
                        reth_epoch, exec_pc, exec_start, exec_q, chain, Pending>>
      PROVE  PhaseInv'
  <2>1. PhaseInv
    BY DEF IInv
  <2> QED BY <2>1, <1>Phase DEF PhaseInv, Quiet, Changing, Released, Starting, NothingExecuted, TopOver, Top
<1>NotReady. ASSUME UNCHANGED <<buffer_state, cons_epoch, current_epoch, exec_pc, blocks>>
      PROVE  NotReadyInv'
  <2>1. NotReadyInv
    BY DEF IInv
  <2> QED BY <2>1, <1>NotReady DEF NotReadyInv, IsReady, Held, St
<1>NotStarted. ASSUME UNCHANGED <<cons_epoch, cons_running, epoch_proof, persist_q,
                        persisting, current_epoch, chain, exec_q, Pending, task>>
      PROVE  NotStartedInv'
  <2>1. NotStartedInv
    BY DEF IInv
  <2> QED BY <2>1, <1>NotStarted DEF NotStartedInv, NothingExecuted
<1>Epoch. ASSUME UNCHANGED <<cons_running, cons_epoch, current_epoch, epoch_proof>>
      PROVE  EpochInv'
  <2>1. EpochInv
    BY DEF IInv
  <2> QED BY <2>1, <1>Epoch DEF EpochInv
<1>Proof. ASSUME UNCHANGED <<epoch_proof, chain, cons_epoch, Pending, committed>>
      PROVE  ProofInv'
  <2>1. ProofInv
    BY DEF IInv
  <2> QED BY <2>1, <1>Proof DEF ProofInv, TopOver, Top
<1>Base. ASSUME UNCHANGED <<chain, cons_epoch, epoch_base, head, ordered>>
      PROVE  BaseInv'
  <2>1. BaseInv
    BY DEF IInv
  <2> QED BY <2>1, <1>Base DEF BaseInv
<1>Scheduled. ASSUME UNCHANGED <<task, cons_epoch, epoch_base>>
      PROVE  ScheduledInv'
  <2>1. ScheduledInv
    BY DEF IInv
  <2> QED BY <2>1, <1>Scheduled DEF ScheduledInv
<1>Result. ASSUME UNCHANGED <<chain, result_q, vote, reth_epoch>>
      PROVE  ResultInv'
  <2>1. ResultInv
    BY DEF IInv
  <2> QED BY <2>1, <1>Result DEF ResultInv, Pending, Stored, ResultOf
<1>Awaited. ASSUME UNCHANGED <<chain, Pending, reth_epoch, current_epoch, blocks>>
      PROVE  AwaitedInv'
  <2>1. AwaitedInv
    BY DEF IInv
  <2> QED BY <2>1, <1>Awaited DEF AwaitedInv, Stored, St
<1>Exec. ASSUME UNCHANGED <<exec_pc, chain, exec_q, exec_start, reth_epoch, blocks,
                        Pending, current_epoch>>
      PROVE  ExecInv'
  <2>1. ExecInv
    BY DEF IInv
  <2> QED BY <2>1, <1>Exec DEF ExecInv, Starting, NothingExecuted, EpochOver, Stale, Fresh, St
<1>Held. ASSUME UNCHANGED <<blocks, cons_epoch, epoch_base, current_epoch, chain>>
      PROVE  HeldInv'
  <2>1. HeldInv
    BY DEF IInv
  <2> QED BY <2>1, <1>Held DEF HeldInv, HeldOK, Held, St
<1>Entry. ASSUME UNCHANGED <<blocks, chain, Pending, current_epoch,
                        epoch_change_block_info>>
      PROVE  EntryInv'
  <2>1. EntryInv
    BY DEF IInv
  <2> QED BY <2>1, <1>Entry DEF EntryInv, EntryResult, InChain, Stored, IsSuffixBlock, St
<1>Parent. ASSUME UNCHANGED <<blocks, cons_running, cons_epoch, epoch_base, chain,
                        Pending>>
      PROVE  ParentInv'
  <2>1. ParentInv
    BY DEF IInv
  <2> QED BY <2>1, <1>Parent DEF ParentInv, RightParent, Stored, St
<1>Top. ASSUME UNCHANGED <<blocks, chain, buffer_state>>
      PROVE  TopInv'
  <2>1. TopInv
    BY DEF IInv
  <2> QED BY <2>1, <1>Top DEF TopInv, IsReady, Held, St, TopKey, Top
<1>Commit. ASSUME UNCHANGED <<commit_start, committed, persisted, chain, Pending,
                        latest_finalized_block_number, latest_commit_block_number, commit_epoch,
                        reth_epoch, taken, notified>>
      PROVE  CommitInv'
  <2>1. CommitInv
    BY DEF IInv
  <2> QED BY <2>1, <1>Commit DEF CommitInv, Stored
<1>OldCommitted. ASSUME UNCHANGED <<chain, current_epoch, committed>>
      PROVE  OldCommittedInv'
  <2>1. OldCommittedInv
    BY DEF IInv
  <2> QED BY <2>1, <1>OldCommitted DEF OldCommittedInv
<1>Stored. ASSUME UNCHANGED <<chain, committed, Pending, blocks>>
      PROVE  StoredInv'
  <2>1. StoredInv
    BY DEF IInv
  <2> QED BY <2>1, <1>Stored DEF StoredInv, Stored, St
<1>Task. ASSUME UNCHANGED <<task, chain, Pending, current_epoch,
                        epoch_change_block_info>>
      PROVE  TaskInv'
  <2>1. TaskInv
    BY DEF IInv
  <2> QED BY <2>1, <1>Task DEF TaskInv, TaskResult, InChain, Stored, IsSuffixBlock
<1>Item. ASSUME UNCHANGED <<item, chain, Pending>>
      PROVE  ItemInv'
  <2>1. ItemInv
    BY DEF IInv
  <2> QED BY <2>1, <1>Item DEF ItemInv, ItemOK, InChain, Stored
<1>Request. ASSUME UNCHANGED <<persist_q, cons_epoch, item, head>>
      PROVE  RequestInv'
  <2>1. RequestInv
    BY DEF IInv
  <2> QED BY <2>1, <1>Request DEF RequestInv
<1>Current. ASSUME UNCHANGED <<persist_q, current_epoch, committed, epoch_base, cons_epoch,
                        blocks>>
      PROVE  CurrentInv'
  <2>1. CurrentInv
    BY DEF IInv
  <2> QED BY <2>1, <1>Current DEF CurrentInv, CurrentOK, St
<1>Queue. ASSUME UNCHANGED <<persist_q, current_epoch, head>>
      PROVE  QueueInv'
  <2>1. QueueInv
    BY DEF IInv
  <2> QED BY <2>1, <1>Queue DEF QueueInv
<1>Old. ASSUME UNCHANGED <<persist_q, current_epoch, blocks>>
      PROVE  OldInv'
  <2>1. OldInv
    BY DEF IInv
  <2> QED BY <2>1, <1>Old DEF OldInv, Held, St
<1>Head. ASSUME UNCHANGED <<cons_running, committed, head, chain, Pending,
                        epoch_change_block_info, cons_epoch, blocks>>
      PROVE  HeadInv'
  <2>1. HeadInv
    BY DEF IInv
  <2> QED BY <2>1, <1>Head DEF HeadInv, Stored, St
<1>Persisting. ASSUME UNCHANGED <<persisting, cons_epoch, item, committed, failed, head>>
      PROVE  PersistingInv'
  <2>1. PersistingInv
    BY DEF IInv
  <2> QED BY <2>1, <1>Persisting DEF PersistingInv, Handled
<1>Front. ASSUME UNCHANGED <<failed, cons_running, chain, Pending, current_epoch,
                        persist_q, committed, persisting, head>>
      PROVE  FrontInv'
  <2>1. FrontInv
    BY DEF IInv
  <2> QED BY <2>1, <1>Front DEF FrontInv, EndsHere, Stored, Handled
<1>Fail. ASSUME UNCHANGED <<failed>>
      PROVE  FailInv'
  <2>1. FailInv
    BY DEF IInv
  <2> QED BY <2>1, <1>Fail DEF FailInv
<1> QED BY <1>Chain, <1>Phase, <1>NotReady, <1>NotStarted, <1>Epoch, <1>Proof, <1>Base,
           <1>Scheduled, <1>Result, <1>Awaited, <1>Exec, <1>Held, <1>Entry, <1>Parent, <1>Top,
           <1>Commit, <1>OldCommitted, <1>Stored, <1>Task, <1>Item, <1>Request, <1>Current,
           <1>Queue, <1>Old, <1>Head, <1>Persisting, <1>Front, <1>Fail

(* The numbers are in order. *)
LEMMA Order ==
    ASSUME IInv
    PROVE  /\ NatState /\ Stored \in Nat /\ committed <= Stored /\ Stored <= Len(chain)
           /\ persisted <= committed
<1>1. NatState
  BY NatTypes DEF IInv
<1>2. /\ Pending <= Len(chain) /\ committed <= Stored /\ persisted <= committed
  BY DEF IInv, ResultInv, CommitInv
<1> QED BY <1>1, <1>2 DEF NatState, Stored

(* A pending epoch change is one of the last executed block, and every result is stored. *)
LEMMA SuffixMeans ==
    ASSUME IInv, epoch_change_block_info # None
    PROVE  /\ Changing /\ epoch_change_block_info.num = Len(chain) /\ Stored = Len(chain)
           /\ \A n : IsSuffixBlock(n) <=> n > Len(chain)
<1>1. Changing
  BY DEF IInv, PhaseInv, Quiet, Released
<1>2. epoch_change_block_info.num = Len(chain) /\ Pending = 0
  BY <1>1 DEF Changing
<1>3. Stored = Len(chain)
  BY <1>2, Order DEF Stored, NatState
<1> QED BY <1>1, <1>2, <1>3 DEF IsSuffixBlock

(* The requests of the persisting phase are typed. *)
LEMMA RequestTypes ==
    ASSUME IInv, NEW i \in DOMAIN persist_q
    PROVE  /\ persist_q[i] \in Requests /\ persist_q[i].epoch \in Nat
           /\ persist_q[i].epoch \in Epochs /\ persist_q[i].hi \in Numbers
           /\ persist_q[i].lo \in Nat /\ persist_q[i].hi \in Nat
           /\ <<persist_q[i].epoch, persist_q[i].hi>> \in Keys
           /\ i \in Nat /\ i > 0 /\ i <= Len(persist_q)
<1>1. persist_q \in Seq(Requests)
  BY DEF IInv, TypeOK
<1>2. persist_q[i] \in Requests /\ i \in Nat /\ i > 0 /\ i <= Len(persist_q)
  BY <1>1
<1> QED BY <1>2, Naturals DEF Requests, Keys

(* The executed blocks have numbers and keys of the buffer. *)
LEMMA ChainNumbers ==
    ASSUME IInv, NEW i \in DOMAIN chain
    PROVE  /\ i \in Numbers /\ i \in Nat /\ i > 0 /\ i <= Len(chain) /\ chain[i] \in Executed
           /\ chain[i].epoch \in Epochs /\ chain[i].epoch \in Nat /\ chain[i].reconfig \in BOOLEAN
           /\ <<chain[i].epoch, i>> \in Keys
<1>1. chain \in Seq(Executed)
  BY DEF IInv, TypeOK
<1>2. chain[i] \in Executed /\ i \in Nat /\ i > 0 /\ i <= Len(chain)
  BY <1>1
<1>3. chain[i].num = i
  BY DEF IInv, ChainInv
<1> QED BY <1>2, <1>3, Naturals DEF Executed, Keys

(* The blocks pushed to the executor are typed. *)
LEMMA PushedTypes ==
    ASSUME IInv
    PROVE  /\ Stale \in Int
           /\ \A i \in DOMAIN exec_q :
                 /\ i \in Nat /\ i \in Int /\ i > 0 /\ i <= Len(exec_q)
                 /\ exec_q[i].epoch \in Epochs /\ exec_q[i].num \in Numbers
<1>1. Len(chain) \in Nat /\ Len(exec_q) \in Nat /\ exec_start \in Nat
  BY Order DEF NatState
<1>2. exec_q \in Seq(Pushed)
  BY DEF IInv, TypeOK
<1>3. \A i \in DOMAIN exec_q : exec_q[i] \in Pushed /\ i \in Nat /\ i > 0 /\ i <= Len(exec_q)
  BY <1>2
<1>4. Stale \in Int
  BY <1>1 DEF Stale
<1> QED BY <1>3, <1>4 DEF Pushed

(* The key of the last executed block is a key of the buffer. *)
LEMMA TopKeyType ==
    ASSUME IInv PROVE TopKey \in Keys /\ TopKey[2] = Len(chain)
<1>1. CASE chain = <<>>
  BY <1>1, BufferAssumption DEF TopKey, Keys
<1>2. CASE chain # <<>>
  <2>1. Len(chain) \in DOMAIN chain
    BY <1>2 DEF IInv, TypeOK
  <2> QED BY <1>2, <2>1, ChainNumbers DEF TopKey, Top
<1> QED BY <1>1, <1>2

(* A block of the running epoch that changes it and whose result is stored is the last one *)
(* executed, and its change is the pending one of the buffer.                               *)
LEMMA EpochEnded ==
    ASSUME IInv, cons_epoch = current_epoch, NEW n, EndsHere(n)
    PROVE  Changing /\ n = Len(chain) /\ Stored = Len(chain)
<1>1. /\ NatState /\ Stored <= Len(chain) /\ n \in 1..Stored /\ chain[n].reconfig
      /\ chain[n].epoch = current_epoch /\ n \in DOMAIN chain
  <2>1. NatState /\ Stored <= Len(chain) /\ n \in 1..Stored /\ Len(chain) \in Nat /\ Stored \in Nat
    BY Order DEF EndsHere, NatState
  <2>2. n \in 1..Len(chain) /\ chain \in Seq(Executed)
    BY <2>1 DEF IInv, TypeOK
  <2> QED BY <2>1, <2>2 DEF EndsHere
<1>2. Len(chain) \in DOMAIN chain /\ chain # <<>>
  BY <1>1 DEF IInv, TypeOK
<1>3. n = Len(chain)
  <2>1. SUFFICES ASSUME n < Len(chain) PROVE FALSE
    BY <1>1, SMTT(30) DEF NatState
  <2>2. chain[n].epoch < chain[Len(chain)].epoch /\ chain[Len(chain)].epoch <= cons_epoch
    BY <1>1, <1>2, <2>1 DEF IInv, ChainInv, BaseInv
  <2>3. chain[Len(chain)].epoch \in Nat
    BY <1>2, ChainNumbers
  <2> QED BY <2>2, <2>3, <1>1 DEF NatState
<1>4. Pending = 0 /\ Stored = Len(chain)
  BY <1>1, <1>3 DEF Stored, NatState
<1>5. TopOver /\ Top.epoch = current_epoch
  BY <1>1, <1>2, <1>3 DEF TopOver, Top
<1>6. ~Quiet
  BY <1>4, <1>5, <1>1 DEF Quiet, NatState
<1>7. ~Released
  BY <1>5, <1>1 DEF Released, NatState
<1> QED BY <1>3, <1>4, <1>6, <1>7 DEF IInv, PhaseInv

(* The cached epoch change of a pending one is there. *)
LEMMA CacheType == ASSUME IInv, Changing PROVE epoch_change_block_info # None
<1>1. Len(chain) \in DOMAIN chain
  BY SMTT(30) DEF Changing, TopOver, IInv, TypeOK
<1>2. Len(chain) \in Numbers
  BY <1>1, ChainNumbers
<1>3. current_epoch + 1 \in Epochs
  <2>1. current_epoch + 1 # None
    <3>1. current_epoch \in Nat
      BY Order DEF NatState
    <3>2. current_epoch + 1 \in Nat
      BY <3>1
    <3> QED BY <3>2, BufferAssumption
  <2> QED BY <2>1 DEF Changing, IInv, TypeOK, BufferTypeOK
<1> QED BY <1>2, <1>3, BufferAssumption, SMTT(30) DEF Changing

(* What a sequence holds after an element is appended. *)
LEMMA Appended ==
    ASSUME NEW S, NEW s \in Seq(S), NEW x
    PROVE  /\ Len(Append(s, x)) = Len(s) + 1
           /\ DOMAIN Append(s, x) = DOMAIN s \cup {Len(s) + 1} /\ Append(s, x) # <<>>
           /\ Len(s) + 1 \in DOMAIN Append(s, x)
           /\ \A i \in DOMAIN s : Append(s, x)[i] = s[i]
           /\ Append(s, x)[Len(s) + 1] = x
  OBVIOUS

(* Only the empty sequence has length 0. *)
LEMMA Empty == ASSUME NEW S, NEW t \in Seq(S) PROVE t = <<>> <=> Len(t) = 0
  BY SMTT(30)

(* What the tail of a sequence holds. *)
LEMMA Tailed ==
    ASSUME NEW S, NEW s \in Seq(S), s # <<>>
    PROVE  /\ Len(s) \in Nat /\ Len(Tail(s)) = Len(s) - 1
           /\ Len(s) = 1 => Tail(s) = <<>>
           /\ Tail(s) = <<>> => Len(s) = 1
           /\ Len(s) # 1 => Tail(s)[Len(Tail(s))] = s[Len(s)]
<1>1. /\ Len(s) \in Nat /\ Len(s) # 0 /\ Len(Tail(s)) = Len(s) - 1 /\ Tail(s) \in Seq(S)
      /\ \A i \in 1..(Len(s) - 1) : Tail(s)[i] = s[i + 1]
  OBVIOUS
<1>2. Tail(s) = <<>> <=> Len(Tail(s)) = 0
  BY <1>1, Empty
<1>3. /\ Len(s) = 1 => Tail(s) = <<>>
      /\ Tail(s) = <<>> => Len(s) = 1
  BY <1>1, <1>2
<1>4. ASSUME Len(s) # 1 PROVE Tail(s)[Len(Tail(s))] = s[Len(s)]
  <2>1. Len(s) - 1 \in 1..(Len(s) - 1) /\ (Len(s) - 1) + 1 = Len(s)
    BY <1>1, <1>4
  <2> QED BY <2>1, <1>1
<1> QED BY <1>1, <1>3, <1>4

(* The initial state satisfies the invariant. *)
LEMMA InitInv == Init => IInv
<1> SUFFICES ASSUME Init PROVE IInv
  OBVIOUS
<1>1. TypeOK
  BY InitType
<1>2. /\ chain = <<>> /\ exec_q = <<>> /\ result_q = <<>> /\ persist_q = <<>> /\ DOMAIN chain = {}
      /\ DOMAIN exec_q = {} /\ DOMAIN result_q = {} /\ DOMAIN persist_q = {} /\ Len(chain) = 0
      /\ Len(result_q) = 0 /\ vote = None /\ persisting = None /\ epoch_proof = None
  BY DEF Init
<1>3. Pending = 0 /\ Stored = 0
  BY <1>2 DEF Pending, Stored
<1>4. NothingExecuted /\ ~TopOver
  BY <1>2, <1>3 DEF NothingExecuted, TopOver
<1>5. \A k \in Keys : St(k) = "absent" /\ ~Held(k) /\ task[k] = "idle" /\ item[k] = None
  BY DEF Init, BufferInit, St, Held, Absent
<1>6. ~IsReady
  BY DEF Init, BufferInit, IsReady
<1>7. ChainInv /\ ProofInv /\ OldCommittedInv /\ StoredInv /\ AwaitedInv
  BY <1>2 DEF ChainInv, ProofInv, OldCommittedInv, StoredInv, AwaitedInv
<1>8. PhaseInv
  BY <1>4 DEF PhaseInv, Quiet, Starting, Init, BufferInit
<1>9. NotReadyInv /\ NotStartedInv /\ EpochInv
  BY <1>4, <1>5 DEF NotReadyInv, NotStartedInv, EpochInv, Init, BufferInit
<1>10. BaseInv
  BY <1>2, PipelineAssumption DEF BaseInv, Init
<1>11. ScheduledInv /\ TaskInv /\ ItemInv
  BY <1>5 DEF ScheduledInv, TaskInv, ItemInv, Results
<1>12. ResultInv
  BY <1>2, <1>3, SMTT(30) DEF ResultInv
<1>13. ExecInv
  BY <1>2, <1>4 DEF ExecInv, EpochOver, Starting, Init, BufferInit
<1>14. HeldInv /\ EntryInv /\ TopInv
  BY <1>5, <1>6 DEF HeldInv, EntryInv, TopInv
<1>15. ParentInv /\ HeadInv /\ FrontInv
  BY DEF ParentInv, HeadInv, FrontInv, Init
<1>16. CommitInv
  BY <1>3, SMTT(30) DEF CommitInv, Init, BufferInit
<1>17. RequestInv /\ CurrentInv /\ QueueInv /\ OldInv /\ PersistingInv /\ FailInv
  BY <1>2 DEF RequestInv, CurrentInv, QueueInv, OldInv, PersistingInv, FailInv, Init
<1> QED BY <1>1, <1>7, <1>8, <1>9, <1>10, <1>11, <1>12, <1>13, <1>14, <1>15, <1>16, <1>17 DEF IInv

(* start_execution starts from the persisted number and the buffer's epoch. *)
LEMMA StepExecBoot ==
    ASSUME IInv, ExecBoot
    PROVE  IInv'
<1>t. TypeOK'
  BY TypeExecBoot DEF IInv
<1>v. UNCHANGED <<blocks, current_epoch, next_epoch,
                  latest_epoch_change_block_number, epoch_change_block_info, epoch_change_ready,
                  latest_commit_block_number, latest_finalized_block_number, buffer_state,
                  cons_epoch, cons_running, epoch_base, ordered, head, task, item, persist_q,
                  persisting, epoch_proof, vote, commit_pc, commit_epoch, commit_start, taken,
                  exec_q, chain, result_q, committed, persisted, notified, failed>>
  BY DEF ExecBoot, consVars, rethVars, bufferVars
<1>p. UNCHANGED Pending
  BY <1>v DEF Pending
<1>e. /\ NothingExecuted /\ chain = <<>> /\ exec_q = <<>> /\ result_q = <<>> /\ vote = None
      /\ DOMAIN chain = {} /\ DOMAIN exec_q = {} /\ DOMAIN result_q = {} /\ Len(chain) = 0
      /\ Len(exec_q) = 0 /\ Pending = 0 /\ Stored = 0 /\ committed = 0 /\ persisted = 0
  <2>1. NothingExecuted
    BY DEF IInv, ExecInv, Starting, ExecBoot
  <2>2. chain = <<>> /\ exec_q = <<>> /\ Pending = 0 /\ Len(chain) = 0 /\ Len(exec_q) = 0
    BY <2>1 DEF NothingExecuted
  <2>3. result_q = <<>> /\ vote = None
    <3>1. Len(result_q) \in Nat /\ result_q \in Seq(Computed)
      BY DEF IInv, TypeOK
    <3>2. Len(result_q) = 0 /\ vote = None
      BY <3>1, <2>2 DEF Pending
    <3> QED BY <3>1, <3>2, SMTT(30)
  <2>4. Stored = 0
    BY <2>2 DEF Stored
  <2>5. committed = 0 /\ persisted = 0
    BY <2>4, Order, SMTT(30), SMTT(31) DEF NatState
  <2> QED BY <2>1, <2>2, <2>3, <2>4, <2>5, SMTT(30)
<1>q. ~TopOver /\ ~TopOver' /\ \A e : ~EpochOver(e) /\ ~EpochOver(e)'
  BY <1>e, <1>v DEF TopOver, EpochOver
<1>b. /\ reth_epoch = 0 /\ current_epoch \in {0, 1} /\ exec_start' = 1 /\ exec_pc' = "poll"
      /\ reth_epoch' = current_epoch
  BY <1>e, SMTT(30) DEF ExecBoot, IInv, ExecInv, Starting
<1>f. ChainInv' /\ NotStartedInv' /\ EpochInv' /\ ProofInv' /\ BaseInv' /\ ScheduledInv' /\
      HeldInv' /\ EntryInv' /\ ParentInv' /\ TopInv' /\ OldCommittedInv' /\ StoredInv' /\
      TaskInv' /\ ItemInv' /\ RequestInv' /\ CurrentInv' /\ QueueInv' /\ OldInv' /\ HeadInv' /\
      PersistingInv' /\ FrontInv' /\ FailInv'
  BY <1>v, <1>p, Frames
<1>Phase. PhaseInv'
  <2>1. Quiet
    BY <1>q DEF IInv, PhaseInv, Changing, Released
  <2>2. Starting' \/ (reth_epoch' = current_epoch' /\ reth_epoch' # 0 /\ exec_pc' = "poll")
    BY <1>b, <1>e, <1>v, <1>p DEF Starting, NothingExecuted
  <2> QED BY <2>1, <2>2, <1>q, <1>v, <1>p DEF PhaseInv, Quiet
<1>NotReady. NotReadyInv'
  BY <1>v DEF NotReadyInv, ExecBoot, IsReady
<1>Result. ResultInv'
  BY <1>e, <1>v, <1>p, SMTT(30) DEF ResultInv
<1>Awaited. AwaitedInv'
  BY <1>e, <1>v DEF AwaitedInv
<1>Exec. ExecInv'
  <2>1. exec_pc' # "boot" /\ Len(chain') = 0 /\ Len(exec_q') = 0 /\ exec_start' = 1
        /\ DOMAIN exec_q' = {}
    BY <1>b, <1>e, <1>v
  <2>2. Stale' = 0
    BY <2>1, SMTT(30) DEF Stale
  <2> QED BY <2>1, <2>2, SMTT(30) DEF ExecInv
<1>Commit. CommitInv'
  <2>1. commit_epoch <= reth_epoch /\ commit_epoch \in Nat /\ current_epoch \in Nat
    BY Order DEF NatState, IInv, CommitInv
  <2>2. commit_epoch' <= reth_epoch'
    BY <2>1, <1>b, <1>v, SMTT(30)
  <2> QED BY <2>2, <1>v, <1>p DEF IInv, CommitInv, Stored
<1> QED BY <1>t, <1>f, <1>Phase, <1>NotReady, <1>Result, <1>Awaited, <1>Exec, <1>Commit DEF IInv

(* init_block_buffer_manager puts the genesis entry into the buffer. *)
LEMMA StepBootBuffer ==
    ASSUME IInv, BootBuffer
    PROVE  IInv'
<1>t. TypeOK'
  BY TypeBootBuffer DEF IInv
<1>v. UNCHANGED <<next_epoch, epoch_change_block_info, epoch_change_ready,
                  cons_epoch, cons_running, epoch_base, ordered, head, task, item, persist_q,
                  persisting, epoch_proof, reth_epoch, exec_pc, exec_start, vote, commit_pc,
                  commit_epoch, commit_start, taken, exec_q, chain, result_q, committed,
                  persisted, notified, failed>>
  BY DEF BootBuffer, InitBuffer, consVars, rethVars, bufferVars
<1>p. UNCHANGED Pending
  BY <1>v DEF Pending
<1>e. /\ NothingExecuted /\ chain = <<>> /\ exec_q = <<>> /\ result_q = <<>> /\ vote = None
      /\ DOMAIN chain = {} /\ DOMAIN exec_q = {} /\ DOMAIN result_q = {} /\ Len(chain) = 0
      /\ Len(exec_q) = 0 /\ Pending = 0 /\ Stored = 0 /\ committed = 0 /\ persisted = 0
  <2>1. NothingExecuted
    BY DEF IInv, NotReadyInv, NotStartedInv, BootBuffer
  <2>2. chain = <<>> /\ exec_q = <<>> /\ Pending = 0 /\ Len(chain) = 0 /\ Len(exec_q) = 0
    BY <2>1 DEF NothingExecuted
  <2>3. result_q = <<>> /\ vote = None
    <3>1. Len(result_q) \in Nat /\ result_q \in Seq(Computed)
      BY DEF IInv, TypeOK
    <3>2. Len(result_q) = 0 /\ vote = None
      BY <3>1, <2>2 DEF Pending
    <3> QED BY <3>1, <3>2
  <2>4. Stored = 0
    BY <2>2 DEF Stored
  <2>5. committed = 0 /\ persisted = 0
    BY <2>4, Order DEF NatState
  <2> QED BY <2>1, <2>2, <2>3, <2>4, <2>5
<1>q. ~TopOver /\ ~TopOver' /\ \A e : ~EpochOver(e) /\ ~EpochOver(e)'
  BY <1>e, <1>v DEF TopOver, EpochOver
<1>b. /\ ~cons_running /\ cons_epoch = 0 /\ exec_pc = "boot" /\ persist_q = <<>>
      /\ current_epoch' \in {0, 1} /\ latest_commit_block_number' = 0
      /\ latest_finalized_block_number' = 0 /\ latest_epoch_change_block_number' = 0
      /\ buffer_state' = "Ready" /\ \A k \in Keys : task[k] = "idle"
  <2>1. cons_epoch = 0 /\ exec_pc = "boot"
    BY DEF IInv, NotReadyInv, BootBuffer
  <2>2. ~cons_running /\ persist_q = <<>> /\ \A k \in Keys : task[k] = "idle"
    BY <2>1 DEF IInv, NotStartedInv
  <2> QED BY <2>1, <2>2 DEF BootBuffer, InitBuffer
<1>k. \A k \in Keys : /\ Held(k)' <=> k = <<0, 0>>
                      /\ k = <<0, 0>> => St(k)' = "historical" /\ blocks'[k].id = k
  <2>1. <<0, 0>> \in Keys /\ blocks \in [Keys -> BlockStates \cup {Absent}]
    BY BufferAssumption DEF Keys, IInv, TypeOK, BufferTypeOK
  <2>2. blocks' = [blocks EXCEPT ![<<0, 0>>] = [st |-> "historical", id |-> <<0, 0>>]]
    BY DEF BootBuffer, InitBuffer, GenesisId
  <2>3. \A k \in Keys : ~Held(k)
    BY DEF IInv, NotReadyInv, BootBuffer
  <2> QED BY <2>1, <2>2, <2>3 DEF Held, St
<1>f. ChainInv' /\ ProofInv' /\ BaseInv' /\ ScheduledInv' /\ ResultInv' /\ ItemInv' /\
      RequestInv' /\ PersistingInv' /\ FailInv'
  BY <1>v, <1>p, Frames
<1>Phase. PhaseInv'
  <2>1. Quiet /\ reth_epoch = 0
    BY <1>q, <1>b DEF IInv, PhaseInv, Changing, Released, ExecInv, Starting
  <2>2. Starting'
    BY <2>1, <1>b, <1>e, <1>v, <1>p DEF Starting, NothingExecuted
  <2> QED BY <2>1, <2>2, <1>q, <1>b, <1>v, <1>p DEF PhaseInv, Quiet
<1>NotReady. NotReadyInv'
  BY <1>b DEF NotReadyInv, IsReady
<1>NotStarted. NotStartedInv'
  BY <1>b, <1>v, <1>p DEF IInv, NotStartedInv, NothingExecuted
<1>Epoch. EpochInv'
  BY <1>b, <1>v DEF EpochInv
<1>Awaited. AwaitedInv'
  BY <1>e, <1>v DEF AwaitedInv
<1>Exec. ExecInv'
  BY <1>b, <1>e, <1>q, <1>v, <1>p DEF IInv, ExecInv, Starting, NothingExecuted
<1>Held. HeldInv'
  BY <1>k, <1>v, <1>b DEF HeldInv, HeldOK
<1>Entry. EntryInv'
  <2>1. \A k \in Keys : St(k)' \notin {"computed", "committed"}
    BY <1>k DEF Held
  <2> QED BY <2>1 DEF EntryInv
<1>Parent. ParentInv'
  BY <1>b, <1>v DEF ParentInv
<1>Top. TopInv'
  <2>1. TopKey' = <<0, 0>> /\ <<0, 0>> \in Keys
    BY <1>e, <1>v, BufferAssumption DEF TopKey, Keys
  <2> QED BY <2>1, <1>k DEF TopInv
<1>Commit. CommitInv'
  <2>1. latest_commit_block_number' <= committed' /\ latest_finalized_block_number' <= committed'
    BY <1>b, <1>e, <1>v, SMTT(30)
  <2> QED BY <2>1, <1>v, <1>p DEF IInv, CommitInv, Stored
<1>OldCommitted. OldCommittedInv'
  BY <1>e, <1>v DEF OldCommittedInv
<1>Stored. StoredInv'
  BY <1>e, <1>v DEF StoredInv
<1>Task. TaskInv'
  BY <1>b, <1>v DEF TaskInv, Results
<1>Current. CurrentInv'
  BY <1>b, <1>v DEF CurrentInv
<1>Queue. QueueInv'
  BY <1>b, <1>v DEF QueueInv
<1>Old. OldInv'
  BY <1>b, <1>v DEF OldInv
<1>Head. HeadInv'
  BY <1>b, <1>v DEF HeadInv
<1>Front. FrontInv'
  BY <1>b, <1>v DEF FrontInv
<1> QED BY <1>t, <1>f, <1>Phase, <1>NotReady, <1>NotStarted, <1>Epoch, <1>Awaited, <1>Exec,
           <1>Held, <1>Entry, <1>Parent, <1>Top, <1>Commit, <1>OldCommitted, <1>Stored, <1>Task,
           <1>Current, <1>Queue, <1>Old, <1>Head, <1>Front DEF IInv

(* remove_committed_blocks keeps the entries that are still needed. *)
LEMMA StepCleanBuffer ==
    ASSUME IInv, CleanBuffer
    PROVE  IInv'
<1>t. TypeOK'
  BY TypeCleanBuffer DEF IInv
<1>v. UNCHANGED <<current_epoch, next_epoch, latest_epoch_change_block_number,
                  epoch_change_block_info, epoch_change_ready, latest_commit_block_number,
                  latest_finalized_block_number, buffer_state, cons_epoch, cons_running,
                  epoch_base, ordered, head, task, item, persist_q, persisting, epoch_proof,
                  reth_epoch, exec_pc, exec_start, vote, commit_pc, commit_epoch, commit_start,
                  taken, exec_q, chain, result_q, committed, persisted, notified, failed>>
  BY DEF CleanBuffer, RemoveCommittedBlocks, consVars, rethVars, bufferVars
<1>p. UNCHANGED Pending
  BY <1>v DEF Pending
<1>k. \A k \in Keys : /\ k[2] >= latest_finalized_block_number => blocks'[k] = blocks[k]
                      /\ Held(k)' => blocks'[k] = blocks[k]
  BY DEF CleanBuffer, RemoveCommittedBlocks, Held, St, Absent
<1>l. /\ latest_finalized_block_number \in Nat /\ committed \in Nat /\ Stored \in Nat
      /\ Len(chain) \in Nat /\ latest_finalized_block_number <= committed
      /\ committed <= Stored /\ Stored <= Len(chain)
  BY Order DEF NatState, IInv, CommitInv
<1>f. ChainInv' /\ PhaseInv' /\ NotStartedInv' /\ EpochInv' /\ ProofInv' /\ BaseInv' /\
      ScheduledInv' /\ ResultInv' /\ CommitInv' /\ OldCommittedInv' /\ TaskInv' /\ ItemInv' /\
      RequestInv' /\ QueueInv' /\ PersistingInv' /\ FrontInv' /\ FailInv'
  BY <1>v, <1>p, Frames
<1>NotReady. NotReadyInv'
  BY <1>k, <1>v DEF IInv, NotReadyInv, IsReady, Held, St
<1>Awaited. AwaitedInv'
  <2>1. SUFFICES ASSUME NEW i \in DOMAIN chain, i > Stored
                 PROVE  /\ chain[i].epoch = reth_epoch /\ reth_epoch = current_epoch
                        /\ blocks'[<<reth_epoch, i>>].st = "ordered"
    BY <1>v, <1>p DEF AwaitedInv, Stored, St
  <2>2. /\ chain[i].epoch = reth_epoch /\ reth_epoch = current_epoch
        /\ St(<<reth_epoch, i>>) = "ordered"
    BY <2>1 DEF IInv, AwaitedInv
  <2>3. i \in Numbers /\ i \in Nat
    BY ChainNumbers
  <2>4. <<reth_epoch, i>> \in Keys /\ i >= latest_finalized_block_number
    BY <2>1, <2>3, <1>l DEF Keys, IInv, TypeOK
  <2> QED BY <2>2, <2>4, <1>k DEF St
<1>Exec. ExecInv'
  <2>1. Stale' = Stale /\ (Starting' <=> Starting) /\ \A e : EpochOver(e)' <=> EpochOver(e)
    BY <1>v, <1>p DEF Stale, Starting, NothingExecuted, EpochOver
  <2>2. SUFFICES ASSUME exec_pc # "boot", ~EpochOver(reth_epoch)
                 PROVE  \A i \in DOMAIN exec_q : i > Stale => Fresh(exec_q[i], Len(chain) + i - Stale)'
    <3>1. \A i \in DOMAIN exec_q : i \in Int
      BY PushedTypes
    <3>2. Stale \in Int
      BY PushedTypes
    <3> QED BY <2>1, <1>v, <3>1, <3>2 DEF IInv, ExecInv
  <2>3. TAKE i \in DOMAIN exec_q
  <2>4. HAVE i > Stale
  <2>5. Fresh(exec_q[i], Len(chain) + i - Stale)
    <3>1. i \in Nat /\ Stale \in Int
      BY PushedTypes
    <3> QED BY <2>2, <2>4, <3>1 DEF IInv, ExecInv
  <2>6. exec_q[i].num = Len(chain) + i - Stale /\ exec_q[i].num \in Numbers
    BY <2>5, PushedTypes DEF Fresh
  <2>7. Len(chain) + i - Stale >= latest_finalized_block_number
    <3>1. i \in Nat /\ Stale \in Int
      BY PushedTypes
    <3> QED BY <3>1, <2>4, <1>l, SMTT(30)
  <2>8. <<reth_epoch, Len(chain) + i - Stale>> \in Keys
    BY <2>6 DEF Keys, IInv, TypeOK
  <2>9. blocks'[<<reth_epoch, Len(chain) + i - Stale>>] = blocks[<<reth_epoch, Len(chain) + i - Stale>>]
    BY <2>7, <2>8, <1>k
  <2>10. QED BY <2>1, <2>5, <2>9, <1>v DEF Fresh, St
<1>Held. HeldInv'
  <2> SUFFICES ASSUME NEW k \in Keys, Held(k)' PROVE HeldOK(k)'
    BY DEF HeldInv
  <2>1. blocks'[k] = blocks[k]
    BY <1>k
  <2>2. HeldOK(k)
    BY <2>1 DEF IInv, HeldInv, Held, St
  <2> QED BY <2>1, <2>2, <1>v DEF HeldOK, St
<1>Entry. EntryInv'
  BY <1>k, <1>v, <1>p DEF IInv, EntryInv, EntryResult, InChain, Stored, IsSuffixBlock, Held, St
<1>Parent. ParentInv'
  <2>1. \A n \in Numbers : <<cons_epoch, n>> \in Keys
    BY DEF Keys, IInv, TypeOK
  <2> QED BY <2>1, <1>k, <1>v, <1>p DEF IInv, ParentInv, RightParent, Stored, Held, St
<1>Top. TopInv'
  <2>1. SUFFICES ASSUME IsReady PROVE Held(TopKey)'
    BY <1>v DEF TopInv, IsReady
  <2>2. Held(TopKey) /\ TopKey' = TopKey
    BY <2>1, <1>v DEF IInv, TopInv, TopKey, Top
  <2>3. TopKey \in Keys /\ TopKey[2] = Len(chain)
    BY TopKeyType
  <2> QED BY <2>2, <2>3, <1>k, <1>l, SMTT(30) DEF Held, St
<1>Stored. StoredInv'
  <2>1. SUFFICES ASSUME NEW i \in DOMAIN chain, i > committed, i <= Stored
                 PROVE  blocks'[<<chain[i].epoch, i>>].st \in {"computed", "committed"}
    BY <1>v, <1>p DEF StoredInv, Stored, St
  <2>2. St(<<chain[i].epoch, i>>) \in {"computed", "committed"}
    BY <2>1 DEF IInv, StoredInv
  <2>3. i \in Nat /\ <<chain[i].epoch, i>> \in Keys
    BY ChainNumbers
  <2> QED BY <2>1, <2>2, <2>3, <1>k, <1>l, SMTT(30) DEF St
<1>Current. CurrentInv'
  <2>1. ASSUME NEW i \in DOMAIN persist_q, CurrentOK(i) PROVE CurrentOK(i)'
    <3>1. \A n \in Numbers : <<persist_q[i].epoch, n>> \in Keys
      BY RequestTypes DEF Keys
    <3> QED BY <3>1, <2>1, <1>k, <1>v DEF CurrentOK, Held, St
  <2> QED BY <2>1, <1>v DEF IInv, CurrentInv
<1>Old. OldInv'
  <2>1. \A i \in DOMAIN persist_q, n \in Numbers : <<persist_q[i].epoch, n>> \in Keys
    BY RequestTypes DEF Keys
  <2> QED BY <2>1, <1>k, <1>v DEF IInv, OldInv, Held, St
<1>Head. HeadInv'
  <2>1. \A n \in Numbers : <<cons_epoch, n>> \in Keys
    BY DEF Keys, IInv, TypeOK
  <2> QED BY <2>1, <1>k, <1>v, <1>p DEF IInv, HeadInv, Stored, Held, St
<1> QED BY <1>t, <1>f, <1>NotReady, <1>Awaited, <1>Exec, <1>Held, <1>Entry, <1>Parent, <1>Top,
           <1>Stored, <1>Current, <1>Old, <1>Head DEF IInv

(* A batch of set_commit_blocks of any length keeps the types of the buffer. *)
LEMMA TypeCommitAny ==
    ASSUME BufferTypeOK, NEW batch, NEW e \in Epochs, SetCommitBlocks(batch, e)
    PROVE  BufferTypeOK'
<1>2. ASSUME NEW k \in Keys, k[1] = e, k[2] \in NewlyCommitted(batch, e)
      PROVE  [st |-> "committed", id |-> blocks[k].id, res |-> blocks[k].res,
              notifier |-> k[2] \in WithNotifier(batch, e)] \in BlockStates
  <2>1. St(k) = "computed"
    BY <1>2, KeyParts DEF NewlyCommitted
  <2>2. blocks[k].id \in Ids /\ blocks[k].res \in Results
    BY <2>1 DEF BufferTypeOK, BlockStates, St, Absent
  <2>3. (k[2] \in WithNotifier(batch, e)) \in BOOLEAN
    OBVIOUS
  <2> QED BY <2>2, <2>3 DEF BlockStates
<1> QED BY <1>2 DEF SetCommitBlocks, BufferTypeOK

(* Types: the start of the first epoch. *)
LEMMA TypeBootEpoch == ASSUME TypeOK, BootEpoch PROVE TypeOK'
<1>1. BufferTypeOK'
  BY PipelineAssumption DEF TypeOK, BufferTypeOK, BootEpoch, InitEpoch
<1> QED BY <1>1, PipelineAssumption DEF TypeOK, BootEpoch, rethVars

(* Types: process_ordered_blocks. *)
LEMMA TypeProcessOrdered == ASSUME TypeOK, ProcessOrderedBlocks PROVE TypeOK'
<1>1. BufferTypeOK'
  BY DEF TypeOK, BufferTypeOK, ProcessOrderedBlocks, bufferVars
<1>2. <<cons_epoch, ordered + 1>> \in Keys
  BY DEF TypeOK, ProcessOrderedBlocks, Keys
<1> QED BY <1>1, <1>2 DEF TypeOK, ProcessOrderedBlocks, rethVars

(* Types: set_ordered_blocks. *)
LEMMA TypeScheduleSetOrdered ==
    ASSUME TypeOK, ScheduledInv, NEW k \in Keys, ScheduleSetOrdered(k) PROVE TypeOK'
<1>1. BufferTypeOK'
  <2>1. ConsensusParent(k) \in Ids
    <3>1. k[1] \in Epochs /\ k[2] \in Numbers /\ epoch_base[k[1]] \in Numbers
      BY KeyParts DEF TypeOK
    <3>2. CASE k[2] = epoch_base[k[1]] + 1
      BY <3>1, <3>2, BufferAssumption, PipelineAssumption
         DEF ConsensusParent, EpochGenesisId, Keys
    <3>3. CASE k[2] # epoch_base[k[1]] + 1
      <4>1. k[2] # 0
        BY DEF ScheduledInv, ScheduleSetOrdered
      <4>2. k[2] - 1 \in Numbers
        BY <3>1, <4>1, Before
      <4> QED BY <3>1, <3>3, <4>2, PipelineAssumption DEF ConsensusParent, Keys
    <3> QED BY <3>2, <3>3
  <2> QED BY <2>1, KeyParts, TypeConsensus, PipelineAssumption
          DEF ScheduleSetOrdered, AnyConsensusCall, TypeOK
<1> QED BY <1>1 DEF TypeOK, ScheduleSetOrdered, rethVars

(* What one poll of get_executed_res answers, by the state of the entry. *)
LEMMA ExecutedResCases ==
    ASSUME BufferTypeOK, NEW k \in Keys
    PROVE  /\ St(k) \in {"computed", "committed"} /\ blocks[k].id = k =>
                 ExecutedRes(k, k[2], k[1]) = blocks[k].res
           /\ St(k) \in {"computed", "committed"} /\ blocks[k].id # k =>
                 ExecutedRes(k, k[2], k[1]) = "err"
           /\ St(k) = "ordered" => ExecutedRes(k, k[2], k[1]) =
                 IF IsSuffixBlock(k[2]) THEN "dummy_reconfig" ELSE "wait"
           /\ St(k) = "historical" => ExecutedRes(k, k[2], k[1]) = "err"
           /\ St(k) = "absent" => ExecutedRes(k, k[2], k[1]) =
                 IF k[1] < current_epoch THEN "dummy" ELSE "err"
           /\ St(k) \in {"absent", "ordered", "computed", "committed", "historical"}
<1>1. k = <<k[1], k[2]>>
  BY KeyParts
<1>2. St(k) \in {"absent", "ordered", "computed", "committed", "historical"}
  BY DEF BufferTypeOK, BlockStates, Absent, St
<1>3. CASE St(k) \in {"computed", "committed"}
  BY <1>1, <1>3 DEF ExecutedRes, St
<1>4. CASE St(k) = "ordered"
  BY <1>1, <1>4 DEF ExecutedRes, St
<1>5. CASE St(k) = "historical"
  BY <1>1, <1>5 DEF ExecutedRes, St
<1>6. CASE St(k) = "absent"
  BY <1>1, <1>6 DEF ExecutedRes, St
<1> QED BY <1>2, <1>3, <1>4, <1>5, <1>6

(* Types: get_executed_res. *)
LEMMA TypeScheduleGetExecuted ==
    ASSUME TypeOK, NEW k \in Keys, ScheduleGetExecuted(k) PROVE TypeOK'
<1>1. BufferTypeOK'
  BY KeyParts, TypeConsensus, PipelineAssumption
     DEF ScheduleGetExecuted, AnyConsensusCall, TypeOK
<1>2. ExecutedRes(k, k[2], k[1]) \in Results \cup {"wait", "err"}
  <2>1. St(k) \in {"computed", "committed"} => blocks[k].res \in Results
    BY DEF TypeOK, BufferTypeOK, BlockStates, Absent, St
  <2> QED BY <2>1, ExecutedResCases DEF TypeOK, Results
<1> QED BY <1>1, <1>2 DEF TypeOK, ScheduleGetExecuted, rethVars

(* Types: process_execution_response. *)
LEMMA TypeProcessResponse ==
    ASSUME TypeOK, NEW k \in Keys, ProcessExecutionResponse(k) PROVE TypeOK'
<1>1. BufferTypeOK'
  BY DEF TypeOK, BufferTypeOK, ProcessExecutionResponse, bufferVars
<1>2. EpochEnd(k, task[k]) \in Numbers \cup {None}
  BY KeyParts DEF TypeOK, BufferTypeOK, EpochChangeCache, EpochEnd, IsSuffixBlock
<1>3. task[k] \in Results => [res |-> task[k], end |-> EpochEnd(k, task[k])] \in Items
  BY <1>2 DEF Items
<1> QED BY <1>1, <1>3, ZenonT(40) DEF TypeOK, ProcessExecutionResponse, rethVars

(* Types: retry_schedule_phase. *)
LEMMA TypeRetry == ASSUME TypeOK, RetrySchedulePhase PROVE TypeOK'
<1>1. BufferTypeOK'
  BY DEF TypeOK, BufferTypeOK, RetrySchedulePhase, bufferVars
<1> QED BY <1>1 DEF TypeOK, RetrySchedulePhase, rethVars

(* Types: advance_head. *)
LEMMA TypeAdvanceHead ==
    ASSUME TypeOK, NEW n \in Numbers, AdvanceHead(n) PROVE TypeOK'
<1>1. BufferTypeOK'
  BY DEF TypeOK, BufferTypeOK, AdvanceHead, bufferVars
<1>2. head + 1 \in Numbers
  <2>1. head \in Nat /\ n \in Nat /\ n > head
    BY Naturals DEF AdvanceHead, Live, TypeOK
  <2> QED BY <2>1, Below
<1>3. [epoch |-> cons_epoch, lo |-> head + 1, hi |-> n] \in Requests
  BY <1>2 DEF Requests, TypeOK
<1> QED BY <1>1, <1>3 DEF TypeOK, AdvanceHead, rethVars

(* The request at the head of the persisting phase, as the batch set_commit_blocks gets. *)
BatchOf(r) ==
    [i \in 1..(r.hi - r.lo + 1) |-> [id |-> <<r.epoch, r.lo + i - 1>>, num |-> r.lo + i - 1]]

(* Types: commit_ledger. *)
LEMMA TypeCommitLedger == ASSUME TypeOK, CommitLedger PROVE TypeOK'
<1> DEFINE r == Head(persist_q)
           w == WithNotifier(BatchOf(r), r.epoch)
<1>1. r \in Requests /\ Tail(persist_q) \in Seq(Requests)
  <2>1. persist_q \in Seq(Requests)
    BY DEF TypeOK
  <2>2. persist_q # <<>>
    BY DEF CommitLedger
  <2> QED BY <2>1, <2>2, SMTT(30), SMTT(31)
<1>2. /\ SetCommitBlocks(BatchOf(r), r.epoch)
      /\ persist_q' = Tail(persist_q)
      /\ persisting' \in {persisting, [epoch |-> r.epoch, hi |-> r.hi, wait |-> w]}
      /\ failed' \in {failed, failed \cup {"commit_ledger"}}
      /\ UNCHANGED <<cons_epoch, cons_running, epoch_base, ordered, head, task, item,
                     epoch_proof, reth_epoch, exec_pc, exec_start, vote, commit_pc,
                     commit_epoch, commit_start, taken, exec_q, chain, result_q,
                     committed, persisted, notified>>
  BY DEF CommitLedger, BatchOf
<1>3. BufferTypeOK'
  BY <1>1, <1>2, TypeCommitAny DEF TypeOK, Requests
<1>4. w \subseteq Numbers
  <2> SUFFICES ASSUME NEW j \in Applied(BatchOf(r), r.epoch)
               PROVE  BatchOf(r)[j].num \in Numbers
    BY DEF WithNotifier, NewlyCommitted
  <2>1. r.lo \in Numbers /\ r.hi \in Numbers
    BY <1>1 DEF Requests
  <2>2. j \in 1..(r.hi - r.lo + 1)
    BY DEF Applied, BatchOf
  <2> HIDE DEF r
  <2>3. r.lo \in Nat /\ r.hi \in Nat
    BY <2>1, Naturals
  <2>4. r.lo + j - 1 \in Nat /\ r.lo + j - 1 <= r.hi
    BY <2>2, <2>3
  <2>5. r.lo + j - 1 \in Numbers
    BY <2>1, <2>4, Below
  <2> QED BY <2>2, <2>5 DEF BatchOf
<1>5. [epoch |-> r.epoch, hi |-> r.hi, wait |-> w] \in InPersist
  BY <1>1, <1>4 DEF Requests, InPersist
<1> HIDE DEF r, w
<1> QED BY <1>1, <1>2, <1>3, <1>5, ZenonT(40) DEF TypeOK

(* Types: the end of commit_ledger. *)
LEMMA TypePersistDone == ASSUME TypeOK, PersistingInv, PersistDone PROVE TypeOK'
<1>1. BufferTypeOK'
  BY DEF TypeOK, BufferTypeOK, PersistDone, bufferVars
<1>2. item[<<persisting.epoch, persisting.hi>>] \in Items
  <2>1. <<persisting.epoch, persisting.hi>> \in Keys
    BY DEF TypeOK, PersistDone, InPersist, Keys
  <2> QED BY <2>1 DEF TypeOK, PersistingInv, PersistDone
<1> QED BY <1>1, <1>2 DEF TypeOK, PersistDone, rethVars, Items

(* Types: end_epoch. *)
LEMMA TypeEndEpoch == ASSUME TypeOK, EndEpoch PROVE TypeOK'
<1>1. BufferTypeOK'
  BY DEF TypeOK, BufferTypeOK, EndEpoch, ReleaseInflightBlocks, bufferVars
<1>2. persist_q' \in Seq(Requests)
  <2>1. CASE persist_q' = <<>>
    BY <2>1, SMTT(30)
  <2> QED BY <2>1 DEF EndEpoch, TypeOK
<1> QED BY <1>1, <1>2 DEF TypeOK, EndEpoch, rethVars

(* Types: start_new_epoch. *)
LEMMA TypeStartNewEpoch == ASSUME TypeOK, StartNewEpoch PROVE TypeOK'
<1>1. BufferTypeOK'
  BY DEF TypeOK, BufferTypeOK, StartNewEpoch, bufferVars
<1> QED BY <1>1 DEF TypeOK, StartNewEpoch, rethVars

(* The first epoch starts from the genesis block. *)
LEMMA StepBootEpoch ==
    ASSUME IInv, BootEpoch
    PROVE  IInv'
<1>t. TypeOK'
  BY TypeBootEpoch DEF IInv
<1>v. UNCHANGED <<blocks, next_epoch, latest_epoch_change_block_number,
                  epoch_change_block_info, epoch_change_ready, latest_commit_block_number,
                  latest_finalized_block_number, buffer_state, epoch_base, ordered, head, task,
                  item, persist_q, persisting, epoch_proof, reth_epoch, exec_pc, exec_start,
                  vote, commit_pc, commit_epoch, commit_start, taken, exec_q, chain, result_q,
                  committed, persisted, notified, failed>>
  BY DEF BootEpoch, InitEpoch, consVars, rethVars, bufferVars
<1>p. UNCHANGED Pending
  BY <1>v DEF Pending
<1>e. /\ NothingExecuted /\ chain = <<>> /\ exec_q = <<>> /\ result_q = <<>> /\ vote = None
      /\ DOMAIN chain = {} /\ DOMAIN exec_q = {} /\ DOMAIN result_q = {} /\ Len(chain) = 0
      /\ Len(exec_q) = 0 /\ Pending = 0 /\ Stored = 0 /\ committed = 0 /\ persisted = 0
  <2>1. NothingExecuted
    BY DEF IInv, NotStartedInv, BootEpoch
  <2>2. chain = <<>> /\ exec_q = <<>> /\ Pending = 0 /\ Len(chain) = 0 /\ Len(exec_q) = 0
    BY <2>1 DEF NothingExecuted
  <2>3. result_q = <<>> /\ vote = None
    <3>1. Len(result_q) \in Nat /\ result_q \in Seq(Computed)
      BY DEF IInv, TypeOK
    <3>2. Len(result_q) = 0 /\ vote = None
      BY <3>1, <2>2 DEF Pending
    <3> QED BY <3>1, <3>2
  <2>4. Stored = 0
    BY <2>2 DEF Stored
  <2>5. committed = 0 /\ persisted = 0
    BY <2>4, Order, SMTT(30) DEF NatState
  <2> QED BY <2>1, <2>2, <2>3, <2>4, <2>5
<1>q. ~TopOver /\ ~TopOver' /\ \A e : ~EpochOver(e) /\ ~EpochOver(e)'
  BY <1>e, <1>v DEF TopOver, EpochOver
<1>b. /\ cons_epoch = 0 /\ epoch_proof = None /\ persist_q = <<>> /\ persisting = None
      /\ current_epoch \in {0, 1} /\ \A k \in Keys : task[k] = "idle"
      /\ current_epoch' = 1 /\ cons_epoch' = 1 /\ cons_running' = TRUE /\ IsReady
  BY DEF IInv, NotStartedInv, BootEpoch, InitEpoch
<1>h. \A k \in Keys : Held(k) \/ St(k) # "absent" => k = <<0, 0>> /\ St(k) = "historical"
  <2>1. \A k \in Keys : Held(k) => k[1] <= 0 /\ (k[1] = 0 => k = <<0, 0>>)
           /\ (St(k) = "historical" <=> k = <<0, 0>>)
    BY <1>b DEF IInv, HeldInv, HeldOK
  <2>2. \A k \in Keys : k[1] \in Nat
    BY KeyParts, Naturals
  <2> QED BY <2>1, <2>2, SMTT(30) DEF Held
<1>f. ChainInv' /\ ResultInv' /\ TopInv' /\ CommitInv' /\ StoredInv' /\ ItemInv' /\ FailInv'
  BY <1>v, <1>p, Frames
<1>Phase. PhaseInv'
  <2>1. Quiet
    BY <1>q DEF IInv, PhaseInv, Changing, Released
  <2>2. CASE Starting
    BY <2>1, <2>2, <1>q, <1>b, <1>v, <1>p DEF PhaseInv, Quiet, Starting, NothingExecuted
  <2>3. CASE reth_epoch = current_epoch /\ reth_epoch # 0 /\ exec_pc = "poll"
    BY <2>1, <2>3, <1>q, <1>b, <1>v, <1>p DEF PhaseInv, Quiet
  <2> QED BY <2>1, <2>2, <2>3 DEF Quiet
<1>NotReady. NotReadyInv'
  BY <1>b, <1>v DEF NotReadyInv, IsReady
<1>NotStarted. NotStartedInv'
  BY <1>b DEF NotStartedInv
<1>Epoch. EpochInv'
  BY <1>b DEF EpochInv
<1>Proof. ProofInv'
  BY <1>b, <1>v DEF ProofInv
<1>Base. BaseInv'
  <2>1. epoch_base'[1] = 0 /\ head' = 0 /\ ordered' \in Nat /\ Len(chain') = 0
    BY <1>b, <1>e, <1>v, Order DEF IInv, BaseInv, NatState
  <2> QED BY <2>1, <1>b, <1>e, <1>v, SMTT(30) DEF BaseInv
<1>Scheduled. ScheduledInv'
  BY <1>b, <1>v DEF ScheduledInv
<1>Awaited. AwaitedInv'
  BY <1>e, <1>v DEF AwaitedInv
<1>Exec. ExecInv'
  <2>1. exec_pc = "boot" => Starting'
    BY <1>b, <1>v, <1>p DEF IInv, ExecInv, Starting, NothingExecuted
  <2>2. Stale' = Stale
    BY <1>v DEF Stale
  <2> QED BY <2>1, <2>2, <1>e, <1>q, <1>v DEF IInv, ExecInv
<1>Held. HeldInv'
  <2>1. \A k \in Keys : Held(k)' => k = <<0, 0>> /\ HeldOK(k)
    BY <1>h, <1>v DEF IInv, HeldInv, Held, St
  <2> QED BY <2>1, <1>b, <1>v, SMTT(30) DEF HeldInv, HeldOK, St
<1>Entry. EntryInv'
  BY <1>h, <1>v DEF EntryInv, St
<1>Parent. ParentInv'
  <2>1. \A n \in Numbers : <<1, n>> \in Keys
    BY PipelineAssumption DEF Keys
  <2> QED BY <2>1, <1>b, <1>h, <1>v DEF ParentInv, St
<1>OldCommitted. OldCommittedInv'
  BY <1>e, <1>v DEF OldCommittedInv
<1>Task. TaskInv'
  BY <1>b, <1>v DEF TaskInv, Results
<1>z. DOMAIN persist_q' = {}
  BY <1>b, <1>v
<1>Request. RequestInv'
  BY <1>z DEF RequestInv
<1>Current. CurrentInv'
  BY <1>z DEF CurrentInv
<1>Queue. QueueInv'
  BY <1>z DEF QueueInv
<1>Old. OldInv'
  BY <1>z DEF OldInv
<1>Head. HeadInv'
  <2>1. \A n \in Numbers : <<1, n>> \in Keys
    BY PipelineAssumption DEF Keys
  <2>2. head' = 0 /\ committed' = 0 /\ Stored' = 0
    BY <1>e, <1>b, <1>v, <1>p DEF Stored, IInv, BaseInv
  <2> QED BY <2>1, <2>2, <1>b, <1>h, <1>v, SMTT(30) DEF HeadInv, St
<1>Persisting. PersistingInv'
  BY <1>b, <1>v DEF PersistingInv
<1>Front. FrontInv'
  <2>1. Stored' = 0
    BY <1>e, <1>v, <1>p DEF Stored
  <2>2. \A n : ~EndsHere(n)'
    BY <2>1, SMTT(30) DEF EndsHere
  <2> QED BY <2>2 DEF FrontInv
<1> QED BY <1>t, <1>f, <1>Phase, <1>NotReady, <1>NotStarted, <1>Epoch, <1>Proof, <1>Base,
           <1>Scheduled, <1>Awaited, <1>Exec, <1>Held, <1>Entry, <1>Parent, <1>OldCommitted,
           <1>Task, <1>Request, <1>Current, <1>Queue, <1>Old, <1>Head, <1>Persisting, <1>Front DEF IInv

(* Types: start_commit_vote. *)
LEMMA TypeVoteRecv == ASSUME TypeOK, VoteRecv PROVE TypeOK'
<1>1. BufferTypeOK'
  BY DEF TypeOK, BufferTypeOK, VoteRecv, bufferVars
<1>2. Head(result_q) \in Computed /\ Tail(result_q) \in Seq(Computed)
  BY DEF TypeOK, VoteRecv
<1>3. [res |-> Head(result_q), epoch |-> reth_epoch] \in Votes
  BY <1>2 DEF TypeOK, Votes
<1> QED BY <1>1, <1>2, <1>3 DEF TypeOK, VoteRecv, consVars

(* Types: set_compute_res. *)
LEMMA TypeVoteSetComputeRes ==
    ASSUME TypeOK, ~IsSuffixBlock(vote.res.num), VoteSetComputeRes PROVE TypeOK'
<1>1. BufferTypeOK'
  <2>1. /\ vote.epoch \in Epochs /\ vote.res.id \in Ids /\ vote.res.num \in Numbers
        /\ vote.res.new \in Epochs \cup {None}
    BY DEF TypeOK, VoteSetComputeRes, Votes, Computed
  <2>2. AnyRethCall
    BY <2>1 DEF VoteSetComputeRes, AnyRethCall
  <2> QED BY <2>2, TypeReth DEF TypeOK
<1> QED BY <1>1 DEF TypeOK, VoteSetComputeRes, consVars

(* Types: start_commit. *)
LEMMA TypeCommitLoad == ASSUME TypeOK, CommitLoad PROVE TypeOK'
<1>1. BufferTypeOK'
  BY DEF TypeOK, BufferTypeOK, CommitLoad, bufferVars
<1> QED BY <1>1 DEF TypeOK, CommitLoad, consVars

(* Types: a timeout of get_committed_blocks. *)
LEMMA TypeCommitTimeout == ASSUME TypeOK, CommitTimeout PROVE TypeOK'
<1>1. BufferTypeOK'
  BY DEF TypeOK, BufferTypeOK, CommitTimeout, bufferVars
<1> QED BY <1>1 DEF TypeOK, CommitTimeout, consVars

(* Types: get_committed_blocks. *)
LEMMA TypeCommitPoll == ASSUME TypeOK, CommitInv, CommitPoll PROVE TypeOK'
<1>1. PICK last \in Numbers :
         \/ /\ commit_start' = last + 1 /\ committed' = last
            /\ taken' = TakenNotifiers(commit_start, commit_epoch)
            /\ commit_pc' = "set_state" /\ failed' = failed
         \/ /\ failed' = failed \cup {"start_commit"} /\ commit_pc' = "stopped"
            /\ UNCHANGED <<commit_start, committed, taken>>
  BY DEF CommitPoll
<1>2. last + 1 \in Nat
  BY Naturals, SMTT(30)
<1>3. TakenNotifiers(commit_start, commit_epoch) \subseteq Numbers
  BY DEF TakenNotifiers, CommittedRun
<1>4. BufferTypeOK'
  <2>1. CASE commit_start \in Numbers
    BY <2>1, TypeReth DEF CommitPoll, AnyRethCall, TypeOK
  <2>2. CASE commit_start \notin Numbers
    <3>1. ASSUME NEW n \in Numbers, n >= commit_start PROVE FALSE
      BY <2>2, <3>1, Below, Naturals DEF TypeOK
    <3>2. CommittedRun(commit_start, commit_epoch) = {}
      BY <3>1 DEF CommittedRun
    <3> QED BY <3>2 DEF CommitPoll, GetCommittedBlocks
  <2> QED BY <2>1, <2>2
<1> QED BY <1>1, <1>2, <1>3, <1>4, ZenonT(40) DEF TypeOK, CommitPoll, consVars

(* Types: set_state. *)
LEMMA TypeCommitSetState == ASSUME TypeOK, CommitInv, CommitSetState PROVE TypeOK'
<1>1. commit_start - 1 = committed
  <2>1. NatState /\ commit_start = committed + 1
    BY NatTypes DEF CommitInv
  <2> QED BY <2>1 DEF NatState
<1>2. BufferTypeOK'
  BY <1>1 DEF TypeOK, BufferTypeOK, CommitSetState, SetState
<1> QED BY <1>2 DEF TypeOK, CommitSetState, consVars

(* Types: the persist notifiers. *)
LEMMA TypeCommitNotify == ASSUME TypeOK, CommitNotify PROVE TypeOK'
<1>1. BufferTypeOK'
  BY DEF TypeOK, BufferTypeOK, CommitNotify, bufferVars
<1> QED BY <1>1 DEF TypeOK, CommitNotify, consVars

(* Types: the database. *)
LEMMA TypeRethPersist == ASSUME TypeOK, RethPersist PROVE TypeOK'
<1>1. BufferTypeOK'
  BY DEF TypeOK, BufferTypeOK, RethPersist, bufferVars
<1>2. persisted + 1 \in Numbers
  <2>1. persisted + 1 \in Nat /\ persisted + 1 <= committed /\ committed \in Numbers
    <3>1. NatState /\ persisted < committed /\ committed \in Numbers
      BY NatTypes DEF RethPersist, TypeOK
    <3> QED BY <3>1, SMTT(30) DEF NatState
  <2> QED BY <2>1, Below
<1> QED BY <1>1, <1>2 DEF TypeOK, RethPersist, consVars

(* start_commit reads the epoch: it never runs ahead of start_execution. *)
LEMMA StepCommitLoad ==
    ASSUME IInv, CommitLoad
    PROVE  IInv'
<1>t. TypeOK'
  BY TypeCommitLoad DEF IInv
<1>v. UNCHANGED <<blocks, current_epoch, next_epoch,
                  latest_epoch_change_block_number, epoch_change_block_info, epoch_change_ready,
                  latest_commit_block_number, latest_finalized_block_number, buffer_state,
                  cons_epoch, cons_running, epoch_base, ordered, head, task, item, persist_q,
                  persisting, epoch_proof, reth_epoch, exec_pc, exec_start, vote, commit_start,
                  taken, exec_q, chain, result_q, committed, persisted, notified, failed>>
  BY DEF CommitLoad, consVars, rethVars, bufferVars
<1>p. UNCHANGED Pending
  BY <1>v DEF Pending
<1>f. ChainInv' /\ PhaseInv' /\ NotReadyInv' /\ NotStartedInv' /\ EpochInv' /\ ProofInv' /\
      BaseInv' /\ ScheduledInv' /\ ResultInv' /\ AwaitedInv' /\ ExecInv' /\ HeldInv' /\
      EntryInv' /\ ParentInv' /\ TopInv' /\ OldCommittedInv' /\ StoredInv' /\ TaskInv' /\
      ItemInv' /\ RequestInv' /\ CurrentInv' /\ QueueInv' /\ OldInv' /\ HeadInv' /\
      PersistingInv' /\ FrontInv' /\ FailInv'
  BY <1>v, <1>p, Frames
<1>Commit. CommitInv'
  <2>1. commit_epoch' <= reth_epoch'
    BY Order, SMTT(30) DEF NatState, CommitLoad
  <2> QED BY <2>1, <1>v, <1>p DEF IInv, CommitInv, Stored
<1> QED BY <1>t, <1>f, <1>Commit DEF IInv

(* A timeout of get_committed_blocks changes nothing but the program counter. *)
LEMMA StepCommitTimeout ==
    ASSUME IInv, CommitTimeout
    PROVE  IInv'
<1>t. TypeOK'
  BY TypeCommitTimeout DEF IInv
<1>v. UNCHANGED <<blocks, current_epoch, next_epoch,
                  latest_epoch_change_block_number, epoch_change_block_info, epoch_change_ready,
                  latest_commit_block_number, latest_finalized_block_number, buffer_state,
                  cons_epoch, cons_running, epoch_base, ordered, head, task, item, persist_q,
                  persisting, epoch_proof, reth_epoch, exec_pc, exec_start, vote, commit_epoch,
                  commit_start, taken, exec_q, chain, result_q, committed, persisted, notified,
                  failed>>
  BY DEF CommitTimeout, consVars, rethVars, bufferVars
<1>p. UNCHANGED Pending
  BY <1>v DEF Pending
<1>f. ChainInv' /\ PhaseInv' /\ NotReadyInv' /\ NotStartedInv' /\ EpochInv' /\ ProofInv' /\
      BaseInv' /\ ScheduledInv' /\ ResultInv' /\ AwaitedInv' /\ ExecInv' /\ HeldInv' /\
      EntryInv' /\ ParentInv' /\ TopInv' /\ CommitInv' /\ OldCommittedInv' /\ StoredInv' /\
      TaskInv' /\ ItemInv' /\ RequestInv' /\ CurrentInv' /\ QueueInv' /\ OldInv' /\ HeadInv' /\
      PersistingInv' /\ FrontInv' /\ FailInv'
  BY <1>v, <1>p, Frames
<1> QED BY <1>t, <1>f DEF IInv

(* set_state moves the finalized number up to what was committed. *)
LEMMA StepCommitSetState ==
    ASSUME IInv, CommitSetState
    PROVE  IInv'
<1>t. TypeOK'
  BY TypeCommitSetState DEF IInv
<1>v. UNCHANGED <<blocks, current_epoch, next_epoch,
                  latest_epoch_change_block_number, epoch_change_block_info, epoch_change_ready,
                  buffer_state, cons_epoch, cons_running, epoch_base, ordered, head, task, item,
                  persist_q, persisting, epoch_proof, reth_epoch, exec_pc, exec_start, vote,
                  commit_epoch, commit_start, taken, exec_q, chain, result_q, committed,
                  persisted, notified, failed>>
  BY DEF CommitSetState, SetState, consVars, rethVars, bufferVars
<1>p. UNCHANGED Pending
  BY <1>v DEF Pending
<1>f. ChainInv' /\ PhaseInv' /\ NotReadyInv' /\ NotStartedInv' /\ EpochInv' /\ ProofInv' /\
      BaseInv' /\ ScheduledInv' /\ ResultInv' /\ AwaitedInv' /\ ExecInv' /\ HeldInv' /\
      EntryInv' /\ ParentInv' /\ TopInv' /\ OldCommittedInv' /\ StoredInv' /\ TaskInv' /\
      ItemInv' /\ RequestInv' /\ CurrentInv' /\ QueueInv' /\ OldInv' /\ HeadInv' /\
      PersistingInv' /\ FrontInv' /\ FailInv'
  BY <1>v, <1>p, Frames
<1>Commit. CommitInv'
  <2>1. latest_commit_block_number' = commit_start - 1 /\ latest_finalized_block_number' = persisted
    BY DEF CommitSetState, SetState
  <2>2. commit_start = committed + 1 /\ persisted <= committed
    BY DEF IInv, CommitInv
  <2>3. latest_commit_block_number' <= committed' /\ latest_finalized_block_number' <= committed'
    <3>1. committed \in Nat /\ persisted \in Nat /\ committed' = committed
      BY Order, <1>v DEF NatState
    <3> QED BY <2>1, <2>2, <3>1, SMTT(30)
  <2> QED BY <2>3, <1>v, <1>p DEF IInv, CommitInv, Stored
<1> QED BY <1>t, <1>f, <1>Commit DEF IInv

(* The notifiers that fire are those of committed blocks. *)
LEMMA StepCommitNotify ==
    ASSUME IInv, CommitNotify
    PROVE  IInv'
<1>t. TypeOK'
  BY TypeCommitNotify DEF IInv
<1>v. UNCHANGED <<blocks, current_epoch, next_epoch,
                  latest_epoch_change_block_number, epoch_change_block_info, epoch_change_ready,
                  latest_commit_block_number, latest_finalized_block_number, buffer_state,
                  cons_epoch, cons_running, epoch_base, ordered, head, task, item, persist_q,
                  persisting, epoch_proof, reth_epoch, exec_pc, exec_start, vote, commit_epoch,
                  commit_start, exec_q, chain, result_q, committed, persisted, failed>>
  BY DEF CommitNotify, consVars, rethVars, bufferVars
<1>p. UNCHANGED Pending
  BY <1>v DEF Pending
<1>f. ChainInv' /\ PhaseInv' /\ NotReadyInv' /\ NotStartedInv' /\ EpochInv' /\ ProofInv' /\
      BaseInv' /\ ScheduledInv' /\ ResultInv' /\ AwaitedInv' /\ ExecInv' /\ HeldInv' /\
      EntryInv' /\ ParentInv' /\ TopInv' /\ OldCommittedInv' /\ StoredInv' /\ TaskInv' /\
      ItemInv' /\ RequestInv' /\ CurrentInv' /\ QueueInv' /\ OldInv' /\ HeadInv' /\
      PersistingInv' /\ FrontInv' /\ FailInv'
  BY <1>v, <1>p, Frames
<1>Commit. CommitInv'
  <2>1. taken' \cup notified' = taken \cup notified
    BY DEF CommitNotify
  <2> QED BY <2>1, <1>v, <1>p DEF IInv, CommitInv, Stored
<1> QED BY <1>t, <1>f, <1>Commit DEF IInv

(* The database follows the committed prefix. *)
LEMMA StepRethPersist ==
    ASSUME IInv, RethPersist
    PROVE  IInv'
<1>t. TypeOK'
  BY TypeRethPersist DEF IInv
<1>v. UNCHANGED <<blocks, current_epoch, next_epoch,
                  latest_epoch_change_block_number, epoch_change_block_info, epoch_change_ready,
                  latest_commit_block_number, latest_finalized_block_number, buffer_state,
                  cons_epoch, cons_running, epoch_base, ordered, head, task, item, persist_q,
                  persisting, epoch_proof, reth_epoch, exec_pc, exec_start, vote, commit_pc,
                  commit_epoch, commit_start, taken, exec_q, chain, result_q, committed,
                  notified, failed>>
  BY DEF RethPersist, consVars, rethVars, bufferVars
<1>p. UNCHANGED Pending
  BY <1>v DEF Pending
<1>f. ChainInv' /\ PhaseInv' /\ NotReadyInv' /\ NotStartedInv' /\ EpochInv' /\ ProofInv' /\
      BaseInv' /\ ScheduledInv' /\ ResultInv' /\ AwaitedInv' /\ ExecInv' /\ HeldInv' /\
      EntryInv' /\ ParentInv' /\ TopInv' /\ OldCommittedInv' /\ StoredInv' /\ TaskInv' /\
      ItemInv' /\ RequestInv' /\ CurrentInv' /\ QueueInv' /\ OldInv' /\ HeadInv' /\
      PersistingInv' /\ FrontInv' /\ FailInv'
  BY <1>v, <1>p, Frames
<1>Commit. CommitInv'
  <2>1. persisted' <= committed'
    <3>1. committed \in Nat /\ persisted \in Nat /\ committed' = committed
      BY Order, <1>v DEF NatState
    <3> QED BY <3>1, SMTT(30) DEF RethPersist
  <2> QED BY <2>1, <1>v, <1>p DEF IInv, CommitInv, Stored
<1> QED BY <1>t, <1>f, <1>Commit DEF IInv
=============================================================================
