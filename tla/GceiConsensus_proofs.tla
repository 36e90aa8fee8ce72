------------------------ MODULE GceiConsensus_proofs ------------------------
(*****************************************************************************)
(* The steps of consensus keep the invariant of the GCEI pipeline: ordering and *)
(* scheduling a block, recording its result, advancing to the next block to  *)
(* persist, and the change of epoch.                                         *)
(*****************************************************************************)
EXTENDS GceiBuffer_proofs

(* The provers for the steps that name none, in the order they are tried. *)
USE Zenon, SMTT(30), ZenonT(40), SMTT(31)

(* Ordering a block schedules one after the base of the epoch. *)
LEMMA StepProcessOrderedBlocks ==
    ASSUME IInv, ProcessOrderedBlocks
    PROVE  IInv'
<1>t. TypeOK'
  BY TypeProcessOrdered DEF IInv
<1>v. UNCHANGED <<blocks, current_epoch, next_epoch,
                  latest_epoch_change_block_number, epoch_change_block_info, epoch_change_ready,
                  latest_commit_block_number, latest_finalized_block_number, buffer_state,
                  cons_epoch, cons_running, epoch_base, head, item, persist_q, persisting,
                  epoch_proof, reth_epoch, exec_pc, exec_start, vote, commit_pc, commit_epoch,
                  commit_start, taken, exec_q, chain, result_q, committed, persisted, notified,
                  failed>>
  BY DEF ProcessOrderedBlocks, consVars, rethVars, bufferVars
<1>p. UNCHANGED Pending
  BY <1>v DEF Pending
<1>c. cons_epoch # 0
  BY DEF ProcessOrderedBlocks, IInv, NotStartedInv
<1>f. ChainInv' /\ PhaseInv' /\ NotReadyInv' /\ EpochInv' /\ ProofInv' /\ ResultInv' /\
      AwaitedInv' /\ ExecInv' /\ HeldInv' /\ EntryInv' /\ ParentInv' /\ TopInv' /\ CommitInv' /\
      OldCommittedInv' /\ StoredInv' /\ ItemInv' /\ RequestInv' /\ CurrentInv' /\ QueueInv' /\
      OldInv' /\ HeadInv' /\ PersistingInv' /\ FrontInv' /\ FailInv'
  BY <1>v, <1>p, Frames
<1>NotStarted. NotStartedInv'
  BY <1>c, <1>v DEF NotStartedInv
<1>Base. BaseInv'
  <2>1. ordered' = ordered + 1 /\ ordered \in Nat /\ epoch_base[cons_epoch] \in Nat
    BY Order, Naturals DEF NatState, ProcessOrderedBlocks, IInv, TypeOK
  <2>2. epoch_base[cons_epoch] <= ordered
    BY <1>c DEF IInv, BaseInv
  <2>3. epoch_base[cons_epoch] <= ordered'
    BY <2>1, <2>2
  <2> QED BY <2>3, <1>v DEF IInv, BaseInv
<1>Scheduled. ScheduledInv'
  <2>1. ordered \in Nat /\ epoch_base[cons_epoch] \in Nat /\ cons_epoch \in Nat
    BY Order, Naturals DEF NatState, IInv, TypeOK
  <2>2. epoch_base[cons_epoch] <= ordered
    BY <1>c DEF IInv, BaseInv
  <2>3. ordered + 1 > epoch_base[cons_epoch] /\ ordered + 1 # 0 /\ cons_epoch <= cons_epoch
    BY <2>1, <2>2
  <2>4. \A k \in Keys : task'[k] = task[k] \/ k = <<cons_epoch, ordered + 1>>
    BY DEF ProcessOrderedBlocks, IInv, TypeOK
  <2>5. SUFFICES ASSUME NEW k \in Keys, task'[k] # "idle"
                 PROVE  /\ k[1] <= cons_epoch /\ k[2] # 0
                        /\ k[1] = cons_epoch => k[2] > epoch_base[cons_epoch]
    BY <1>v DEF ScheduledInv
  <2>6. CASE k = <<cons_epoch, ordered + 1>>
    BY <2>3, <2>6
  <2> QED BY <2>4, <2>5, <2>6 DEF IInv, ScheduledInv
<1>Task. TaskInv'
  <2>1. \A k \in Keys : task'[k] = task[k] \/ task'[k] = "sched"
    BY DEF ProcessOrderedBlocks, IInv, TypeOK
  <2>2. "sched" \notin Results
    BY DEF Results
  <2> QED BY <2>1, <2>2, <1>v, <1>p DEF IInv, TaskInv, TaskResult, InChain, Stored, IsSuffixBlock
<1> QED BY <1>t, <1>f, <1>NotStarted, <1>Base, <1>Scheduled, <1>Task DEF IInv

(* A retry schedules only blocks that were scheduled before. *)
LEMMA StepRetrySchedulePhase ==
    ASSUME IInv, RetrySchedulePhase
    PROVE  IInv'
<1>t. TypeOK'
  BY TypeRetry DEF IInv
<1>v. UNCHANGED <<blocks, current_epoch, next_epoch,
                  latest_epoch_change_block_number, epoch_change_block_info, epoch_change_ready,
                  latest_commit_block_number, latest_finalized_block_number, buffer_state,
                  cons_epoch, cons_running, epoch_base, ordered, head, item, persist_q,
                  persisting, epoch_proof, reth_epoch, exec_pc, exec_start, vote, commit_pc,
                  commit_epoch, commit_start, taken, exec_q, chain, result_q, committed,
                  persisted, notified, failed>>
  BY DEF RetrySchedulePhase, consVars, rethVars, bufferVars
<1>p. UNCHANGED Pending
  BY <1>v DEF Pending
<1>c. cons_epoch # 0
  BY DEF RetrySchedulePhase, IInv, NotStartedInv
<1>f. ChainInv' /\ PhaseInv' /\ NotReadyInv' /\ EpochInv' /\ ProofInv' /\ BaseInv' /\ ResultInv'
      /\ AwaitedInv' /\ ExecInv' /\ HeldInv' /\ EntryInv' /\ ParentInv' /\ TopInv' /\ CommitInv'
      /\ OldCommittedInv' /\ StoredInv' /\ ItemInv' /\ RequestInv' /\ CurrentInv' /\ QueueInv'
      /\ OldInv' /\ HeadInv' /\ PersistingInv' /\ FrontInv' /\ FailInv'
  BY <1>v, <1>p, Frames
<1>NotStarted. NotStartedInv'
  BY <1>c, <1>v DEF NotStartedInv
<1>Scheduled. ScheduledInv'
  <2>1. \A k \in Keys : task'[k] # "idle" => task[k] # "idle"
    BY DEF RetrySchedulePhase
  <2> QED BY <2>1, <1>v DEF IInv, ScheduledInv
<1>Task. TaskInv'
  <2>1. \A k \in Keys : task'[k] \in Results => task'[k] = task[k]
    BY DEF RetrySchedulePhase, Results
  <2> QED BY <2>1, <1>v, <1>p DEF IInv, TaskInv, TaskResult, InChain, Stored, IsSuffixBlock
<1> QED BY <1>t, <1>f, <1>NotStarted, <1>Scheduled, <1>Task DEF IInv

(* An item records the result its block had, and the block that ends the epoch. *)
LEMMA StepProcessExecutionResponse ==
    ASSUME IInv, NEW k \in Keys, ProcessExecutionResponse(k)
    PROVE  IInv'
<1>t. TypeOK'
  BY TypeProcessResponse DEF IInv
<1>v. UNCHANGED <<blocks, current_epoch, next_epoch,
                  latest_epoch_change_block_number, epoch_change_block_info, epoch_change_ready,
                  latest_commit_block_number, latest_finalized_block_number, buffer_state,
                  cons_epoch, cons_running, epoch_base, ordered, head, persist_q, persisting,
                  epoch_proof, reth_epoch, exec_pc, exec_start, vote, commit_pc, commit_epoch,
                  commit_start, taken, exec_q, chain, result_q, committed, persisted, notified,
                  failed>>
  BY DEF ProcessExecutionResponse, NextResponse, consVars, rethVars, bufferVars
<1>p. UNCHANGED Pending
  BY <1>v DEF Pending
<1>c. /\ cons_epoch # 0 /\ cons_running /\ k[1] = cons_epoch /\ k[2] > head
      /\ cons_epoch = current_epoch
  BY DEF ProcessExecutionResponse, NextResponse, Live, IInv, NotStartedInv, EpochInv
<1>i. /\ \A j \in Keys : j # k => item'[j] = item[j]
      /\ \/ item'[k] = item[k]
         \/ task[k] \in Results /\ item'[k] = [res |-> task[k], end |-> EpochEnd(k, task[k])]
  BY DEF ProcessExecutionResponse, IInv, TypeOK
<1>n. item'[k] = item[k] \/ item'[k] # None
  <2>1. item' \in [Keys -> Items \cup {None}] /\ None \notin Items
    BY <1>t, PipelineAssumption DEF TypeOK
  <2>2. ASSUME task[k] \in Results PROVE [res |-> task[k], end |-> EpochEnd(k, task[k])] \in Items
    <3>1. EpochEnd(k, task[k]) \in Numbers \cup {None}
      BY KeyParts DEF IInv, TypeOK, BufferTypeOK, EpochChangeCache, EpochEnd, IsSuffixBlock
    <3> QED BY <2>2, <3>1 DEF Items
  <2> QED BY <1>i, <2>1, <2>2
<1>f. ChainInv' /\ PhaseInv' /\ NotReadyInv' /\ EpochInv' /\ ProofInv' /\ BaseInv' /\ ResultInv'
      /\ AwaitedInv' /\ ExecInv' /\ HeldInv' /\ EntryInv' /\ ParentInv' /\ TopInv' /\ CommitInv'
      /\ OldCommittedInv' /\ StoredInv' /\ CurrentInv' /\ QueueInv' /\ OldInv' /\ HeadInv' /\
      FrontInv' /\ FailInv'
  BY <1>v, <1>p, Frames
<1>NotStarted. NotStartedInv'
  BY <1>c, <1>v DEF NotStartedInv
<1>Scheduled. ScheduledInv'
  <2>1. \A j \in Keys : task'[j] # "idle" => task[j] # "idle"
    BY DEF ProcessExecutionResponse, IInv, TypeOK, Results
  <2> QED BY <2>1, <1>v DEF IInv, ScheduledInv
<1>Task. TaskInv'
  <2>1. \A j \in Keys : task'[j] \in Results => task'[j] = task[j]
    BY DEF ProcessExecutionResponse, IInv, TypeOK, Results
  <2> QED BY <2>1, <1>v, <1>p DEF IInv, TaskInv, TaskResult, InChain, Stored, IsSuffixBlock
<1>Item. ItemInv'
  <2>1. \A j \in Keys : item'[j] = item[j] => (ItemOK(j) <=> ItemOK(j)')
    BY <1>v, <1>p DEF ItemOK, InChain, Stored
  <2>2. SUFFICES ASSUME task[k] \in Results,
                        item'[k] = [res |-> task[k], end |-> EpochEnd(k, task[k])]
                 PROVE  ItemOK(k)'
    BY <2>1, <1>i DEF IInv, ItemInv
  <2>3. TaskResult(k, task[k])
    BY <2>2 DEF IInv, TaskInv
  <2>4. k[2] \in Nat /\ Len(chain) \in Nat /\ Stored \in Nat /\ Stored <= Len(chain)
        /\ k[1] = current_epoch
    BY KeyParts, Naturals, Order, <1>c DEF NatState
  <2>5. ASSUME k[2] \in 1..Stored PROVE ~IsSuffixBlock(k[2])
    BY <2>4, <2>5, SuffixMeans DEF IsSuffixBlock
  <2>6. CASE task[k] = "executed" /\ InChain(k, FALSE)
    <3>1. ~IsSuffixBlock(k[2])
      BY <2>5, <2>6 DEF InChain
    <3>2. item'[k] = [res |-> "executed", end |-> None]
      BY <3>1, <2>2, <2>6 DEF EpochEnd, HasEpochState
    <3> QED BY <3>2, <2>6, <1>v, <1>p DEF ItemOK, InChain, Stored
  <2>7. CASE task[k] = "reconfig" /\ InChain(k, TRUE)
    <3>1. ~IsSuffixBlock(k[2]) /\ k[2] <= k[2]
      BY <2>4, <2>5, <2>7 DEF InChain
    <3>2. item'[k] = [res |-> "reconfig", end |-> k[2]]
      BY <3>1, <2>2, <2>7 DEF EpochEnd, HasEpochState
    <3> QED BY <3>1, <3>2, <2>7, <1>v, <1>p, SMTT(30) DEF ItemOK, InChain, Stored
  <2>8. CASE task[k] = "dummy_reconfig" /\ IsSuffixBlock(k[2])
    <3>1. Changing /\ epoch_change_block_info.num = Len(chain) /\ Stored = Len(chain)
          /\ k[2] > Len(chain)
      BY <2>8, SuffixMeans DEF IsSuffixBlock
    <3>2. item'[k] = [res |-> "dummy_reconfig", end |-> Len(chain)]
      BY <3>1, <2>2, <2>4, <2>8 DEF EpochEnd
    <3>3. chain # <<>> /\ chain[Len(chain)].reconfig /\ chain[Len(chain)].epoch = k[1]
      BY <3>1, <2>4 DEF Changing, TopOver, Top
    <3>4. Len(chain) \in 1..Stored /\ Len(chain) <= k[2]
      <4>1. Len(chain) # 0
        BY <3>3, SMTT(30) DEF IInv, TypeOK
      <4> QED BY <4>1, <3>1, <2>4, SMTT(30)
    <3> QED BY <3>2, <3>3, <3>4, <1>v, <1>p DEF ItemOK, Stored
  <2> QED BY <2>3, <2>4, <2>6, <2>7, <2>8 DEF TaskResult
<1>Request. RequestInv'
  <2>1. \A j \in Keys : item[j] # None => item'[j] # None
    BY <1>i, <1>n
  <2>2. \A i \in DOMAIN persist_q : <<persist_q[i].epoch, persist_q[i].hi>> \in Keys
    BY RequestTypes
  <2> QED BY <2>1, <2>2, <1>v DEF IInv, RequestInv
<1>Persisting. PersistingInv'
  <2>1. SUFFICES ASSUME persisting # None PROVE PersistingInv'
    BY <1>v DEF PersistingInv
  <2>2. <<persisting.epoch, persisting.hi>> \in Keys /\ persisting.hi \in Nat
    BY <2>1, Naturals DEF IInv, TypeOK, InPersist, Keys
  <2>3. persisting.epoch = cons_epoch => persisting.hi <= head
    BY <2>1 DEF IInv, PersistingInv
  <2>4. k # <<persisting.epoch, persisting.hi>>
    <3>1. head \in Nat
      BY Order DEF NatState
    <3>2. k = <<persisting.epoch, persisting.hi>> =>
             persisting.epoch = cons_epoch /\ persisting.hi > head
      BY <1>c, SMTT(30)
    <3> QED BY <3>1, <3>2, <2>2, <2>3
  <2>5. item'[<<persisting.epoch, persisting.hi>>] = item[<<persisting.epoch, persisting.hi>>]
    BY <2>2, <2>4, <1>i
  <2> QED BY <2>1, <2>5, <1>v DEF IInv, PersistingInv, Handled
<1> QED BY <1>t, <1>f, <1>NotStarted, <1>Scheduled, <1>Task, <1>Item, <1>Request, <1>Persisting DEF IInv

(* advance_head appends the request that follows the last one. *)
LEMMA StepAdvanceHead ==
    ASSUME IInv, NEW n \in Numbers, AdvanceHead(n)
    PROVE  IInv'
<1>t. TypeOK'
  BY TypeAdvanceHead DEF IInv
<1>v. UNCHANGED <<blocks, current_epoch, next_epoch,
                  latest_epoch_change_block_number, epoch_change_block_info, epoch_change_ready,
                  latest_commit_block_number, latest_finalized_block_number, buffer_state,
                  cons_epoch, cons_running, epoch_base, ordered, task, item, persisting,
                  epoch_proof, reth_epoch, exec_pc, exec_start, vote, commit_pc, commit_epoch,
                  commit_start, taken, exec_q, chain, result_q, committed, persisted, notified,
                  failed>>
  BY DEF AdvanceHead, consVars, rethVars, bufferVars
<1>p. UNCHANGED Pending
  BY <1>v DEF Pending
<1>c. /\ cons_epoch # 0 /\ cons_running /\ cons_epoch = current_epoch /\ n > head /\ head' = n
      /\ item[<<cons_epoch, n>>] # None
  BY DEF AdvanceHead, Live, IInv, NotStartedInv, EpochInv
<1>n. /\ n \in Nat /\ head \in Nat /\ committed \in Nat /\ Stored \in Nat /\ current_epoch \in Nat
      /\ cons_epoch \in Nat /\ Len(persist_q) \in Nat
  BY Order, Naturals DEF NatState
<1>k. <<cons_epoch, n>> \in Keys
  BY DEF Keys, IInv, TypeOK
<1>a. /\ Len(persist_q') = Len(persist_q) + 1 /\ DOMAIN persist_q' = 1..(Len(persist_q) + 1)
      /\ DOMAIN persist_q' = DOMAIN persist_q \cup {Len(persist_q) + 1}
      /\ persist_q'[Len(persist_q) + 1] = [epoch |-> cons_epoch, lo |-> head + 1, hi |-> n]
      /\ \A i \in DOMAIN persist_q : persist_q'[i] = persist_q[i]
  <2>1. persist_q \in Seq(Requests)
    BY DEF IInv, TypeOK
  <2>2. [epoch |-> cons_epoch, lo |-> head + 1, hi |-> n] \in Requests
    <3>1. head + 1 \in Numbers
      BY Below, <1>n, <1>c, SMTT(30)
    <3> QED BY <3>1 DEF Requests, IInv, TypeOK
  <2>3. persist_q' = Append(persist_q, [epoch |-> cons_epoch, lo |-> head + 1, hi |-> n])
    BY DEF AdvanceHead
  <2> QED BY <2>1, <2>2, <2>3, SMTT(30)
<1>f. ChainInv' /\ PhaseInv' /\ NotReadyInv' /\ EpochInv' /\ ProofInv' /\ ScheduledInv' /\
      ResultInv' /\ AwaitedInv' /\ ExecInv' /\ HeldInv' /\ EntryInv' /\ ParentInv' /\ TopInv' /\
      CommitInv' /\ OldCommittedInv' /\ StoredInv' /\ TaskInv' /\ ItemInv' /\ FailInv'
  BY <1>v, <1>p, Frames
<1>NotStarted. NotStartedInv'
  BY <1>c, <1>v DEF NotStartedInv
<1>Base. BaseInv'
  <2>1. epoch_base[cons_epoch] <= head /\ epoch_base[cons_epoch] \in Nat
    BY <1>c, Naturals DEF IInv, BaseInv, TypeOK
  <2>2. epoch_base[cons_epoch] <= head'
    BY <2>1, <1>c, <1>n, SMTT(30)
  <2> QED BY <2>2, <1>c, <1>v DEF IInv, BaseInv
<1>Request. RequestInv'
  <2>0. ASSUME NEW i \in DOMAIN persist_q', NEW j \in DOMAIN persist_q', i < j,
               persist_q'[i].epoch = persist_q'[j].epoch
        PROVE  persist_q'[i].hi < persist_q'[j].lo
    <3>1. i \in DOMAIN persist_q
      BY <2>0, <1>a, <1>n, RequestTypes, SMTT(30)
    <3>2. CASE j \in DOMAIN persist_q
      BY <2>0, <3>1, <3>2, <1>a DEF IInv, RequestInv
    <3>3. CASE j = Len(persist_q) + 1
      <4>1. persist_q[i].epoch = cons_epoch
        BY <2>0, <3>1, <3>3, <1>a, <1>c, SMTT(30)
      <4>2. persist_q[i].hi <= head /\ persist_q[i].hi \in Nat
        BY <4>1, <3>1, RequestTypes DEF IInv, RequestInv
      <4>3. persist_q[i].hi < head + 1
        BY <4>2, <1>n, SMTT(30)
      <4> QED BY <4>3, <3>1, <3>3, <1>a, SMTT(30)
    <3> QED BY <3>2, <3>3, <1>a
  <2>1. SUFFICES ASSUME NEW i \in DOMAIN persist_q'
                 PROVE  /\ persist_q'[i].lo <= persist_q'[i].hi /\ persist_q'[i].epoch <= cons_epoch
                        /\ persist_q'[i].epoch = cons_epoch => persist_q'[i].hi <= n
                        /\ item[<<persist_q'[i].epoch, persist_q'[i].hi>>] # None
    BY <2>0, <1>c, <1>v DEF RequestInv
  <2>2. CASE i \in DOMAIN persist_q
    <3>1. /\ persist_q[i].lo <= persist_q[i].hi /\ persist_q[i].epoch <= cons_epoch
          /\ persist_q[i].epoch = cons_epoch => persist_q[i].hi <= head
          /\ item[<<persist_q[i].epoch, persist_q[i].hi>>] # None
      BY <2>2 DEF IInv, RequestInv
    <3>2. persist_q[i].epoch = cons_epoch => persist_q[i].hi <= n
      BY <3>1, <2>2, <1>c, <1>n, RequestTypes, SMTT(30)
    <3> QED BY <3>1, <3>2, <2>2, <1>a
  <2>3. CASE i = Len(persist_q) + 1
    <3>1. head + 1 <= n /\ n <= n /\ cons_epoch <= cons_epoch
      BY <1>c, <1>n, SMTT(30)
    <3> QED BY <3>1, <2>3, <1>a, <1>c, SMTT(30)
  <2> QED BY <2>1, <2>2, <2>3, <1>a
<1>Current. CurrentInv'
  <2>1. SUFFICES ASSUME NEW i \in DOMAIN persist_q', persist_q'[i].epoch = current_epoch
                 PROVE  CurrentOK(i)'
    BY <1>v DEF CurrentInv
  <2>2. CASE i \in DOMAIN persist_q
    <3>1. CurrentOK(i) /\ persist_q'[i] = persist_q[i]
      BY <2>1, <2>2, <1>a DEF IInv, CurrentInv
    <3> QED BY <3>1, <1>v DEF CurrentOK, St
  <2>3. CASE i = Len(persist_q) + 1
    <3>1. committed <= head /\ epoch_base[cons_epoch] <= head /\ epoch_base[cons_epoch] \in Nat
      BY <1>c, Naturals DEF IInv, BaseInv, HeadInv, TypeOK
    <3>2. committed < head + 1 /\ epoch_base[cons_epoch] < head + 1
      BY <3>1, <1>n
    <3>3. \A m \in Numbers : m >= head + 1 => St(<<cons_epoch, m>>) # "committed"
      <4>1. \A m \in Numbers : m >= head + 1 => m > head
        BY <1>n, Naturals, SMTT(30)
      <4> QED BY <4>1, <1>c DEF IInv, HeadInv
    <3> QED BY <3>2, <3>3, <2>3, <1>a, <1>v, SMTT(30) DEF CurrentOK, St
  <2> QED BY <2>1, <2>2, <2>3, <1>a
<1>Queue. QueueInv'
  <2>1. SUFFICES ASSUME NEW i \in DOMAIN persist_q', persist_q'[i].epoch = current_epoch
                 PROVE  IF i = Len(persist_q') THEN persist_q'[i].hi = n
                        ELSE /\ persist_q'[i + 1].epoch = current_epoch
                             /\ persist_q'[i + 1].lo = persist_q'[i].hi + 1
    BY <1>c, <1>v DEF QueueInv
  <2>2. CASE i = Len(persist_q) + 1
    BY <2>2, <1>a, SMTT(30)
  <2>3. CASE i \in DOMAIN persist_q /\ i = Len(persist_q)
    <3>1. persist_q'[i] = persist_q[i] /\ persist_q[i].hi = head /\ i # Len(persist_q')
      BY <2>1, <2>3, <1>a, SMTT(30) DEF IInv, QueueInv
    <3> QED BY <3>1, <2>3, <1>a, <1>c, SMTT(30)
  <2>4. CASE i \in DOMAIN persist_q /\ i # Len(persist_q)
    <3>1. i + 1 \in DOMAIN persist_q /\ i # Len(persist_q')
      <4>1. persist_q \in Seq(Requests)
        BY DEF IInv, TypeOK
      <4> QED BY <4>1, <2>4, <1>a, SMTT(30)
    <3>2. persist_q'[i] = persist_q[i] /\ persist_q'[i + 1] = persist_q[i + 1]
      BY <3>1, <2>4, <1>a
    <3> QED BY <3>1, <3>2, <2>1, <2>4 DEF IInv, QueueInv
  <2> QED BY <2>1, <2>2, <2>3, <2>4, <1>a
<1>Old. OldInv'
  <2>1. SUFFICES ASSUME NEW i \in DOMAIN persist_q', persist_q'[i].epoch < current_epoch
                 PROVE  \A m \in Numbers : m >= persist_q'[i].lo => ~Held(<<persist_q'[i].epoch, m>>)
    BY <1>v DEF OldInv, Held, St
  <2>2. i \in DOMAIN persist_q /\ persist_q'[i] = persist_q[i]
    BY <2>1, <1>a, <1>c, <1>n, SMTT(30)
  <2> QED BY <2>1, <2>2 DEF IInv, OldInv
<1>Head. HeadInv'
  <2>1. committed <= n
    <3>1. committed <= head
      BY <1>c DEF IInv, HeadInv
    <3> QED BY <3>1, <1>c, <1>n, SMTT(30)
  <2>2. n > Stored => epoch_change_block_info # None
    <3>1. ASSUME InChain(<<cons_epoch, n>>, FALSE) PROVE n <= Stored
      BY <3>1, <1>n DEF InChain
    <3>2. ASSUME NEW e, e = item[<<cons_epoch, n>>].end, e \in 1..Stored,
                 chain[e].epoch = cons_epoch, chain[e].reconfig
          PROVE  epoch_change_block_info # None
      <4>1. EndsHere(e)
        BY <3>2, <1>c DEF EndsHere
      <4>2. Changing
        BY <4>1, <1>c, EpochEnded
      <4> QED BY <4>2, CacheType
    <3>3. ItemOK(<<cons_epoch, n>>)
      BY <1>c, <1>k DEF IInv, ItemInv
    <3>4. CASE InChain(<<cons_epoch, n>>, FALSE)
      BY <3>1, <3>4, <1>n, SMTT(30)
    <3>5. CASE /\ item[<<cons_epoch, n>>].end \in 1..Stored
               /\ chain[item[<<cons_epoch, n>>].end].epoch = cons_epoch
               /\ chain[item[<<cons_epoch, n>>].end].reconfig
      BY <3>2, <3>5
    <3> QED BY <3>3, <3>4, <3>5 DEF ItemOK
  <2>3. \A m \in Numbers : m > n => St(<<cons_epoch, m>>) # "committed"
    <3>1. \A m \in Numbers : m > n => m > head
      BY <1>c, <1>n, Naturals, SMTT(30)
    <3> QED BY <3>1, <1>c DEF IInv, HeadInv
  <2> QED BY <2>1, <2>2, <2>3, <1>c, <1>v, <1>p DEF HeadInv, Stored, St
<1>Persisting. PersistingInv'
  <2>1. SUFFICES ASSUME persisting # None PROVE PersistingInv'
    BY <1>v DEF PersistingInv
  <2>2. persisting.epoch = cons_epoch => persisting.hi <= head
    BY <2>1 DEF IInv, PersistingInv
  <2>3. persisting.hi \in Nat
    BY <2>1, Naturals DEF IInv, TypeOK, InPersist
  <2>4. persisting.epoch = cons_epoch => persisting.hi <= head'
    BY <2>2, <2>3, <1>c, <1>n, SMTT(30)
  <2> QED BY <2>1, <2>4, <1>v DEF IInv, PersistingInv, Handled
<1>Front. FrontInv'
  <2>1. \A m : /\ EndsHere(m)' <=> EndsHere(m)
               /\ Handled(m)' <=> Handled(m)
    BY <1>v, <1>p DEF EndsHere, Handled, Stored
  <2>2. SUFFICES ASSUME "commit_ledger" \notin failed, NEW m \in Numbers, EndsHere(m),
                        NEW i \in DOMAIN persist_q', persist_q'[i].epoch = current_epoch,
                        i = 1 \/ persist_q'[i - 1].epoch # current_epoch, m < persist_q'[i].lo
                 PROVE  Handled(m)
    <3>1. persist_q' # <<>> /\ persist_q'[Len(persist_q')].epoch = current_epoch
      BY <1>a, <1>c, <1>n, SMTT(30)
    <3> QED BY <2>1, <3>1, <1>v DEF FrontInv
  <2>3. CASE i \in DOMAIN persist_q
    <3>1. persist_q'[i] = persist_q[i] /\ (i # 1 => persist_q'[i - 1] = persist_q[i - 1])
      <4>1. i # 1 => i - 1 \in DOMAIN persist_q
        <5>1. persist_q \in Seq(Requests)
          BY DEF IInv, TypeOK
        <5> QED BY <5>1, <2>3, SMTT(30)
      <4> QED BY <4>1, <2>3, <1>a
    <3> QED BY <3>1, <2>2, <2>3, <1>c DEF IInv, FrontInv
  <2>4. CASE i = Len(persist_q) + 1
    <3>1. m <= head
      BY <2>2, <2>4, <1>a, <1>n, Naturals, SMTT(30)
    <3>2. persist_q = <<>> \/ persist_q[Len(persist_q)].epoch # current_epoch
      <4>1. persist_q \in Seq(Requests) /\ i - 1 = Len(persist_q) /\ Len(persist_q) \in Nat
        BY <2>4, <1>n DEF IInv, TypeOK
      <4>2. CASE i = 1
        BY <4>1, <4>2, SMTT(30)
      <4>3. CASE i # 1
        <5>1. Len(persist_q) \in DOMAIN persist_q
          BY <4>1, <4>3, SMTT(30)
        <5> QED BY <5>1, <4>1, <4>3, <2>2, <1>a
      <4> QED BY <4>2, <4>3
    <3> QED BY <3>1, <3>2, <2>2, <1>c DEF IInv, FrontInv
  <2> QED BY <2>2, <2>3, <2>4, <1>a
<1> QED BY <1>t, <1>f, <1>NotStarted, <1>Base, <1>Request, <1>Current, <1>Queue, <1>Old,
           <1>Head, <1>Persisting, <1>Front DEF IInv

(* The proof of the epoch's end is sent after its last block was committed. *)
LEMMA StepPersistDone ==
    ASSUME IInv, PersistDone
    PROVE  IInv'
<1>t. TypeOK'
  BY TypePersistDone DEF IInv
<1>v. UNCHANGED <<blocks, current_epoch, next_epoch,
                  latest_epoch_change_block_number, epoch_change_block_info, epoch_change_ready,
                  latest_commit_block_number, latest_finalized_block_number, buffer_state,
                  cons_epoch, cons_running, epoch_base, ordered, head, task, item, persist_q,
                  reth_epoch, exec_pc, exec_start, vote, commit_pc, commit_epoch, commit_start,
                  taken, exec_q, chain, result_q, committed, persisted, notified, failed>>
  BY DEF PersistDone, consVars, rethVars, bufferVars
<1>p. UNCHANGED Pending
  BY <1>v DEF Pending
<1>c. persisting # None /\ cons_epoch # 0
  BY DEF PersistDone, IInv, NotStartedInv
<1>d. /\ persisting' = None
      /\ \/ epoch_proof' = epoch_proof
         \/ /\ HasEpochState(item[<<persisting.epoch, persisting.hi>>].res)
            /\ persisting.epoch = cons_epoch
            /\ epoch_proof' = item[<<persisting.epoch, persisting.hi>>].end
  BY DEF PersistDone
<1>h. \A n : Handled(n) => n <= committed
  BY DEF PersistDone, Handled, IInv, CommitInv
<1>x. ASSUME HasEpochState(item[<<persisting.epoch, persisting.hi>>].res),
             persisting.epoch = cons_epoch
      PROVE  /\ item[<<persisting.epoch, persisting.hi>>].end \in 1..Stored
             /\ chain[item[<<persisting.epoch, persisting.hi>>].end].epoch = cons_epoch
             /\ chain[item[<<persisting.epoch, persisting.hi>>].end].reconfig
             /\ item[<<persisting.epoch, persisting.hi>>].end # None
  <2>1. <<persisting.epoch, persisting.hi>> \in Keys
    BY <1>c DEF IInv, TypeOK, InPersist, Keys
  <2>2. item[<<persisting.epoch, persisting.hi>>] # None
    BY <1>c DEF IInv, PersistingInv
  <2>3. ItemOK(<<persisting.epoch, persisting.hi>>)
    BY <2>1, <2>2 DEF IInv, ItemInv
  <2>4. /\ item[<<persisting.epoch, persisting.hi>>].end \in 1..Stored
        /\ chain[item[<<persisting.epoch, persisting.hi>>].end].epoch = cons_epoch
        /\ chain[item[<<persisting.epoch, persisting.hi>>].end].reconfig
    BY <2>3, <1>x DEF ItemOK, HasEpochState
  <2>5. item[<<persisting.epoch, persisting.hi>>].end \in Nat
    BY <2>4, Order
  <2> QED BY <2>4, <2>5, BufferAssumption
<1>f. ChainInv' /\ PhaseInv' /\ NotReadyInv' /\ BaseInv' /\ ScheduledInv' /\ ResultInv' /\
      AwaitedInv' /\ ExecInv' /\ HeldInv' /\ EntryInv' /\ ParentInv' /\ TopInv' /\ CommitInv' /\
      OldCommittedInv' /\ StoredInv' /\ TaskInv' /\ ItemInv' /\ RequestInv' /\ CurrentInv' /\
      QueueInv' /\ OldInv' /\ HeadInv' /\ FailInv'
  BY <1>v, <1>p, Frames
<1>NotStarted. NotStartedInv'
  BY <1>c, <1>v DEF NotStartedInv
<1>Epoch. EpochInv'
  <2>1. epoch_proof # None => epoch_proof' # None
    BY <1>d, <1>x
  <2> QED BY <2>1, <1>v DEF IInv, EpochInv
<1>Proof. ProofInv'
  <2>1. CASE epoch_proof' = epoch_proof
    BY <2>1, <1>v, <1>p DEF IInv, ProofInv, TopOver, Top
  <2>2. CASE /\ HasEpochState(item[<<persisting.epoch, persisting.hi>>].res)
             /\ persisting.epoch = cons_epoch
             /\ epoch_proof' = item[<<persisting.epoch, persisting.hi>>].end
    <3> DEFINE e == item[<<persisting.epoch, persisting.hi>>].end
    <3>1. e \in 1..Stored /\ chain[e].epoch = cons_epoch /\ chain[e].reconfig
      BY <2>2, <1>x
    <3>2. Handled(e)
      BY <2>2, <1>c DEF IInv, PersistingInv
    <3> HIDE DEF e
    <3>3. e <= committed
      BY <3>2, <1>h
    <3>4. /\ committed \in Nat /\ Stored \in Nat /\ Len(chain) \in Nat /\ committed <= Stored
          /\ Stored <= Len(chain) /\ cons_epoch \in Nat
      BY Order DEF NatState
    <3>5. e \in 1..Len(chain) /\ Len(chain) # 0
      BY <3>1, <3>4, SMTT(30)
    <3>6. e \in DOMAIN chain /\ Len(chain) \in DOMAIN chain /\ chain # <<>>
      BY <3>5 DEF IInv, TypeOK
    <3>7. e = Len(chain)
      <4>1. SUFFICES ASSUME e < Len(chain) PROVE FALSE
        BY <3>4, <3>5, SMTT(30)
      <4>2. chain[e].epoch < chain[Len(chain)].epoch /\ chain[Len(chain)].epoch <= cons_epoch
        BY <3>1, <3>6, <4>1 DEF IInv, ChainInv, BaseInv
      <4>3. chain[Len(chain)].epoch \in Nat
        BY <3>6, ChainNumbers
      <4> QED BY <3>1, <3>4, <4>2, <4>3
    <3>8. committed = Len(chain) /\ Stored = Len(chain)
      BY <3>3, <3>4, <3>7
    <3>9. Pending = 0
      <4>1. Pending \in Nat
        BY Order DEF NatState
      <4> QED BY <3>4, <3>8, <4>1 DEF Stored
    <3>10. epoch_proof' = Len(chain)
      BY <2>2, <3>7 DEF e
    <3> QED BY <3>1, <3>6, <3>7, <3>8, <3>9, <3>10, <1>v, <1>p DEF ProofInv, TopOver, Top
  <2> QED BY <1>d, <2>1, <2>2
<1>Persisting. PersistingInv'
  BY <1>d DEF PersistingInv
<1>Front. FrontInv'
  <2>1. \A n : Handled(n) => Handled(n)'
    BY <1>h, <1>v DEF Handled
  <2>2. \A n : EndsHere(n)' <=> EndsHere(n)
    BY <1>v, <1>p DEF EndsHere, Stored
  <2> QED BY <2>1, <2>2, <1>v DEF IInv, FrontInv
<1> QED BY <1>t, <1>f, <1>NotStarted, <1>Epoch, <1>Proof, <1>Persisting, <1>Front DEF IInv

(* release_inflight_blocks drops the suffix blocks and keeps the block that changed the epoch. *)
LEMMA StepEndEpoch ==
    ASSUME IInv, EndEpoch
    PROVE  IInv'
<1>t. TypeOK'
  BY TypeEndEpoch DEF IInv
<1>v. UNCHANGED <<latest_epoch_change_block_number, latest_commit_block_number,
                  latest_finalized_block_number, cons_epoch, epoch_base, ordered, head, task,
                  item, persisting, epoch_proof, reth_epoch, exec_pc, exec_start, vote,
                  commit_pc, commit_epoch, commit_start, taken, exec_q, chain, result_q,
                  committed, persisted, notified, failed>>
  BY DEF EndEpoch, ReleaseInflightBlocks, consVars, rethVars, bufferVars
<1>p. UNCHANGED Pending
  BY <1>v DEF Pending
<1>c. /\ cons_running /\ epoch_proof # None /\ cons_epoch = current_epoch /\ cons_epoch # 0
      /\ TopOver /\ committed = Len(chain) /\ Stored = Len(chain) /\ Changing
  <2>1. cons_running /\ epoch_proof # None /\ cons_epoch = current_epoch /\ cons_epoch # 0
    BY DEF EndEpoch, IInv, EpochInv, NotStartedInv
  <2>2. TopOver /\ Top.epoch = cons_epoch /\ Pending = 0 /\ committed = Len(chain)
    BY <2>1 DEF IInv, ProofInv
  <2>3. Stored = Len(chain)
    BY <2>2, Order DEF Stored, NatState
  <2>4. Len(chain) \in 1..Stored
    <3>1. Len(chain) # 0 /\ Len(chain) \in Nat
      BY <2>2 DEF TopOver, IInv, TypeOK
    <3> QED BY <3>1, <2>3, SMTT(30)
  <2>5. EndsHere(Len(chain))
    BY <2>1, <2>2, <2>4 DEF EndsHere, TopOver, Top
  <2> QED BY <2>1, <2>2, <2>3, <2>5, EpochEnded
<1>n. Len(chain) \in Nat /\ Stored \in Nat /\ committed \in Nat /\ current_epoch \in Nat
  BY Order DEF NatState
<1>r. /\ cons_running' = FALSE /\ persist_q' \in {persist_q, <<>>}
      /\ current_epoch' = current_epoch + 1 /\ next_epoch' = None
      /\ epoch_change_block_info' = None /\ epoch_change_ready' = TRUE
      /\ buffer_state' = "EpochChange"
  <2>1. epoch_change_block_info # None
    BY <1>c, CacheType
  <2>2. next_epoch # None /\ next_epoch = current_epoch + 1
    <3>1. current_epoch + 1 \in Nat
      BY <1>n, SMTT(30)
    <3> QED BY <3>1, <1>c, BufferAssumption DEF Changing
  <2> QED BY <2>1, <2>2 DEF EndEpoch, ReleaseInflightBlocks, HasPendingEpochChange
<1>k. \A k \in Keys : /\ k[2] <= Len(chain) => blocks'[k] = blocks[k]
                      /\ Held(k)' => blocks'[k] = blocks[k] /\ k[2] <= Len(chain)
  <2>1. HasPendingEpochChange
    BY <1>c, CacheType DEF HasPendingEpochChange
  <2>2. blocks' = [k \in Keys |-> IF k[2] <= Len(chain) THEN blocks[k] ELSE Absent]
    BY <1>c, <2>1 DEF EndEpoch, ReleaseInflightBlocks, Changing
  <2> QED BY <2>2 DEF Held, St, Absent
<1>o. \A i \in DOMAIN persist_q' : persist_q'[i].epoch # current_epoch'
  <2>1. SUFFICES ASSUME persist_q' = persist_q, NEW i \in DOMAIN persist_q
                 PROVE  persist_q[i].epoch # current_epoch'
    BY <1>r, SMTT(30)
  <2>2. persist_q[i].epoch <= cons_epoch /\ persist_q[i].epoch \in Nat
    BY RequestTypes DEF IInv, RequestInv
  <2> QED BY <2>2, <1>r, <1>c, <1>n, SMTT(30)
<1>f. ChainInv' /\ ProofInv' /\ BaseInv' /\ ScheduledInv' /\ ResultInv' /\ CommitInv' /\
      ItemInv' /\ PersistingInv' /\ FailInv'
  BY <1>v, <1>p, Frames
<1>Phase. PhaseInv'
  BY <1>c, <1>r, <1>v, <1>p DEF PhaseInv, Released, Changing, TopOver, Top
<1>NotReady. NotReadyInv'
  BY <1>r DEF NotReadyInv, IsReady
<1>NotStarted. NotStartedInv'
  BY <1>c, <1>v DEF NotStartedInv
<1>Epoch. EpochInv'
  BY <1>c, <1>r, <1>v DEF EpochInv
<1>Awaited. AwaitedInv'
  <2>1. \A i \in DOMAIN chain : ~(i > Stored)
    BY <1>c, <1>n, ChainNumbers, SMTT(30)
  <2> QED BY <2>1, <1>v, <1>p DEF AwaitedInv, Stored
<1>Exec. ExecInv'
  <2>1. EpochOver(reth_epoch) /\ exec_pc # "boot"
    <3>1. Len(chain) \in DOMAIN chain
      BY <1>c, SMTT(30) DEF TopOver, IInv, TypeOK
    <3> QED BY <3>1, <1>c DEF EpochOver, Changing, TopOver, Top
  <2>2. \A e : EpochOver(e)' <=> EpochOver(e)
    BY <1>v DEF EpochOver
  <2> QED BY <2>1, <2>2, <1>v DEF IInv, ExecInv
<1>Held. HeldInv'
  <2>1. SUFFICES ASSUME NEW k \in Keys, Held(k)' PROVE HeldOK(k)'
    BY DEF HeldInv
  <2>2. Held(k) /\ blocks'[k] = blocks[k] /\ k[2] <= Len(chain) /\ HeldOK(k)
    BY <2>1, <1>k DEF IInv, HeldInv, Held, St
  <2>3. ASSUME k[1] < current_epoch + 1, k # <<0, 0>>
        PROVE  k[2] \in DOMAIN chain /\ chain[k[2]].epoch = k[1]
    <3>1. CASE k[1] < current_epoch
      BY <2>2, <2>3, <3>1 DEF HeldOK
    <3>2. CASE k[1] = current_epoch
      <4>1. k[2] > epoch_base[cons_epoch]
        BY <2>2, <2>3, <3>2, <1>c DEF HeldOK
      <4>2. k[2] \in Nat /\ epoch_base[cons_epoch] \in Nat /\ chain \in Seq(Executed)
        BY KeyParts, Naturals DEF IInv, TypeOK
      <4>3. k[2] \in DOMAIN chain
        BY <4>1, <4>2, <2>2
      <4> QED BY <4>1, <4>3, <3>2, <1>c DEF IInv, BaseInv
    <3>3. k[1] \in Nat
      BY KeyParts, Naturals
    <3> QED BY <3>1, <3>2, <3>3, <2>3, <1>n, SMTT(30)
  <2> QED BY <2>2, <2>3, <1>r, <1>v DEF HeldOK, St
<1>Entry. EntryInv'
  <2>1. SUFFICES ASSUME NEW k \in Keys, St(k)' \in {"computed", "committed"} PROVE EntryResult(k)'
    BY DEF EntryInv
  <2>2. blocks'[k] = blocks[k] /\ k[2] <= Len(chain)
    BY <2>1, <1>k DEF Held
  <2>3. EntryResult(k)
    BY <2>1, <2>2 DEF IInv, EntryInv, St
  <2>4. ~IsSuffixBlock(k[2])
    <3>1. k[2] \in Nat
      BY KeyParts, Naturals
    <3> QED BY <3>1, <2>2, <1>n, SuffixMeans DEF IsSuffixBlock
  <2> QED BY <2>2, <2>3, <2>4, <1>v, <1>p DEF EntryResult, InChain, Stored
<1>Parent. ParentInv'
  BY <1>r DEF ParentInv
<1>Top. TopInv'
  <2>1. IsReady
    BY <1>c DEF IInv, NotReadyInv
  <2>2. Held(TopKey) /\ TopKey' = TopKey
    BY <2>1, <1>v DEF IInv, TopInv, TopKey, Top
  <2>3. TopKey \in Keys /\ TopKey[2] = Len(chain)
    BY TopKeyType
  <2>4. blocks'[TopKey] = blocks[TopKey]
    BY <2>3, <1>k, <1>n, SMTT(30)
  <2> QED BY <2>2, <2>4 DEF TopInv, Held, St
<1>OldCommitted. OldCommittedInv'
  <2>1. \A i \in DOMAIN chain : i <= committed
    BY <1>c, ChainNumbers
  <2> QED BY <2>1, <1>v DEF OldCommittedInv
<1>Stored. StoredInv'
  <2>1. \A i \in DOMAIN chain : ~(i > committed)
    BY <1>c, <1>n, ChainNumbers, SMTT(30)
  <2> QED BY <2>1, <1>v DEF StoredInv
<1>Task. TaskInv'
  <2>1. SUFFICES ASSUME NEW k \in Keys, task[k] \in Results PROVE TaskResult(k, task[k])'
    BY <1>v DEF TaskInv
  <2>2. TaskResult(k, task[k])
    BY <2>1 DEF IInv, TaskInv
  <2>3. k[1] # current_epoch'
    <3>1. k[1] <= cons_epoch
      BY <2>1 DEF IInv, ScheduledInv, Results
    <3>2. k[1] \in Nat
      BY KeyParts, Naturals
    <3> QED BY <3>1, <3>2, <1>r, <1>c, <1>n, SMTT(30)
  <2> QED BY <2>2, <2>3, <1>v, <1>p DEF TaskResult, InChain, Stored
<1>Request. RequestInv'
  <2>1. ASSUME persist_q' = persist_q PROVE RequestInv'
    BY <2>1, <1>v DEF IInv, RequestInv
  <2>2. ASSUME persist_q' = <<>> PROVE RequestInv'
    BY <2>2, SMTT(30) DEF RequestInv
  <2> QED BY <2>1, <2>2, <1>r
<1>Current. CurrentInv'
  BY <1>o DEF CurrentInv
<1>Queue. QueueInv'
  BY <1>o DEF QueueInv
<1>Old. OldInv'
  <2>1. SUFFICES ASSUME persist_q' = persist_q, NEW i \in DOMAIN persist_q, NEW m \in Numbers,
                        m >= persist_q[i].lo
                 PROVE  ~Held(<<persist_q[i].epoch, m>>)'
    <3>1. persist_q' = <<>> => OldInv'
      BY DEF OldInv
    <3> QED BY <3>1, <1>r DEF OldInv
  <2>2. <<persist_q[i].epoch, m>> \in Keys
    BY RequestTypes DEF Keys
  <2>3. persist_q[i].epoch <= cons_epoch /\ persist_q[i].epoch \in Nat /\ persist_q[i].lo \in Nat
    BY RequestTypes DEF IInv, RequestInv
  <2>4. CASE persist_q[i].epoch < current_epoch
    BY <2>1, <2>2, <2>4, <1>k DEF IInv, OldInv, Held, St
  <2>5. CASE persist_q[i].epoch = current_epoch
    <3>1. committed < persist_q[i].lo
      BY <2>5 DEF IInv, CurrentInv, CurrentOK
    <3>2. m > Len(chain)
      BY <3>1, <2>1, <2>3, <1>c, <1>n, Naturals, SMTT(30)
    <3>3. ~(m <= Len(chain))
      BY <3>2, <1>n, Naturals, SMTT(30)
    <3> QED BY <3>3, <2>1, <2>2, <1>k DEF Held, St
  <2> QED BY <2>3, <2>4, <2>5, <1>c, <1>n, SMTT(30)
<1>Head. HeadInv'
  BY <1>r DEF HeadInv
<1>Front. FrontInv'
  BY <1>r DEF FrontInv
<1> QED BY <1>t, <1>f, <1>Phase, <1>NotReady, <1>NotStarted, <1>Epoch, <1>Awaited, <1>Exec,
           <1>Held, <1>Entry, <1>Parent, <1>Top, <1>OldCommitted, <1>Stored, <1>Task,
           <1>Request, <1>Current, <1>Queue, <1>Old, <1>Head, <1>Front DEF IInv

(* The new epoch starts from the block that ended the old one. *)
LEMMA StepStartNewEpoch ==
    ASSUME IInv, StartNewEpoch
    PROVE  IInv'
<1>t. TypeOK'
  BY TypeStartNewEpoch DEF IInv
<1>v. UNCHANGED <<blocks, current_epoch, next_epoch,
                  latest_epoch_change_block_number, epoch_change_block_info, epoch_change_ready,
                  latest_commit_block_number, latest_finalized_block_number, buffer_state, task,
                  item, persist_q, persisting, reth_epoch, exec_pc, exec_start, vote, commit_pc,
                  commit_epoch, commit_start, taken, exec_q, chain, result_q, committed,
                  persisted, notified, failed>>
  BY DEF StartNewEpoch, consVars, rethVars, bufferVars
<1>p. UNCHANGED Pending
  BY <1>v DEF Pending
<1>c. /\ cons_epoch # 0 /\ current_epoch = cons_epoch + 1 /\ persisting = None
      /\ cons_epoch' = cons_epoch + 1 /\ cons_running' = TRUE
      /\ epoch_base'[cons_epoch + 1] = Len(chain) /\ ordered' = Len(chain) /\ head' = Len(chain)
      /\ epoch_proof' = None /\ TopOver /\ Top.epoch = cons_epoch /\ committed = Len(chain)
      /\ Stored = Len(chain)
  <2>1. ~cons_running /\ epoch_proof # None /\ cons_epoch # 0
    BY DEF StartNewEpoch, IInv, NotStartedInv
  <2>2. current_epoch = cons_epoch + 1
    BY <2>1 DEF IInv, EpochInv
  <2>3. /\ TopOver /\ Top.epoch = cons_epoch /\ Pending = 0
        /\ epoch_proof = Len(chain) /\ committed = Len(chain)
    BY <2>1 DEF IInv, ProofInv
  <2>4. Stored = Len(chain)
    BY <2>3, Order, SMTT(30) DEF Stored, NatState
  <2>5. epoch_base'[cons_epoch + 1] = epoch_proof
    BY DEF StartNewEpoch, IInv, TypeOK
  <2> QED BY <2>1, <2>2, <2>3, <2>4, <2>5 DEF StartNewEpoch
<1>n. Len(chain) \in Nat /\ Stored \in Nat /\ committed \in Nat /\ cons_epoch \in Nat
  BY Order DEF NatState
<1>h. \A k \in Keys : Held(k) => k[1] <= cons_epoch' /\ k[1] # cons_epoch'
  <2>1. \A k \in Keys : Held(k) => k[1] <= cons_epoch
    BY DEF IInv, HeldInv, HeldOK
  <2>2. \A k \in Keys : k[1] \in Nat
    BY KeyParts, Naturals
  <2> QED BY <2>1, <2>2, <1>c, <1>n, SMTT(30)
<1>m. \A m \in Numbers : <<cons_epoch', m>> \in Keys
  BY <1>t DEF TypeOK, Keys
<1>o. \A i \in DOMAIN persist_q : persist_q[i].epoch # current_epoch
  <2>1. SUFFICES ASSUME NEW i \in DOMAIN persist_q
                 PROVE  persist_q[i].epoch # current_epoch
    OBVIOUS
  <2>2. persist_q[i].epoch <= cons_epoch /\ persist_q[i].epoch \in Nat
    BY RequestTypes DEF IInv, RequestInv
  <2> QED BY <2>2, <1>c, <1>n
<1>f. ChainInv' /\ PhaseInv' /\ ResultInv' /\ AwaitedInv' /\ ExecInv' /\ EntryInv' /\ TopInv' /\
      CommitInv' /\ OldCommittedInv' /\ StoredInv' /\ TaskInv' /\ ItemInv' /\ OldInv' /\
      FailInv'
  BY <1>v, <1>p, Frames
<1>NotReady. NotReadyInv'
  BY <1>c, <1>v DEF IInv, NotReadyInv, IsReady
<1>NotStarted. NotStartedInv'
  BY <1>c, <1>n, SMTT(30) DEF NotStartedInv
<1>Epoch. EpochInv'
  BY <1>c, <1>v DEF EpochInv
<1>Proof. ProofInv'
  BY <1>c DEF ProofInv
<1>Base. BaseInv'
  <2>1. \A i \in DOMAIN chain : i \in Nat /\ ~(i > Len(chain)) /\ chain[i].epoch <= cons_epoch
                               /\ chain[i].epoch \in Nat
    <3>1. TAKE i \in DOMAIN chain
    <3>2. i \in Nat /\ i <= Len(chain) /\ chain[i].epoch \in Nat
      BY ChainNumbers
    <3>3. chain[i].epoch <= cons_epoch
      BY DEF IInv, BaseInv
    <3> QED BY <3>2, <3>3, <1>n, SMTT(30)
  <2>2. \A i \in DOMAIN chain : chain[i].epoch <= cons_epoch + 1 /\ chain[i].epoch # cons_epoch + 1
    BY <2>1, <1>n, SMTT(30)
  <2>3. Len(chain) <= Len(chain) /\ Len(chain) # 0
    BY <1>c, <1>n, SMTT(30), SMTT(31) DEF TopOver, IInv, TypeOK
  <2>4. chain[Len(chain)].epoch = (cons_epoch + 1) - 1 /\ chain[Len(chain)].reconfig
    BY <1>c, <1>n DEF Top, TopOver
  <2>5. cons_epoch + 1 # 0
    BY <1>n
  <2> QED BY <2>1, <2>2, <2>3, <2>4, <2>5, <1>c, <1>v DEF BaseInv
<1>Scheduled. ScheduledInv'
  <2>1. SUFFICES ASSUME NEW k \in Keys, task[k] # "idle"
                 PROVE  k[1] <= cons_epoch' /\ k[2] # 0 /\ k[1] # cons_epoch'
    BY <1>v DEF ScheduledInv
  <2>2. k[1] <= cons_epoch /\ k[2] # 0 /\ k[1] \in Nat
    BY <2>1, KeyParts, Naturals DEF IInv, ScheduledInv
  <2> QED BY <2>2, <1>c, <1>n, SMTT(30)
<1>Held. HeldInv'
  <2>1. SUFFICES ASSUME NEW k \in Keys, Held(k) PROVE HeldOK(k)'
    BY <1>v DEF HeldInv, Held, St
  <2>2. HeldOK(k) /\ k[1] <= cons_epoch' /\ k[1] # cons_epoch'
    BY <2>1, <1>h DEF IInv, HeldInv
  <2> QED BY <2>2, <1>v DEF HeldOK, St
<1>Parent. ParentInv'
  <2>1. \A m \in Numbers : St(<<cons_epoch', m>>) # "ordered"
    BY <1>h, <1>m DEF Held
  <2> QED BY <2>1, <1>v DEF ParentInv, St
<1>Request. RequestInv'
  <2>1. SUFFICES ASSUME NEW i \in DOMAIN persist_q
                 PROVE  persist_q[i].epoch <= cons_epoch' /\ persist_q[i].epoch # cons_epoch'
    BY <1>v DEF IInv, RequestInv
  <2>2. persist_q[i].epoch <= cons_epoch /\ persist_q[i].epoch \in Nat
    BY RequestTypes DEF IInv, RequestInv
  <2> QED BY <2>2, <1>c, <1>n, SMTT(30)
<1>Current. CurrentInv'
  BY <1>o, <1>v DEF CurrentInv
<1>Queue. QueueInv'
  BY <1>o, <1>v DEF QueueInv
<1>Head. HeadInv'
  <2>1. \A m \in Numbers : St(<<cons_epoch', m>>) # "committed"
    BY <1>h, <1>m DEF Held
  <2>2. committed' <= head' /\ ~(head' > Stored')
    BY <1>c, <1>n, <1>v, <1>p, SMTT(30) DEF Stored
  <2> QED BY <2>1, <2>2, <1>v DEF HeadInv, St
<1>Persisting. PersistingInv'
  BY <1>c, <1>v DEF PersistingInv
<1>Front. FrontInv'
  <2>1. \A m : ~EndsHere(m)'
    <3>1. SUFFICES ASSUME NEW m, EndsHere(m)' PROVE FALSE
      OBVIOUS
    <3>2. m \in 1..Stored /\ chain[m].epoch = current_epoch
      BY <3>1, <1>v, <1>p DEF EndsHere, Stored
    <3>3. m \in DOMAIN chain
      <4>1. m \in 1..Len(chain)
        BY <3>2, <1>n, <1>c
      <4> QED BY <4>1, SMTT(30) DEF IInv, TypeOK
    <3>4. chain[m].epoch <= cons_epoch /\ chain[m].epoch \in Nat
      BY <3>3, ChainNumbers DEF IInv, BaseInv
    <3> QED BY <3>2, <3>4, <1>c, <1>n
  <2> QED BY <2>1 DEF FrontInv
<1> QED BY <1>t, <1>f, <1>NotReady, <1>NotStarted, <1>Epoch, <1>Proof, <1>Base, <1>Scheduled,
           <1>Held, <1>Parent, <1>Request, <1>Current, <1>Queue, <1>Head, <1>Persisting,
           <1>Front DEF IInv

(* The parent set_ordered_blocks records for a block after the stored ones is the block the *)
(* executor runs before it: the one with the number before, or the last of the old epoch.   *)
LEMMA InsertedParent ==
    ASSUME IInv, NEW k \in Keys, cons_running, cons_epoch # 0, k[1] = cons_epoch, ~Held(k), IsReady,
           k[2] > epoch_base[cons_epoch], k[2] > Stored
    PROVE  ActualParent(k[1], k[2], ConsensusParent(k)) = RightParent(k[2])
<1> DEFINE e == k[1]
           n == k[2]
           base == epoch_base[cons_epoch]
<1>1. /\ e \in Nat /\ n \in Nat /\ base \in Nat /\ n > base /\ e # 0 /\ e = cons_epoch
      /\ base <= Len(chain) /\ Len(chain) \in Nat /\ Stored \in Nat /\ n > Stored /\ k = <<e, n>>
      /\ e \in Epochs /\ n \in Numbers
  <2>1. Len(chain) \in Nat /\ Stored \in Nat
    BY Order DEF NatState
  <2>2. base \in Nat /\ base <= Len(chain)
    BY Naturals DEF IInv, TypeOK, BaseInv
  <2> QED BY <2>1, <2>2, KeyParts, Naturals
<1>2. n - 1 \in Numbers /\ n - 1 \in Nat
  BY <1>1, Before, SMTT(30)
<1>3. <<e, n - 1>> \in Keys
  BY <1>1, <1>2 DEF Keys
<1>4. Held(<<e, n - 1>>) => blocks[<<e, n - 1>>].id = <<e, n - 1>>
  BY <1>3 DEF IInv, HeldInv, HeldOK
<1>5. <<e - 1, n - 1>> \in Keys /\ Held(<<e - 1, n - 1>>) =>
         /\ blocks[<<e - 1, n - 1>>].id = <<e - 1, n - 1>>
         /\ <<e - 1, n - 1>> # <<0, 0>> => n - 1 \in DOMAIN chain /\ chain[n - 1].epoch = e - 1
  <2>1. SUFFICES ASSUME <<e - 1, n - 1>> \in Keys, Held(<<e - 1, n - 1>>)
                 PROVE  /\ blocks[<<e - 1, n - 1>>].id = <<e - 1, n - 1>>
                        /\ <<e - 1, n - 1>> # <<0, 0>> =>
                              n - 1 \in DOMAIN chain /\ chain[n - 1].epoch = e - 1
    OBVIOUS
  <2>2. HeldOK(<<e - 1, n - 1>>)
    BY <2>1 DEF IInv, HeldInv
  <2>3. e - 1 < current_epoch
    <3>1. e = current_epoch
      BY <1>1 DEF IInv, EpochInv
    <3> QED BY <3>1, <1>1, SMTT(30)
  <2> QED BY <2>2, <2>3 DEF HeldOK
<1>6. CASE n # base + 1
  <2>1. n - 1 > base /\ n - 1 # 0
    BY <1>1, <1>6, SMTT(30)
  <2>2. ~(<<e - 1, n - 1>> \in Keys /\ Held(<<e - 1, n - 1>>))
    <3>1. SUFFICES ASSUME n - 1 \in DOMAIN chain, chain[n - 1].epoch = e - 1 PROVE FALSE
      BY <1>5, <2>1
    <3>2. chain[n - 1].epoch = cons_epoch
      BY <3>1, <2>1 DEF IInv, BaseInv
    <3> QED BY <3>1, <3>2, <1>1, SMTT(30)
  <2>3. ConsensusParent(k) = <<e, n - 1>>
    BY <1>6, <1>1 DEF ConsensusParent
  <2>4. ActualParent(e, n, ConsensusParent(k)) = <<e, n - 1>>
    BY <2>2, <2>3, <1>3, <1>4 DEF ActualParent
  <2> QED BY <2>4, <1>6, <1>1 DEF RightParent
<1>7. CASE n = base + 1
  <2>1. n - 1 = base
    BY <1>7, <1>1, SMTT(30)
  <2>2. ~Held(<<e, base>>)
    <3>1. SUFFICES ASSUME Held(<<e, base>>) PROVE FALSE
      OBVIOUS
    <3>2. HeldOK(<<e, base>>)
      BY <3>1, <2>1, <1>3 DEF IInv, HeldInv
    <3> QED BY <3>2, <1>1 DEF HeldOK
  <2>3. Len(chain) = base
    <3>1. SUFFICES ASSUME n <= Len(chain) PROVE FALSE
      BY <1>1, <1>7, SMTT(30)
    <3>2. n \in DOMAIN chain
      BY <3>1, <1>1, SMTT(30) DEF IInv, TypeOK
    <3>3. St(<<reth_epoch, n>>) = "ordered" /\ reth_epoch = current_epoch
      BY <3>2, <1>1 DEF IInv, AwaitedInv
    <3>4. e = current_epoch
      BY <1>1 DEF IInv, EpochInv
    <3> QED BY <3>3, <3>4, <1>1 DEF Held
  <2>4. TopKey = <<e - 1, base>>
    <3>1. CASE base = 0
      <4>1. chain = <<>> /\ e = 1
        BY <3>1, <2>3, <1>1, SMTT(30), SMTT(31) DEF IInv, TypeOK, BaseInv
      <4> QED BY <4>1, <3>1, SMTT(30) DEF TopKey
    <3>2. CASE base # 0
      <4>1. chain # <<>> /\ chain[base].epoch = cons_epoch - 1
        BY <3>2, <2>3, <1>1 DEF IInv, TypeOK, BaseInv
      <4> QED BY <4>1, <2>3, <1>1 DEF TopKey, Top
    <3> QED BY <3>1, <3>2
  <2>5. <<e - 1, n - 1>> \in Keys /\ Held(<<e - 1, n - 1>>)
    BY <2>1, <2>4, TopKeyType DEF IInv, TopInv
  <2>6. ActualParent(e, n, ConsensusParent(k)) = <<e - 1, n - 1>>
    BY <2>1, <2>2, <2>5, <1>3, <1>5 DEF ActualParent
  <2> QED BY <2>6, <1>7, <1>1 DEF RightParent
<1> QED BY <1>6, <1>7

(* schedule_compute hands a block to the buffer: a block already there keeps its entry, and a *)
(* new one enters only in the running epoch.                                                  *)
LEMMA StepScheduleSetOrdered ==
    ASSUME IInv, NEW k \in Keys, ScheduleSetOrdered(k)
    PROVE  IInv'
<1>t. TypeOK'
  BY TypeScheduleSetOrdered DEF IInv
<1>v. UNCHANGED <<current_epoch, next_epoch, latest_epoch_change_block_number,
                  epoch_change_block_info, epoch_change_ready, latest_commit_block_number,
                  latest_finalized_block_number, buffer_state, cons_epoch, cons_running,
                  epoch_base, ordered, head, item, persist_q, persisting, epoch_proof,
                  reth_epoch, exec_pc, exec_start, vote, commit_pc, commit_epoch, commit_start,
                  taken, exec_q, chain, result_q, committed, persisted, notified, failed>>
  BY DEF ScheduleSetOrdered, SetOrderedBlocks, consVars, rethVars, bufferVars
<1>p. UNCHANGED Pending
  BY <1>v DEF Pending
<1> DEFINE Inserted == SetOrderedOk(k[1]) /\ k[1] = current_epoch /\ ~Held(k)
<1>c. /\ k[1] <= cons_epoch /\ k[2] # 0 /\ (k[1] = cons_epoch => k[2] > epoch_base[cons_epoch])
      /\ cons_epoch # 0 /\ IsReady /\ k # <<0, 0>> /\ task[k] # "idle"
  <2>1. task[k] = "sched"
    BY DEF ScheduleSetOrdered
  <2> QED BY <2>1, SMTT(30) DEF IInv, ScheduledInv, NotStartedInv, NotReadyInv
<1>d. \A j \in Keys : task'[j] = task[j] \/ (j = k /\ task'[j] \in {"wait", "err", "done"})
  BY DEF ScheduleSetOrdered, IInv, TypeOK
<1>i. Inserted => /\ blocks'[k] = [st |-> "ordered", id |-> k,
                                  parent |-> ActualParent(k[1], k[2], ConsensusParent(k))]
                  /\ k[1] = current_epoch /\ k[1] = cons_epoch /\ cons_running /\ ~Held(k)
  <2>1. SUFFICES ASSUME Inserted PROVE
            /\ blocks'[k] = [st |-> "ordered", id |-> k,
                             parent |-> ActualParent(k[1], k[2], ConsensusParent(k))]
            /\ k[1] = cons_epoch /\ cons_running
    OBVIOUS
  <2>2. k = <<k[1], k[2]>>
    BY KeyParts
  <2>3. blocks' = [blocks EXCEPT ![k] = [st |-> "ordered", id |-> k,
                             parent |-> ActualParent(k[1], k[2], ConsensusParent(k))]]
    BY <2>1, <2>2 DEF ScheduleSetOrdered, SetOrderedBlocks
  <2>4. cons_running
    <3>1. k[1] \in Nat /\ cons_epoch \in Nat
      BY KeyParts, Naturals, Order DEF NatState
    <3>2. ~cons_running => current_epoch = cons_epoch + 1
      BY <1>c DEF IInv, EpochInv
    <3> QED BY <2>1, <3>1, <3>2, <1>c
  <2>5. cons_epoch = current_epoch
    BY <2>4 DEF IInv, EpochInv
  <2> QED BY <2>1, <2>3, <2>4, <2>5 DEF IInv, TypeOK, BufferTypeOK
<1>b. \A j \in Keys : blocks'[j] = blocks[j] \/ (j = k /\ Inserted)
  <2>1. k = <<k[1], k[2]>>
    BY KeyParts
  <2>2. Inserted => blocks' = [blocks EXCEPT ![k] = [st |-> "ordered", id |-> k,
                             parent |-> ActualParent(k[1], k[2], ConsensusParent(k))]]
    BY <2>1 DEF ScheduleSetOrdered, SetOrderedBlocks
  <2>3. ~Inserted => blocks' = blocks
    BY <2>1 DEF ScheduleSetOrdered, SetOrderedBlocks
  <2> HIDE DEF Inserted
  <2> QED BY <2>2, <2>3 DEF IInv, TypeOK, BufferTypeOK
<1>j. \A j \in Keys : St(j)' = "committed" => St(j) = "committed"
  BY <1>b, <1>i, SMTT(30) DEF St
<1>f. ChainInv' /\ PhaseInv' /\ EpochInv' /\ ProofInv' /\ BaseInv' /\ ResultInv' /\ CommitInv'
      /\ OldCommittedInv' /\ ItemInv' /\ RequestInv' /\ QueueInv' /\ PersistingInv' /\ FrontInv'
      /\ FailInv'
  BY <1>v, <1>p, Frames
<1>NotReady. NotReadyInv'
  BY <1>c, <1>v DEF NotReadyInv, IsReady
<1>NotStarted. NotStartedInv'
  BY <1>c, <1>v DEF NotStartedInv
<1>Scheduled. ScheduledInv'
  BY <1>c, <1>d, <1>v DEF IInv, ScheduledInv
<1>Awaited. AwaitedInv'
  <2>1. ASSUME NEW i \in DOMAIN chain, i > Stored
        PROVE  St(<<reth_epoch, i>>)' = "ordered"
    <3>1. St(<<reth_epoch, i>>) = "ordered" /\ chain[i].epoch = reth_epoch
      BY <2>1 DEF IInv, AwaitedInv
    <3>2. <<reth_epoch, i>> \in Keys
      BY <3>1, ChainNumbers
    <3> QED BY <3>1, <3>2, <1>b, <1>v DEF Held, St
  <2> QED BY <2>1, <1>v, <1>p DEF IInv, AwaitedInv, Stored
<1>Exec. ExecInv'
  <2>1. \A x : EpochOver(x)' <=> EpochOver(x)
    BY <1>v DEF EpochOver
  <2>2. Stale' = Stale /\ (Starting' <=> Starting)
    BY <1>v, <1>p DEF Stale, Starting, NothingExecuted
  <2>3. ASSUME NEW i \in DOMAIN exec_q, NEW n, Fresh(exec_q[i], n)
        PROVE  Fresh(exec_q[i], n)'
    <3>1. <<reth_epoch, n>> \in Keys /\ Held(<<reth_epoch, n>>)
      BY <2>3, PushedTypes DEF Fresh, Keys, Held
    <3>2. blocks'[<<reth_epoch, n>>] = blocks[<<reth_epoch, n>>]
      BY <3>1, <1>b
    <3> QED BY <2>3, <3>2, <1>v DEF Fresh, St
  <2>4. ASSUME NEW i \in DOMAIN exec_q, Fresh(exec_q[i], Len(chain) + i - Stale)
        PROVE  Fresh(exec_q[i], Len(chain) + i - Stale)'
    <3>1. PICK n : n = Len(chain) + i - Stale
      OBVIOUS
    <3>2. Fresh(exec_q[i], n)'
      BY <2>3, <2>4, <3>1
    <3>3. n = (Len(chain) + i - Stale)'
      BY <3>1, <2>2, <1>v
    <3> QED BY <3>2, <3>3 DEF Fresh, St
  <2> QED BY <2>1, <2>2, <2>4, <1>v DEF IInv, ExecInv
<1>Held. HeldInv'
  <2>1. SUFFICES ASSUME NEW j \in Keys, Held(j)' PROVE HeldOK(j)'
    BY DEF HeldInv
  <2>2. CASE Held(j)
    <3>1. blocks'[j] = blocks[j] /\ HeldOK(j)
      BY <2>2, <1>b DEF IInv, HeldInv
    <3> QED BY <3>1, <1>v DEF HeldOK, St
  <2>3. CASE ~Held(j)
    <3>1. j = k /\ Inserted
      BY <2>1, <2>3, <1>b DEF Held, St
    <3>2. /\ blocks'[k].id = k /\ St(k)' = "ordered" /\ k[1] = cons_epoch /\ k[1] = current_epoch
          /\ k # <<0, 0>>
      BY <3>1, <1>i, <1>c, SMTT(30) DEF St
    <3>3. cons_epoch \in Nat /\ ~(k[1] < current_epoch) /\ k[1] <= cons_epoch
      <4>1. cons_epoch \in Nat
        BY Order DEF NatState
      <4> QED BY <4>1, <3>2
    <3> QED BY <3>1, <3>2, <3>3, <1>c, <1>v DEF HeldOK
  <2> QED BY <2>2, <2>3
<1>Entry. EntryInv'
  <2>1. SUFFICES ASSUME NEW j \in Keys, St(j)' \in {"computed", "committed"} PROVE EntryResult(j)'
    BY DEF EntryInv
  <2>2. blocks'[j] = blocks[j]
    BY <2>1, <1>b, <1>i, SMTT(30) DEF St
  <2>3. EntryResult(j)
    BY <2>1, <2>2 DEF IInv, EntryInv, St
  <2> QED BY <2>2, <2>3, <1>v, <1>p DEF EntryResult, InChain, Stored, IsSuffixBlock
<1>Parent. ParentInv'
  <2>1. SUFFICES ASSUME cons_running, NEW n \in Numbers, n > Stored, St(<<cons_epoch, n>>)' = "ordered"
                 PROVE  blocks'[<<cons_epoch, n>>].parent = RightParent(n)
    BY <1>v, <1>p DEF ParentInv, RightParent, Stored
  <2>2. <<cons_epoch, n>> \in Keys
    BY DEF IInv, TypeOK, Keys
  <2>3. CASE blocks'[<<cons_epoch, n>>] = blocks[<<cons_epoch, n>>]
    <3>1. St(<<cons_epoch, n>>) = "ordered"
      BY <2>1, <2>3, <1>v DEF St
    <3> QED BY <2>1, <2>3, <3>1 DEF IInv, ParentInv
  <2>4. CASE blocks'[<<cons_epoch, n>>] # blocks[<<cons_epoch, n>>]
    <3>1. k = <<cons_epoch, n>> /\ Inserted /\ k[2] = n
      BY <2>2, <2>4, <1>b, SMTT(30)
    <3>2. blocks'[k].parent = ActualParent(k[1], k[2], ConsensusParent(k))
      BY <3>1, <1>i, SMTT(30)
    <3> QED BY <2>1, <3>1, <3>2, <1>i, <1>c, InsertedParent
  <2> QED BY <2>3, <2>4
<1>Top. TopInv'
  <2>1. TopKey' = TopKey /\ TopKey \in Keys /\ Held(TopKey)
    BY <1>v, <1>c, TopKeyType DEF TopKey, Top, IInv, TopInv
  <2>2. blocks'[TopKey] = blocks[TopKey]
    BY <2>1, <1>b
  <2> QED BY <2>1, <2>2 DEF TopInv, Held, St
<1>Stored. StoredInv'
  <2>1. SUFFICES ASSUME NEW i \in DOMAIN chain, St(<<chain[i].epoch, i>>) \in {"computed", "committed"}
                 PROVE  St(<<chain[i].epoch, i>>)' \in {"computed", "committed"}
    BY <1>v, <1>p DEF IInv, StoredInv, Stored
  <2>2. <<chain[i].epoch, i>> \in Keys
    BY ChainNumbers
  <2> QED BY <2>1, <2>2, <1>b, <1>v DEF Held, St
<1>Task. TaskInv'
  <2>1. ASSUME NEW j \in Keys, NEW res, TaskResult(j, res) PROVE TaskResult(j, res)'
    BY <2>1, <1>v, <1>p DEF TaskResult, InChain, Stored, IsSuffixBlock
  <2>2. \A j \in Keys : task'[j] \in Results => task'[j] = task[j]
    BY <1>d DEF Results
  <2> QED BY <2>1, <2>2 DEF IInv, TaskInv
<1>Current. CurrentInv'
  <2>1. SUFFICES ASSUME NEW i \in DOMAIN persist_q, CurrentOK(i) PROVE CurrentOK(i)'
    BY <1>v DEF IInv, CurrentInv
  <2>2. \A m \in Numbers : <<persist_q[i].epoch, m>> \in Keys
    BY RequestTypes DEF Keys
  <2>3. \A m \in Numbers : St(<<persist_q[i].epoch, m>>)' = "committed" =>
                             St(<<persist_q[i].epoch, m>>) = "committed"
    BY <2>2, <1>j, <1>v DEF St
  <2> QED BY <2>1, <2>3, <1>v DEF CurrentOK
<1>Old. OldInv'
  <2>1. SUFFICES ASSUME NEW i \in DOMAIN persist_q, persist_q[i].epoch < current_epoch,
                        NEW m \in Numbers, ~Held(<<persist_q[i].epoch, m>>)
                 PROVE  ~Held(<<persist_q[i].epoch, m>>)'
    BY <1>v DEF IInv, OldInv
  <2>2. <<persist_q[i].epoch, m>> \in Keys
    BY RequestTypes DEF Keys
  <2>3. blocks'[<<persist_q[i].epoch, m>>] = blocks[<<persist_q[i].epoch, m>>]
    <3>1. persist_q[i].epoch # current_epoch
      <4>1. current_epoch \in Nat
        BY Order DEF NatState
      <4> QED BY <4>1, <2>1, RequestTypes
    <3> QED BY <2>2, <3>1, <1>b, <1>i, SMTT(30)
  <2> QED BY <2>1, <2>3, <1>v DEF Held, St
<1>Head. HeadInv'
  <2>1. \A m \in Numbers : <<cons_epoch, m>> \in Keys
    BY DEF IInv, TypeOK, Keys
  <2>2. \A m \in Numbers : St(<<cons_epoch, m>>)' = "committed" => St(<<cons_epoch, m>>) = "committed"
    BY <2>1, <1>j, <1>v DEF St
  <2> QED BY <2>2, <1>v, <1>p DEF IInv, HeadInv, Stored
<1> QED BY <1>t, <1>f, <1>NotReady, <1>NotStarted, <1>Scheduled, <1>Awaited, <1>Exec, <1>Held,
           <1>Entry, <1>Parent, <1>Top, <1>Stored, <1>Task, <1>Current, <1>Old, <1>Head DEF IInv

(* schedule_compute reads the result of a block; an ordered block after the one that changes *)
(* the epoch gets its stand-in result here.                                                   *)
LEMMA StepScheduleGetExecuted ==
    ASSUME IInv, NEW k \in Keys, ScheduleGetExecuted(k)
    PROVE  IInv'
<1>t. TypeOK'
  BY TypeScheduleGetExecuted DEF IInv
<1>v. UNCHANGED <<current_epoch, next_epoch, latest_epoch_change_block_number,
                  epoch_change_block_info, epoch_change_ready, latest_commit_block_number,
                  latest_finalized_block_number, buffer_state, cons_epoch, cons_running,
                  epoch_base, ordered, head, item, persist_q, persisting, epoch_proof,
                  reth_epoch, exec_pc, exec_start, vote, commit_pc, commit_epoch, commit_start,
                  taken, exec_q, chain, result_q, committed, persisted, notified, failed>>
  BY DEF ScheduleGetExecuted, GetExecutedRes, consVars, rethVars, bufferVars
<1>p. UNCHANGED Pending
  BY <1>v DEF Pending
<1> DEFINE Suffixed == St(k) = "ordered" /\ IsSuffixBlock(k[2])
<1>n. /\ Len(chain) \in Nat /\ current_epoch \in Nat /\ cons_epoch \in Nat /\ k[1] \in Nat
      /\ k[2] \in Nat
  BY Order, KeyParts, Naturals DEF NatState
<1>c. /\ k[1] <= cons_epoch /\ k[2] # 0 /\ (k[1] = cons_epoch => k[2] > epoch_base[cons_epoch])
      /\ cons_epoch # 0 /\ IsReady /\ k # <<0, 0>> /\ task[k] # "idle"
  <2>1. task[k] = "wait"
    BY DEF ScheduleGetExecuted
  <2> QED BY <2>1, SMTT(30) DEF IInv, ScheduledInv, NotStartedInv, NotReadyInv
<1>d. \A j \in Keys : \/ task'[j] = task[j]
                      \/ j = k /\ task'[j] \in {"err", "done"}
                      \/ j = k /\ Live(k) /\ task'[j] = ExecutedRes(k, k[2], k[1])
  <2>1. task \in [Keys -> {task[j] : j \in Keys}]
    BY DEF IInv, TypeOK
  <2> DEFINE r == ExecutedRes(k, k[2], k[1])
  <2>2. task' = [task EXCEPT ![k] = IF ~Live(k) THEN "done"
                                    ELSE IF r \in {"wait", "err"} THEN "err" ELSE r]
    BY DEF ScheduleGetExecuted
  <2> HIDE DEF r
  <2>3. /\ \A j \in Keys : j # k => task'[j] = task[j]
        /\ task'[k] = IF ~Live(k) THEN "done" ELSE IF r \in {"wait", "err"} THEN "err" ELSE r
    BY <2>1, <2>2
  <2>4. task'[k] \in {"err", "done"} \/ (Live(k) /\ task'[k] = r)
    BY <2>3
  <2>5. TAKE j \in Keys
  <2>6. CASE j = k
    BY <2>4, <2>6 DEF r
  <2>7. CASE j # k
    BY <2>3, <2>7
  <2> QED BY <2>6, <2>7
<1>g. /\ ~Suffixed => blocks' = blocks
      /\ Suffixed => /\ blocks' = [blocks EXCEPT ![k] =
                                    [st |-> "computed", id |-> k, res |-> "dummy_reconfig"]]
                     /\ blocks'[k] = [st |-> "computed", id |-> k, res |-> "dummy_reconfig"]
                     /\ Changing /\ k[1] = current_epoch /\ k[2] > Len(chain)
  <2>1. k = <<k[1], k[2]>>
    BY KeyParts
  <2>2. ~Suffixed => blocks' = blocks
    BY <2>1 DEF ScheduleGetExecuted, GetExecutedRes
  <2>3. ASSUME Suffixed
        PROVE  blocks' = [blocks EXCEPT ![k] =
                            [st |-> "computed", id |-> k, res |-> "dummy_reconfig"]]
    BY <2>1, <2>3 DEF ScheduleGetExecuted, GetExecutedRes
  <2>4. ASSUME Suffixed
        PROVE  Changing /\ k[1] = current_epoch /\ k[2] > Len(chain)
    <3>1. Changing /\ k[2] > Len(chain)
      BY <2>4, SuffixMeans DEF IsSuffixBlock
    <3>2. ~(k[2] \in DOMAIN chain)
      <4>1. SUFFICES ASSUME k[2] \in DOMAIN chain PROVE FALSE
        OBVIOUS
      <4>2. k[2] <= Len(chain)
        BY <4>1, ChainNumbers
      <4> QED BY <4>2, <3>1, <1>n
    <3>3. HeldOK(k)
      BY <2>4 DEF IInv, HeldInv, Held
    <3>4. ~(k[1] < current_epoch)
      BY <3>2, <3>3, <1>c DEF HeldOK
    <3>5. current_epoch = cons_epoch \/ current_epoch = cons_epoch + 1
      BY <1>c DEF IInv, EpochInv
    <3>6. k[1] = current_epoch
      BY <3>4, <3>5, <1>c, <1>n, SMTT(30)
    <3> QED BY <3>1, <3>6
  <2> HIDE DEF Suffixed
  <2> QED BY <2>2, <2>3, <2>4 DEF IInv, TypeOK, BufferTypeOK
<1>b. \A j \in Keys : blocks'[j] = blocks[j] \/ (j = k /\ Suffixed)
  <2>1. blocks = [j \in Keys |-> blocks[j]]
    BY DEF IInv, TypeOK, BufferTypeOK
  <2> HIDE DEF Suffixed
  <2> QED BY <2>1, <1>g
<1>j. \A j \in Keys : St(j)' = "committed" => St(j) = "committed"
  BY <1>b, <1>g, SMTT(30) DEF St
<1>f. ChainInv' /\ PhaseInv' /\ EpochInv' /\ ProofInv' /\ BaseInv' /\ ResultInv' /\ CommitInv'
      /\ OldCommittedInv' /\ ItemInv' /\ RequestInv' /\ QueueInv' /\ PersistingInv' /\ FrontInv'
      /\ FailInv'
  BY <1>v, <1>p, Frames
<1>NotReady. NotReadyInv'
  BY <1>c, <1>v DEF NotReadyInv, IsReady
<1>NotStarted. NotStartedInv'
  BY <1>c, <1>v DEF NotStartedInv
<1>Scheduled. ScheduledInv'
  BY <1>c, <1>d, <1>v DEF IInv, ScheduledInv
<1>Awaited. AwaitedInv'
  <2>1. ASSUME NEW i \in DOMAIN chain, i > Stored
        PROVE  St(<<reth_epoch, i>>)' = "ordered"
    <3>1. St(<<reth_epoch, i>>) = "ordered" /\ chain[i].epoch = reth_epoch
      BY <2>1 DEF IInv, AwaitedInv
    <3>2. <<reth_epoch, i>> \in Keys /\ i \in Nat /\ i <= Len(chain)
      BY <3>1, ChainNumbers
    <3>3. k # <<reth_epoch, i>> \/ ~Suffixed
      BY <3>2, <1>g, <1>n
    <3> QED BY <3>1, <3>2, <3>3, <1>b, <1>v DEF St
  <2> QED BY <2>1, <1>v, <1>p DEF IInv, AwaitedInv, Stored
<1>Exec. ExecInv'
  <2>1. \A e : EpochOver(e)' <=> EpochOver(e)
    BY <1>v DEF EpochOver
  <2>2. Stale' = Stale /\ (Starting' <=> Starting)
    BY <1>v, <1>p DEF Stale, Starting, NothingExecuted
  <2>3. CASE ~Suffixed
    <3>1. \A i : Fresh(exec_q[i], Len(chain) + i - Stale) <=> Fresh(exec_q[i], Len(chain) + i - Stale)'
      BY <2>3, <2>2, <1>g, <1>v DEF Fresh, St
    <3> QED BY <2>1, <2>2, <3>1, <1>v DEF IInv, ExecInv
  <2>4. CASE Suffixed
    <3>1. Changing
      BY <2>4, <1>g
    <3>2. Len(chain) \in DOMAIN chain
      BY <3>1, SMTT(30) DEF Changing, TopOver, IInv, TypeOK
    <3>3. EpochOver(reth_epoch) /\ exec_pc # "boot"
      BY <3>1, <3>2 DEF EpochOver, Changing, TopOver, Top
    <3> QED BY <2>1, <3>3, <1>v DEF IInv, ExecInv
  <2> QED BY <2>3, <2>4
<1>Held. HeldInv'
  <2>1. SUFFICES ASSUME NEW j \in Keys, Held(j)' PROVE HeldOK(j)'
    BY DEF HeldInv
  <2>2. HeldOK(j) /\ Held(j) /\ blocks'[j].id = j /\ (St(j)' = "historical" <=> St(j) = "historical")
    <3>1. Held(j)
      BY <2>1, <1>b DEF Held, St
    <3>2. HeldOK(j)
      BY <3>1 DEF IInv, HeldInv
    <3>3. blocks'[j].id = j /\ (St(j)' = "historical" <=> St(j) = "historical")
      <4>1. CASE blocks'[j] = blocks[j]
        BY <4>1, <3>2 DEF HeldOK, St
      <4>2. CASE j = k /\ Suffixed
        BY <4>2, <1>g, SMTT(30) DEF St
      <4> QED BY <4>1, <4>2, <1>b
    <3> QED BY <3>1, <3>2, <3>3
  <2> QED BY <2>2, <1>v DEF HeldOK
<1>Entry. EntryInv'
  <2>1. SUFFICES ASSUME NEW j \in Keys, St(j)' \in {"computed", "committed"} PROVE EntryResult(j)'
    BY DEF EntryInv
  <2>2. CASE blocks'[j] = blocks[j]
    <3>1. EntryResult(j)
      BY <2>1, <2>2 DEF IInv, EntryInv, St
    <3> QED BY <2>2, <3>1, <1>v, <1>p DEF EntryResult, InChain, Stored, IsSuffixBlock
  <2>3. CASE j = k /\ Suffixed
    <3>1. IsSuffixBlock(k[2])' /\ k[1] = current_epoch'
      BY <2>3, <1>g, <1>v DEF IsSuffixBlock
    <3>2. blocks'[k].res = "dummy_reconfig"
      BY <2>3, <1>g, SMTT(30)
    <3> QED BY <2>3, <3>1, <3>2 DEF EntryResult
  <2> QED BY <2>2, <2>3, <1>b
<1>Parent. ParentInv'
  <2>1. SUFFICES ASSUME cons_running, NEW n \in Numbers, n > Stored, St(<<cons_epoch, n>>)' = "ordered"
                 PROVE  blocks'[<<cons_epoch, n>>].parent = RightParent(n)
    BY <1>v, <1>p DEF ParentInv, RightParent, Stored
  <2>2. <<cons_epoch, n>> \in Keys
    BY DEF IInv, TypeOK, Keys
  <2>3. blocks'[<<cons_epoch, n>>] = blocks[<<cons_epoch, n>>]
    BY <2>1, <2>2, <1>b, <1>g, <1>v, SMTT(30) DEF St
  <2>4. St(<<cons_epoch, n>>) = "ordered"
    BY <2>1, <2>3, <1>v DEF St
  <2> QED BY <2>1, <2>3, <2>4 DEF IInv, ParentInv
<1>Top. TopInv'
  <2>1. TopKey' = TopKey /\ TopKey \in Keys /\ Held(TopKey)
    BY <1>v, <1>c, TopKeyType DEF TopKey, Top, IInv, TopInv
  <2>2. blocks'[TopKey].st # "absent"
    BY <2>1, <1>b, <1>g, SMTT(30) DEF Held, St
  <2> QED BY <2>1, <2>2 DEF TopInv, Held, St
<1>Stored. StoredInv'
  <2>1. SUFFICES ASSUME NEW i \in DOMAIN chain, St(<<chain[i].epoch, i>>) \in {"computed", "committed"}
                 PROVE  St(<<chain[i].epoch, i>>)' \in {"computed", "committed"}
    BY <1>v, <1>p DEF IInv, StoredInv, Stored
  <2>2. <<chain[i].epoch, i>> \in Keys
    BY ChainNumbers
  <2>3. blocks'[<<chain[i].epoch, i>>] = blocks[<<chain[i].epoch, i>>]
    BY <2>1, <2>2, <1>b
  <2> QED BY <2>1, <2>3, <1>v DEF St
<1>Task. TaskInv'
  <2>1. ASSUME NEW j \in Keys, NEW res, TaskResult(j, res) PROVE TaskResult(j, res)'
    BY <2>1, <1>v, <1>p DEF TaskResult, InChain, Stored, IsSuffixBlock
  <2>2. ASSUME NEW j \in Keys, task'[j] \in Results PROVE TaskResult(j, task'[j])
    <3>1. CASE task'[j] = task[j]
      BY <2>2, <3>1 DEF IInv, TaskInv
    <3>2. CASE j = k /\ Live(k) /\ task'[j] = ExecutedRes(k, k[2], k[1])
      <4>1. k[1] = current_epoch
        BY <3>2 DEF Live, IInv, EpochInv
      <4>2. ~(k[1] < current_epoch)
        BY <4>1, <1>n, SMTT(30)
      <4>3. BufferTypeOK
        BY DEF IInv, TypeOK
      <4>4. CASE St(k) \in {"computed", "committed"} /\ blocks[k].id = k
        <5>1. task'[k] = blocks[k].res /\ EntryResult(k)
          BY <3>2, <4>3, <4>4, ExecutedResCases DEF IInv, EntryInv
        <5> QED BY <3>2, <5>1 DEF EntryResult, TaskResult
      <4>5. CASE St(k) = "ordered" /\ IsSuffixBlock(k[2])
        <5>1. task'[k] = "dummy_reconfig"
          BY <3>2, <4>3, <4>5, ExecutedResCases
        <5> QED BY <3>2, <5>1, <4>5 DEF TaskResult
      <4>6. ASSUME ~(St(k) \in {"computed", "committed"} /\ blocks[k].id = k),
                   ~(St(k) = "ordered" /\ IsSuffixBlock(k[2]))
            PROVE  FALSE
        <5>1. ExecutedRes(k, k[2], k[1]) \in {"err", "wait"}
          BY <4>2, <4>3, <4>6, ExecutedResCases
        <5> QED BY <5>1, <3>2, <2>2 DEF Results
      <4> QED BY <4>4, <4>5, <4>6
    <3> QED BY <3>1, <3>2, <2>2, <1>d DEF Results
  <2> QED BY <2>1, <2>2 DEF TaskInv
<1>Current. CurrentInv'
  <2>1. SUFFICES ASSUME NEW i \in DOMAIN persist_q, CurrentOK(i) PROVE CurrentOK(i)'
    BY <1>v DEF IInv, CurrentInv
  <2>2. \A m \in Numbers : <<persist_q[i].epoch, m>> \in Keys
    BY RequestTypes DEF Keys
  <2>3. \A m \in Numbers : St(<<persist_q[i].epoch, m>>)' = "committed" =>
                             St(<<persist_q[i].epoch, m>>) = "committed"
    BY <2>2, <1>j, <1>v DEF St
  <2> QED BY <2>1, <2>3, <1>v DEF CurrentOK
<1>Head. HeadInv'
  <2>1. \A m \in Numbers : <<cons_epoch, m>> \in Keys
    BY DEF IInv, TypeOK, Keys
  <2>2. \A m \in Numbers : St(<<cons_epoch, m>>)' = "committed" => St(<<cons_epoch, m>>) = "committed"
    BY <2>1, <1>j, <1>v DEF St
  <2> QED BY <2>2, <1>v, <1>p DEF IInv, HeadInv, Stored
<1>Old. OldInv'
  <2>1. SUFFICES ASSUME NEW i \in DOMAIN persist_q, NEW m \in Numbers,
                        ~Held(<<persist_q[i].epoch, m>>)
                 PROVE  ~Held(<<persist_q[i].epoch, m>>)'
    BY <1>v DEF IInv, OldInv
  <2>2. <<persist_q[i].epoch, m>> \in Keys
    BY RequestTypes DEF Keys
  <2>3. blocks'[<<persist_q[i].epoch, m>>] = blocks[<<persist_q[i].epoch, m>>]
    BY <2>1, <2>2, <1>b DEF Held
  <2> QED BY <2>1, <2>3, <1>v DEF Held, St
<1> QED BY <1>t, <1>f, <1>NotReady, <1>NotStarted, <1>Scheduled, <1>Awaited, <1>Exec, <1>Held,
           <1>Entry, <1>Parent, <1>Top, <1>Stored, <1>Task, <1>Current, <1>Head, <1>Old DEF IInv
=============================================================================
