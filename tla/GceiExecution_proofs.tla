------------------------ MODULE GceiExecution_proofs ------------------------
(*****************************************************************************)
(* The steps of start_execution, of the executor, of recv_compute_res and of *)
(* get_committed_blocks keep the invariant of the GCEI pipeline.             *)
(*****************************************************************************)
EXTENDS GceiBuffer_proofs

(* The provers for the steps that name none, in the order they are tried. *)
USE Zenon, SMTT(30), ZenonT(40), SMTT(31)

(* start_execution sees the epoch change. *)
LEMMA StepExecPollChange ==
    ASSUME IInv, ExecPoll, InEpochChange(reth_epoch)
    PROVE  IInv'
<1>t. TypeOK'
  BY TypeExecPoll DEF IInv
<1>v. UNCHANGED <<blocks, current_epoch, next_epoch,
                  latest_epoch_change_block_number, epoch_change_block_info, epoch_change_ready,
                  latest_commit_block_number, latest_finalized_block_number, buffer_state,
                  cons_epoch, cons_running, epoch_base, ordered, head, task, item, persist_q,
                  persisting, epoch_proof, reth_epoch, exec_start, vote, commit_pc,
                  commit_epoch, commit_start, taken, exec_q, chain, result_q, committed,
                  persisted, notified, failed>>
  BY DEF ExecPoll, consVars, rethVars, bufferVars
<1>p. UNCHANGED Pending
  BY <1>v DEF Pending
<1>a. exec_pc = "poll" /\ exec_pc' = "consume" /\ InEpochChange(reth_epoch)
  BY DEF ExecPoll
<1>f. ChainInv' /\ NotStartedInv' /\ EpochInv' /\ ProofInv' /\ BaseInv' /\ ScheduledInv' /\
      ResultInv' /\ AwaitedInv' /\ HeldInv' /\ EntryInv' /\ ParentInv' /\ TopInv' /\ CommitInv'
      /\ OldCommittedInv' /\ StoredInv' /\ TaskInv' /\ ItemInv' /\ RequestInv' /\ CurrentInv' /\
      QueueInv' /\ OldInv' /\ HeadInv' /\ PersistingInv' /\ FrontInv' /\ FailInv'
  BY <1>v, <1>p, Frames
<1>Phase. PhaseInv'
  <2>1. CASE Quiet
    <3>1. Starting
      BY <2>1, <1>a DEF Quiet, InEpochChange
    <3>2. Starting'
      BY <3>1, <1>a, <1>v, <1>p DEF Starting, NothingExecuted
    <3> QED BY <2>1, <3>2, <1>v, <1>p DEF PhaseInv, Quiet, TopOver, Top
  <2>2. ~Changing
    BY <1>a DEF Changing, InEpochChange
  <2>3. CASE Released
    BY <2>3, <1>a, <1>v, <1>p DEF PhaseInv, Released, TopOver, Top
  <2> QED BY <2>1, <2>2, <2>3 DEF IInv, PhaseInv
<1>NotReady. NotReadyInv'
  BY <1>a, <1>v DEF IInv, NotReadyInv, IsReady
<1>Exec. ExecInv'
  <2>1. Stale' = Stale /\ \A e : EpochOver(e)' <=> EpochOver(e)
    BY <1>v DEF Stale, EpochOver
  <2>2. \A b, n : Fresh(b, n)' <=> Fresh(b, n)
    BY <1>v DEF Fresh, St
  <2> QED BY <2>1, <2>2, <1>a, <1>v DEF IInv, ExecInv
<1> QED BY <1>t, <1>f, <1>Phase, <1>NotReady, <1>Exec DEF IInv

(* start_execution pushes the next ordered blocks. *)
LEMMA StepExecPollRun ==
    ASSUME IInv, ExecPoll, ~InEpochChange(reth_epoch)
    PROVE  IInv'
<1>t. TypeOK'
  BY TypeExecPoll DEF IInv
<1>v. UNCHANGED <<blocks, current_epoch, next_epoch,
                  latest_epoch_change_block_number, epoch_change_block_info, epoch_change_ready,
                  latest_commit_block_number, latest_finalized_block_number, buffer_state,
                  cons_epoch, cons_running, epoch_base, ordered, head, task, item, persist_q,
                  persisting, epoch_proof, reth_epoch, exec_pc, vote, commit_pc, commit_epoch,
                  commit_start, taken, chain, result_q, committed, persisted, notified, failed>>
  BY DEF ExecPoll, consVars, rethVars, bufferVars
<1>p. UNCHANGED Pending
  BY <1>v DEF Pending
<1>n. /\ Len(chain) \in Nat /\ Len(exec_q) \in Nat /\ exec_start \in Nat /\ reth_epoch \in Nat
      /\ cons_epoch \in Nat /\ current_epoch \in Nat
  BY Order DEF NatState
<1>l. PICK last \in Numbers :
        /\ LastOf(last, OrderedRun(exec_start, reth_epoch))
        /\ exec_start' = last + 1
        /\ exec_q' = exec_q \o Push(last)
        /\ last \in Nat /\ last >= exec_start
        /\ \A m \in exec_start..last : St(<<reth_epoch, m>>) = "ordered"
  BY Naturals DEF ExecPoll, LastOf, OrderedRun, Push
<1>m. \A m \in exec_start..last : m \in Numbers /\ <<reth_epoch, m>> \in Keys
  <2>1. \A m \in exec_start..last : m \in Nat /\ m <= last
    BY <1>l, <1>n
  <2>2. \A m \in exec_start..last : m \in Numbers
    BY <2>1, Below
  <2> QED BY <2>2 DEF Keys, IInv, TypeOK
<1>h. \A m \in exec_start..last : HeldOK(<<reth_epoch, m>>)
  BY <1>l, <1>m DEF IInv, HeldInv, Held
<1>k. reth_epoch # 0 /\ cons_epoch # 0 /\ reth_epoch = current_epoch
  <2>1. exec_start \in exec_start..last
    BY <1>l, <1>n
  <2>2. HeldOK(<<reth_epoch, exec_start>>) /\ St(<<reth_epoch, exec_start>>) = "ordered"
    BY <2>1, <1>h, <1>l
  <2>3. reth_epoch # 0 /\ reth_epoch <= cons_epoch
    BY <2>2 DEF HeldOK
  <2> QED BY <2>3, <1>n DEF InEpochChange
<1>q. /\ Len(exec_q') = Len(exec_q) + (last + 1 - exec_start)
      /\ DOMAIN exec_q' = 1..(Len(exec_q) + (last + 1 - exec_start))
      /\ DOMAIN exec_q = 1..Len(exec_q)
      /\ \A i \in DOMAIN exec_q : i \in DOMAIN exec_q' /\ exec_q'[i] = exec_q[i]
      /\ \A i \in DOMAIN exec_q' : i > Len(exec_q) =>
            /\ exec_q'[i].epoch = reth_epoch
            /\ exec_q'[i].num = exec_start + (i - Len(exec_q)) - 1
            /\ exec_q'[i].id = <<reth_epoch, exec_start + (i - Len(exec_q)) - 1>>
            /\ exec_q'[i].parent = blocks[<<reth_epoch, exec_start + (i - Len(exec_q)) - 1>>].parent
            /\ St(<<reth_epoch, exec_start + (i - Len(exec_q)) - 1>>) = "ordered"
  <2> DEFINE len == last + 1 - exec_start
             more == Push(last)
  <2>1. len \in Nat /\ exec_q' = exec_q \o more
    BY <1>l, <1>n
  <2>2. \A i \in 1..len :
            /\ more[i].epoch = reth_epoch /\ more[i].num = exec_start + i - 1
            /\ more[i].id = blocks[<<reth_epoch, exec_start + i - 1>>].id
            /\ more[i].parent = blocks[<<reth_epoch, exec_start + i - 1>>].parent
    BY DEF Push
  <2>3. more \in Seq(Pushed) /\ Len(more) = len
    BY <1>l, PushTypes DEF IInv
  <2>4. exec_q \in Seq(Pushed)
    BY DEF IInv, TypeOK
  <2> HIDE DEF more
  <2>c. /\ Len(exec_q \o more) = Len(exec_q) + Len(more)
        /\ DOMAIN (exec_q \o more) = 1..(Len(exec_q) + Len(more))
        /\ DOMAIN exec_q = 1..Len(exec_q) /\ Len(exec_q) \in Nat /\ Len(more) \in Nat
        /\ \A i \in 1..Len(exec_q) : (exec_q \o more)[i] = exec_q[i]
        /\ \A i \in 1..(Len(exec_q) + Len(more)) : i > Len(exec_q) =>
              i - Len(exec_q) \in 1..Len(more) /\ (exec_q \o more)[i] = more[i - Len(exec_q)]
    BY <2>3, <2>4, Concat, SMTT(30)
  <2>5. /\ Len(exec_q') = Len(exec_q) + len /\ DOMAIN exec_q' = 1..(Len(exec_q) + len)
        /\ DOMAIN exec_q = 1..Len(exec_q)
        /\ \A i \in DOMAIN exec_q : i \in DOMAIN exec_q' /\ exec_q'[i] = exec_q[i]
    BY <2>1, <2>3, <2>4, <2>c, SMTT(30)
  <2>6. ASSUME NEW i \in DOMAIN exec_q', i > Len(exec_q)
        PROVE  /\ i - Len(exec_q) \in 1..len /\ exec_q'[i] = more[i - Len(exec_q)]
               /\ exec_start + (i - Len(exec_q)) - 1 \in exec_start..last
    <3>1. i \in 1..(Len(exec_q) + len)
      BY <2>5, <2>6
    <3>2. i - Len(exec_q) \in 1..len /\ exec_q'[i] = more[i - Len(exec_q)]
      BY <3>1, <2>1, <2>3, <2>6, <2>c
    <3> QED BY <3>2, <1>l, <1>n, SMTT(30), SMTT(31)
  <2>7. ASSUME NEW i \in DOMAIN exec_q', i > Len(exec_q)
        PROVE  blocks[<<reth_epoch, exec_start + (i - Len(exec_q)) - 1>>].id =
                 <<reth_epoch, exec_start + (i - Len(exec_q)) - 1>>
    BY <2>6, <2>7, <1>h DEF HeldOK
  <2> HIDE DEF len
  <2> QED BY <2>2, <2>5, <2>6, <2>7, <1>l, ZenonT(40) DEF len
<1>f. ChainInv' /\ NotReadyInv' /\ EpochInv' /\ ProofInv' /\ BaseInv' /\ ScheduledInv' /\
      ResultInv' /\ AwaitedInv' /\ HeldInv' /\ EntryInv' /\ ParentInv' /\ TopInv' /\ CommitInv'
      /\ OldCommittedInv' /\ StoredInv' /\ TaskInv' /\ ItemInv' /\ RequestInv' /\ CurrentInv' /\
      QueueInv' /\ OldInv' /\ HeadInv' /\ PersistingInv' /\ FrontInv' /\ FailInv'
  BY <1>v, <1>p, Frames
<1>Phase. PhaseInv'
  <2>1. ~Starting
    BY <1>k DEF Starting
  <2>2. CASE Quiet
    BY <2>1, <2>2, <1>k, <1>v, <1>p DEF PhaseInv, Quiet, TopOver, Top
  <2>3. CASE Changing
    BY <2>3, <1>v, <1>p DEF PhaseInv, Changing, TopOver, Top
  <2>4. CASE Released
    BY <2>4, <1>v, <1>p DEF PhaseInv, Released, TopOver, Top
  <2> QED BY <2>2, <2>3, <2>4 DEF IInv, PhaseInv
<1>NotStarted. NotStartedInv'
  BY <1>k, <1>v DEF NotStartedInv
<1>Exec. ExecInv'
  <2>1. \A e : EpochOver(e)' <=> EpochOver(e)
    BY <1>v DEF EpochOver
  <2>2. \A b, n : Fresh(b, n)' <=> Fresh(b, n)
    BY <1>v DEF Fresh, St
  <2>3. exec_pc = "poll" /\ exec_pc' = "poll"
    BY <1>v DEF ExecPoll
  <2>4. \A i \in DOMAIN exec_q' : i \in Nat /\ i \in Int /\ (i \in DOMAIN exec_q \/ i > Len(exec_q))
    BY <1>q, <1>n, SMTT(30)
  <2>5. ASSUME EpochOver(reth_epoch)
        PROVE  \A i \in DOMAIN exec_q' : EpochOver(exec_q'[i].epoch)
    <3>1. \A i \in DOMAIN exec_q : EpochOver(exec_q[i].epoch)
      BY <2>5 DEF IInv, ExecInv
    <3> QED BY <3>1, <2>4, <2>5, <1>q
  <2>6. ASSUME ~EpochOver(reth_epoch)
        PROVE  /\ Stale' \in 0..Len(exec_q')
               /\ \A i \in DOMAIN exec_q' :
                     IF i <= Stale' THEN EpochOver(exec_q'[i].epoch)
                     ELSE Fresh(exec_q'[i], Len(chain) + i - Stale')
    <3>1. Stale' = Stale
      BY <1>l, <1>n, <1>q, <1>v, SMTT(30) DEF Stale
    <3>2. /\ Stale \in 0..Len(exec_q)
          /\ \A i \in DOMAIN exec_q :
                IF i <= Stale THEN EpochOver(exec_q[i].epoch)
                ELSE Fresh(exec_q[i], Len(chain) + i - Stale)
      BY <2>3, <2>6 DEF IInv, ExecInv
    <3>3. Stale \in 0..Len(exec_q')
      BY <3>2, <1>l, <1>n, <1>q, SMTT(30)
    <3>4. ASSUME NEW i \in DOMAIN exec_q', i > Len(exec_q)
          PROVE  ~(i <= Stale) /\ Fresh(exec_q'[i], Len(chain) + i - Stale)
      <4>1. i \in Nat /\ ~(i <= Stale)
        BY <3>2, <3>4, <2>4, <1>n
      <4>2. Len(chain) + i - Stale = exec_start + (i - Len(exec_q)) - 1
        BY <4>1, <1>n, SMTT(30) DEF Stale
      <4> QED BY <4>1, <4>2, <3>4, <1>q DEF Fresh
    <3> QED BY <3>1, <3>2, <3>3, <3>4, <2>4, <1>q
  <2> QED BY <2>1, <2>2, <2>3, <2>5, <2>6, <1>v DEF ExecInv
<1> QED BY <1>t, <1>f, <1>Phase, <1>NotStarted, <1>Exec DEF IInv

(* consume_epoch_change takes start_execution to the epoch the buffer is in. *)
LEMMA StepExecConsume ==
    ASSUME IInv, ExecConsume
    PROVE  IInv'
<1>t. TypeOK'
  BY TypeExecConsume DEF IInv
<1>v. UNCHANGED <<blocks, current_epoch, next_epoch, epoch_change_block_info,
                  latest_commit_block_number, latest_finalized_block_number, cons_epoch,
                  cons_running, epoch_base, ordered, head, task, item, persist_q, persisting,
                  epoch_proof, vote, commit_pc, commit_epoch, commit_start, taken, exec_q,
                  chain, result_q, committed, persisted, notified, failed>>
  BY DEF ExecConsume, ConsumeEpochChange, consVars, rethVars, bufferVars
<1>p. UNCHANGED Pending
  BY <1>v DEF Pending
<1>a. /\ exec_pc = "consume" /\ exec_pc' = "poll" /\ latest_epoch_change_block_number' = 0
      /\ epoch_change_ready' = FALSE /\ buffer_state' = "Ready"
      /\ exec_start' = ConsumedNumber + 1 /\ reth_epoch' = ConsumedEpoch
  BY DEF ExecConsume, ConsumeEpochChange
<1>n. /\ Len(chain) \in Nat /\ Len(exec_q) \in Nat /\ reth_epoch \in Nat /\ current_epoch \in Nat
      /\ Stored \in Nat
  BY Order DEF NatState
<1>c. (Quiet /\ Starting) \/ Released
  BY <1>a DEF IInv, PhaseInv, Quiet, Changing
<1>z. Pending = 0 /\ Stored = Len(chain)
  <2>1. Pending = 0
    BY <1>c DEF Starting, NothingExecuted, Released
  <2> QED BY <2>1, <1>n DEF Stored
<1>s. ASSUME Quiet, Starting
      PROVE  reth_epoch = 0 /\ exec_start' = 1 /\ reth_epoch' = current_epoch
  <2>1. Len(chain) = 0
    BY <1>s DEF Starting, NothingExecuted
  <2>2. latest_commit_block_number <= committed /\ committed <= Stored
    BY DEF IInv, CommitInv
  <2>3. latest_commit_block_number = 0
    <3>1. latest_commit_block_number \in Nat /\ committed \in Nat
      BY Order DEF NatState
    <3> QED BY <3>1, <2>1, <2>2, <1>z
  <2> QED BY <2>3, <1>s, <1>a DEF Quiet, Starting, ConsumedNumber, ConsumedEpoch
<1>r. ASSUME Released
      PROVE  exec_start' = Len(chain) + 1 /\ reth_epoch' = current_epoch /\ current_epoch = reth_epoch + 1
  <2>1. Len(chain) # 0
    BY <1>r, SMTT(30) DEF Released, TopOver, IInv, TypeOK
  <2> QED BY <2>1, <1>r, <1>a DEF Released, ConsumedNumber, ConsumedEpoch
<1>f. ChainInv' /\ NotStartedInv' /\ EpochInv' /\ ProofInv' /\ BaseInv' /\ ScheduledInv' /\
      HeldInv' /\ EntryInv' /\ ParentInv' /\ OldCommittedInv' /\ StoredInv' /\ TaskInv' /\
      ItemInv' /\ RequestInv' /\ CurrentInv' /\ QueueInv' /\ OldInv' /\ HeadInv' /\
      PersistingInv' /\ FrontInv' /\ FailInv'
  BY <1>v, <1>p, Frames
<1>Phase. PhaseInv'
  <2>1. CASE Quiet /\ Starting
    <3>1. Starting' \/ (reth_epoch' = current_epoch' /\ reth_epoch' # 0 /\ exec_pc' = "poll")
      BY <2>1, <1>s, <1>a, <1>v, <1>p DEF Starting, NothingExecuted
    <3>2. ~TopOver'
      BY <2>1, <1>v DEF Starting, NothingExecuted, TopOver
    <3> QED BY <2>1, <3>1, <3>2, <1>a, <1>v DEF PhaseInv, Quiet
  <2>2. CASE Released
    <3>1. reth_epoch' = current_epoch' /\ reth_epoch' # 0 /\ exec_pc' = "poll"
      BY <2>2, <1>r, <1>n, <1>a, <1>v, SMTT(30)
    <3>2. Top'.epoch < current_epoch'
      BY <2>2, <1>v, <1>n, SMTT(30) DEF Released, Top
    <3> QED BY <2>2, <3>1, <3>2, <1>a, <1>v DEF PhaseInv, Quiet, Released
  <2> QED BY <2>1, <2>2, <1>c
<1>NotReady. NotReadyInv'
  BY <1>a DEF NotReadyInv, IsReady
<1>Result. ResultInv'
  <2>1. vote = None
    BY <1>z, SMTT(30) DEF Pending, NatState
  <2> QED BY <2>1, <1>v, <1>p DEF IInv, ResultInv, ResultOf
<1>Awaited. AwaitedInv'
  <2>1. \A i \in DOMAIN chain : ~(i > Stored)
    BY <1>z, <1>n, ChainNumbers, SMTT(30)
  <2> QED BY <2>1, <1>v, <1>p DEF AwaitedInv, Stored
<1>Exec. ExecInv'
  <2>1. \A e : EpochOver(e)' <=> EpochOver(e)
    BY <1>v DEF EpochOver
  <2>2. CASE Quiet /\ Starting
    <3>1. chain = <<>> /\ exec_q = <<>> /\ Len(chain) = 0 /\ Len(exec_q) = 0 /\ DOMAIN exec_q = {}
      BY <2>2, SMTT(30) DEF Starting, NothingExecuted
    <3>2. Stale' = 0
      BY <2>2, <3>1, <1>s, <1>v, SMTT(30) DEF Stale
    <3> QED BY <3>1, <3>2, <1>a, <1>v DEF ExecInv
  <2>3. CASE Released
    <3>1. Len(chain) \in DOMAIN chain /\ Top.reconfig /\ Top.epoch = reth_epoch
      BY <2>3 DEF Released, TopOver, IInv, TypeOK
    <3>2. EpochOver(reth_epoch)
      BY <3>1 DEF EpochOver, Top
    <3>3. \A i \in DOMAIN exec_q : EpochOver(exec_q[i].epoch)
      BY <3>2 DEF IInv, ExecInv
    <3>4. Stale' = Len(exec_q)
      BY <2>3, <1>r, <1>n, <1>v DEF Stale
    <3>5. \A i \in DOMAIN exec_q : i <= Len(exec_q)
      BY PushedTypes
    <3>6. Len(exec_q) \in 0..Len(exec_q)
      BY <1>n, SMTT(30)
    <3> QED BY <2>1, <3>3, <3>4, <3>5, <3>6, <1>a, <1>v DEF ExecInv
  <2> QED BY <2>2, <2>3, <1>c
<1>Top. TopInv'
  <2>1. IsReady
    BY <1>a DEF IInv, NotReadyInv
  <2> QED BY <2>1, <1>v DEF IInv, TopInv, TopKey, Top, Held, St
<1>Commit. CommitInv'
  <2>1. commit_epoch <= reth_epoch /\ commit_epoch \in Nat
    BY Order DEF NatState, IInv, CommitInv
  <2>2. reth_epoch <= reth_epoch'
    BY <1>c, <1>s, <1>r, <1>n
  <2>3. reth_epoch' \in Nat
    BY <1>c, <1>s, <1>r, <1>n
  <2>4. commit_epoch' <= reth_epoch'
    BY <2>1, <2>2, <2>3, <1>n, <1>v, SMTT(30)
  <2> QED BY <2>4, <1>v, <1>p DEF IInv, CommitInv, Stored
<1> QED BY <1>t, <1>f, <1>Phase, <1>NotReady, <1>Result, <1>Awaited, <1>Exec, <1>Top, <1>Commit DEF IInv

(* The executor drops a block of an epoch that is over. *)
LEMMA StepRethDrop ==
    ASSUME IInv, RethExecute, EpochOver(Head(exec_q).epoch)
    PROVE  IInv'
<1>t. TypeOK'
  BY TypeRethExecute DEF IInv
<1>v. UNCHANGED <<blocks, current_epoch, next_epoch,
                  latest_epoch_change_block_number, epoch_change_block_info, epoch_change_ready,
                  latest_commit_block_number, latest_finalized_block_number, buffer_state,
                  cons_epoch, cons_running, epoch_base, ordered, head, task, item, persist_q,
                  persisting, epoch_proof, reth_epoch, exec_pc, exec_start, vote, commit_pc,
                  commit_epoch, commit_start, taken, chain, result_q, committed, persisted,
                  notified, failed>>
  BY DEF RethExecute, consVars, rethVars, bufferVars
<1>p. UNCHANGED Pending
  BY <1>v DEF Pending
<1>n. Len(chain) \in Nat /\ Len(exec_q) \in Nat /\ exec_start \in Nat
  BY Order DEF NatState
<1>b. /\ exec_q # <<>> /\ 1 \in DOMAIN exec_q /\ EpochOver(exec_q[1].epoch)
      /\ Len(exec_q') = Len(exec_q) - 1
      /\ \A i \in DOMAIN exec_q' : i \in Nat /\ i + 1 \in DOMAIN exec_q /\ exec_q'[i] = exec_q[i + 1]
  <2>1. exec_q \in Seq(Pushed) /\ exec_q # <<>> /\ exec_q' = Tail(exec_q)
    BY DEF RethExecute, IInv, TypeOK
  <2> QED BY <2>1, SMTT(30)
<1>f. ChainInv' /\ NotReadyInv' /\ EpochInv' /\ ProofInv' /\ BaseInv' /\ ScheduledInv' /\
      ResultInv' /\ AwaitedInv' /\ HeldInv' /\ EntryInv' /\ ParentInv' /\ TopInv' /\ CommitInv'
      /\ OldCommittedInv' /\ StoredInv' /\ TaskInv' /\ ItemInv' /\ RequestInv' /\ CurrentInv' /\
      QueueInv' /\ OldInv' /\ HeadInv' /\ PersistingInv' /\ FrontInv' /\ FailInv'
  BY <1>v, <1>p, Frames
<1>Phase. PhaseInv'
  <2>1. ~Starting
    BY <1>b DEF Starting, NothingExecuted
  <2>2. CASE Quiet
    BY <2>1, <2>2, <1>v, <1>p DEF PhaseInv, Quiet, TopOver, Top
  <2>3. CASE Changing
    BY <2>3, <1>v, <1>p DEF PhaseInv, Changing, TopOver, Top
  <2>4. CASE Released
    BY <2>4, <1>v, <1>p DEF PhaseInv, Released, TopOver, Top
  <2> QED BY <2>2, <2>3, <2>4 DEF IInv, PhaseInv
<1>NotStarted. NotStartedInv'
  <2>1. cons_epoch # 0
    BY <1>b DEF IInv, NotStartedInv, NothingExecuted
  <2> QED BY <2>1, <1>v DEF NotStartedInv
<1>Exec. ExecInv'
  <2>1. \A e : EpochOver(e)' <=> EpochOver(e)
    BY <1>v DEF EpochOver
  <2>2. \A b, n : Fresh(b, n)' <=> Fresh(b, n)
    BY <1>v DEF Fresh, St
  <2>3. exec_pc # "boot"
    BY <1>b DEF IInv, ExecInv, Starting, NothingExecuted
  <2>4. ASSUME EpochOver(reth_epoch)
        PROVE  \A i \in DOMAIN exec_q' : EpochOver(exec_q'[i].epoch)
    BY <2>4, <1>b DEF IInv, ExecInv
  <2>5. ASSUME ~EpochOver(reth_epoch)
        PROVE  /\ Stale' \in 0..Len(exec_q')
               /\ \A i \in DOMAIN exec_q' :
                     IF i <= Stale' THEN EpochOver(exec_q'[i].epoch)
                     ELSE Fresh(exec_q'[i], Len(chain) + i - Stale')
    <3>1. /\ Stale \in 0..Len(exec_q)
          /\ \A i \in DOMAIN exec_q :
                IF i <= Stale THEN EpochOver(exec_q[i].epoch)
                ELSE Fresh(exec_q[i], Len(chain) + i - Stale)
      BY <2>3, <2>5 DEF IInv, ExecInv
    <3>2. Stale >= 1
      <4>1. SUFFICES ASSUME ~(1 <= Stale) PROVE FALSE
        BY <3>1, <1>n
      <4>2. Fresh(exec_q[1], Len(chain) + 1 - Stale)
        BY <3>1, <4>1, <1>b
      <4> QED BY <4>2, <2>5, <1>b DEF Fresh
    <3>3. Stale' = Stale - 1
      BY <1>b, <1>n, <1>v DEF Stale
    <3>4. Stale' \in 0..Len(exec_q')
      BY <3>1, <3>2, <3>3, <1>b, <1>n
    <3>5. ASSUME NEW i \in DOMAIN exec_q'
          PROVE  IF i <= Stale' THEN EpochOver(exec_q'[i].epoch)
                 ELSE Fresh(exec_q'[i], Len(chain) + i - Stale')
      <4>1. i \in Nat /\ i + 1 \in DOMAIN exec_q /\ exec_q'[i] = exec_q[i + 1]
        BY <1>b
      <4>2. /\ i <= Stale' <=> i + 1 <= Stale
            /\ Len(chain) + i - Stale' = Len(chain) + (i + 1) - Stale
        <5>1. Stale \in Int
          BY PushedTypes
        <5> QED BY <5>1, <4>1, <3>3, <1>n, SMTT(30), SMTT(31)
      <4> QED BY <4>1, <4>2, <3>1
    <3> QED BY <3>4, <3>5
  <2> QED BY <2>1, <2>2, <2>3, <2>4, <2>5, <1>v DEF ExecInv
<1> QED BY <1>t, <1>f, <1>Phase, <1>NotStarted, <1>Exec DEF IInv

(* The executor runs the next block of the running epoch, on top of the last one. *)
LEMMA NextToRun ==
    ASSUME IInv, exec_q # <<>>, ~EpochOver(Head(exec_q).epoch)
    PROVE  /\ Stale = 0 /\ exec_pc # "boot" /\ ~EpochOver(reth_epoch)
           /\ \A i \in DOMAIN exec_q : Fresh(exec_q[i], Len(chain) + i)
           /\ Fresh(exec_q[1], Len(chain) + 1) /\ Head(exec_q) = exec_q[1] /\ 1 \in DOMAIN exec_q
           /\ Quiet /\ reth_epoch = current_epoch /\ reth_epoch # 0
           /\ cons_running /\ cons_epoch = current_epoch
           /\ <<reth_epoch, Len(chain) + 1>> \in Keys
<1>n. /\ Len(chain) \in Nat /\ Len(exec_q) \in Nat /\ reth_epoch \in Nat /\ current_epoch \in Nat
      /\ cons_epoch \in Nat
  BY Order DEF NatState
<1>1. Head(exec_q) = exec_q[1] /\ 1 \in DOMAIN exec_q /\ Len(exec_q) >= 1
  BY SMTT(30) DEF IInv, TypeOK
<1>2. exec_pc # "boot" /\ ~Starting
  BY DEF IInv, ExecInv, Starting, NothingExecuted
<1>3. ~EpochOver(reth_epoch)
  BY <1>1 DEF IInv, ExecInv
<1>4. /\ Stale \in 0..Len(exec_q)
      /\ \A i \in DOMAIN exec_q :
            IF i <= Stale THEN EpochOver(exec_q[i].epoch)
            ELSE Fresh(exec_q[i], Len(chain) + i - Stale)
  BY <1>2, <1>3 DEF IInv, ExecInv
<1>5. Stale = 0
  BY <1>1, <1>4, <1>n
<1>6. \A i \in DOMAIN exec_q : Fresh(exec_q[i], Len(chain) + i)
  <2>1. TAKE i \in DOMAIN exec_q
  <2>2. i \in Nat /\ i > 0
    BY PushedTypes
  <2>3. ~(i <= Stale) /\ Len(chain) + i - Stale = Len(chain) + i
    BY <2>2, <1>5, <1>n
  <2> QED BY <2>3, <1>4
<1>7. Fresh(exec_q[1], Len(chain) + 1)
  BY <1>1, <1>6
<1>8. ASSUME TopOver, Top.epoch = reth_epoch PROVE FALSE
  <2>1. Len(chain) \in DOMAIN chain
    BY <1>8, SMTT(30) DEF TopOver, IInv, TypeOK
  <2> QED BY <2>1, <1>3, <1>8 DEF EpochOver, TopOver, Top
<1>9. Quiet
  BY <1>8 DEF IInv, PhaseInv, Changing, Released
<1>10. reth_epoch = current_epoch /\ reth_epoch # 0
  BY <1>2, <1>9 DEF Quiet
<1>11. <<reth_epoch, Len(chain) + 1>> \in Keys
  BY <1>1, <1>7, PushedTypes DEF Fresh, Keys, IInv, TypeOK
<1>12. reth_epoch <= cons_epoch
  <2>1. Held(<<reth_epoch, Len(chain) + 1>>)
    BY <1>7 DEF Fresh, Held
  <2> QED BY <2>1, <1>11 DEF IInv, HeldInv, HeldOK
<1>13. cons_epoch # 0
  BY <1>10, <1>12, <1>n
<1>14. cons_running
  BY <1>10, <1>12, <1>13, <1>n DEF IInv, EpochInv
<1>15. cons_epoch = current_epoch
  BY <1>14 DEF IInv, EpochInv
<1> QED BY <1>1, <1>2, <1>3, <1>5, <1>6, <1>7, <1>9, <1>10, <1>11, <1>14, <1>15

(* What the executor appends to its chain and to its results. *)
LEMMA RunExtends ==
    ASSUME IInv, RethExecute, ~EpochOver(Head(exec_q).epoch)
    PROVE  /\ Len(chain') = Len(chain) + 1 /\ DOMAIN chain' = DOMAIN chain \cup {Len(chain) + 1}
           /\ Len(chain) + 1 \in DOMAIN chain' /\ chain' # <<>>
           /\ \A i \in DOMAIN chain : chain'[i] = chain[i]
           /\ chain' = Append(chain, chain'[Len(chain) + 1])
           /\ chain'[Len(chain) + 1].epoch = reth_epoch /\ chain'[Len(chain) + 1].num = Len(chain) + 1
           /\ chain'[Len(chain) + 1].id = <<reth_epoch, Len(chain) + 1>>
           /\ chain'[Len(chain) + 1].parent = blocks[<<reth_epoch, Len(chain) + 1>>].parent
           /\ Len(result_q') = Len(result_q) + 1
           /\ DOMAIN result_q' = DOMAIN result_q \cup {Len(result_q) + 1}
           /\ \A i \in DOMAIN result_q : result_q'[i] = result_q[i]
           /\ result_q'[Len(result_q) + 1] =
                [id |-> chain'[Len(chain) + 1].id, num |-> Len(chain) + 1,
                 new |-> IF chain'[Len(chain) + 1].reconfig
                         THEN chain'[Len(chain) + 1].epoch + 1 ELSE None]
<1> DEFINE b == Head(exec_q)
<1>1. PICK new \in {None} \cup ({b.epoch + 1} \cap Epochs) :
         /\ chain' = Append(chain, [epoch |-> b.epoch, num |-> b.num, id |-> b.id,
                                    parent |-> b.parent, reconfig |-> new # None])
         /\ result_q' = Append(result_q, [id |-> b.id, num |-> b.num, new |-> new])
  BY DEF RethExecute
<1>2. Fresh(b, Len(chain) + 1)
  BY NextToRun DEF RethExecute
<1>3. /\ b.epoch = reth_epoch /\ b.num = Len(chain) + 1 /\ b.id = <<reth_epoch, Len(chain) + 1>>
      /\ b.parent = blocks[<<reth_epoch, Len(chain) + 1>>].parent
  BY <1>2 DEF Fresh
<1> DEFINE nb == [epoch |-> b.epoch, num |-> b.num, id |-> b.id,
                  parent |-> b.parent, reconfig |-> new # None]
           nr == [id |-> b.id, num |-> b.num, new |-> new]
<1>4. nb.reconfig = (new # None) /\ nb.epoch = b.epoch /\ nb.num = b.num /\ nb.id = b.id
      /\ nb.parent = b.parent
  OBVIOUS
<1>5. new = IF nb.reconfig THEN b.epoch + 1 ELSE None
  BY <1>4
<1>6. nr = [id |-> nb.id, num |-> Len(chain) + 1,
            new |-> IF nb.reconfig THEN nb.epoch + 1 ELSE None]
  BY <1>3, <1>4, <1>5
<1>7. chain \in Seq(Executed) /\ result_q \in Seq(Computed)
  BY DEF IInv, TypeOK
<1>8. chain' = Append(chain, nb) /\ result_q' = Append(result_q, nr)
  BY <1>1
<1> HIDE DEF nb, nr
<1>9. /\ Len(chain') = Len(chain) + 1 /\ DOMAIN chain' = DOMAIN chain \cup {Len(chain) + 1}
      /\ Len(chain) + 1 \in DOMAIN chain' /\ chain' # <<>>
      /\ \A i \in DOMAIN chain : chain'[i] = chain[i]
      /\ chain'[Len(chain) + 1] = nb
  BY <1>7, <1>8, Appended, SMTT(30)
<1>10. /\ Len(result_q') = Len(result_q) + 1
       /\ DOMAIN result_q' = DOMAIN result_q \cup {Len(result_q) + 1}
       /\ \A i \in DOMAIN result_q : result_q'[i] = result_q[i]
       /\ result_q'[Len(result_q) + 1] = nr
  BY <1>7, <1>8, Appended
<1> QED BY <1>3, <1>4, <1>6, <1>8, <1>9, <1>10

(* The executor runs the next block of the chain. *)
LEMMA StepRethRun ==
    ASSUME IInv, RethExecute, ~EpochOver(Head(exec_q).epoch)
    PROVE  IInv'
<1>t. TypeOK'
  BY TypeRethExecute DEF IInv
<1>v. UNCHANGED <<blocks, current_epoch, next_epoch,
                  latest_epoch_change_block_number, epoch_change_block_info, epoch_change_ready,
                  latest_commit_block_number, latest_finalized_block_number, buffer_state,
                  cons_epoch, cons_running, epoch_base, ordered, head, task, item, persist_q,
                  persisting, epoch_proof, reth_epoch, exec_pc, exec_start, vote, commit_pc,
                  commit_epoch, commit_start, taken, committed, persisted, notified, failed>>
  BY DEF RethExecute, consVars, rethVars, bufferVars
<1>n. /\ Len(chain) \in Nat /\ Len(exec_q) \in Nat /\ exec_start \in Nat /\ Stored \in Nat
      /\ Stored <= Len(chain) /\ Pending \in Nat /\ reth_epoch \in Nat /\ current_epoch \in Nat
      /\ cons_epoch \in Nat
  BY Order DEF NatState
<1>r. /\ Stale = 0 /\ exec_pc # "boot" /\ ~EpochOver(reth_epoch)
      /\ \A i \in DOMAIN exec_q : Fresh(exec_q[i], Len(chain) + i)
      /\ Fresh(exec_q[1], Len(chain) + 1) /\ St(<<reth_epoch, Len(chain) + 1>>) = "ordered"
      /\ Quiet /\ reth_epoch = current_epoch /\ reth_epoch # 0
      /\ cons_running /\ cons_epoch = current_epoch /\ cons_epoch # 0
  BY NextToRun DEF RethExecute, Fresh
<1>b. /\ Len(exec_q') = Len(exec_q) - 1 /\ Len(exec_q) >= 1
      /\ \A i \in DOMAIN exec_q' :
            i \in Nat /\ i > 0 /\ i + 1 \in DOMAIN exec_q /\ exec_q'[i] = exec_q[i + 1]
  <2>1. exec_q \in Seq(Pushed) /\ exec_q # <<>> /\ exec_q' = Tail(exec_q)
    BY DEF RethExecute, IInv, TypeOK
  <2> QED BY <2>1, SMTT(30)
<1>x. /\ Len(chain') = Len(chain) + 1 /\ DOMAIN chain' = DOMAIN chain \cup {Len(chain) + 1}
      /\ Len(chain) + 1 \in DOMAIN chain' /\ chain' # <<>>
      /\ \A i \in DOMAIN chain : chain'[i] = chain[i]
  BY RunExtends DEF IInv
<1>w. /\ chain'[Len(chain) + 1].epoch = reth_epoch /\ chain'[Len(chain) + 1].num = Len(chain) + 1
      /\ chain'[Len(chain) + 1].id = <<reth_epoch, Len(chain) + 1>>
  BY RunExtends DEF IInv
<1>y. /\ Pending' = Pending + 1 /\ Stored' = Stored
      /\ Len(result_q') = Len(result_q) + 1
      /\ DOMAIN result_q' = DOMAIN result_q \cup {Len(result_q) + 1}
      /\ \A i \in DOMAIN result_q : result_q'[i] = result_q[i]
      /\ result_q'[Len(result_q) + 1] =
           [id |-> chain'[Len(chain) + 1].id, num |-> Len(chain) + 1,
            new |-> IF chain'[Len(chain) + 1].reconfig
                    THEN chain'[Len(chain) + 1].epoch + 1 ELSE None]
  <2>1. /\ Len(result_q') = Len(result_q) + 1
        /\ DOMAIN result_q' = DOMAIN result_q \cup {Len(result_q) + 1}
        /\ \A i \in DOMAIN result_q : result_q'[i] = result_q[i]
        /\ result_q'[Len(result_q) + 1] =
             [id |-> chain'[Len(chain) + 1].id, num |-> Len(chain) + 1,
              new |-> IF chain'[Len(chain) + 1].reconfig
                      THEN chain'[Len(chain) + 1].epoch + 1 ELSE None]
    BY RunExtends DEF IInv
  <2>2. Pending' = Pending + 1
    <3>1. Len(result_q) \in Nat
      BY Order DEF NatState
    <3> QED BY <2>1, <3>1, <1>v, SMTT(30) DEF Pending
  <2>3. Stored' = Stored
    BY <2>2, <1>x, <1>n DEF Stored
  <2> QED BY <2>1, <2>2, <2>3
<1>j. \A i \in 1..Stored : chain'[i] = chain[i]
  <2>1. \A i \in 1..Stored : i \in 1..Len(chain)
    BY <1>n
  <2>2. DOMAIN chain = 1..Len(chain)
    BY SMTT(30) DEF IInv, TypeOK
  <2> QED BY <2>1, <2>2, <1>x
<1>i. \A k \in Keys, over \in BOOLEAN : InChain(k, over)' <=> InChain(k, over)
  BY <1>j, <1>y DEF InChain
<1>f. NotReadyInv' /\ EpochInv' /\ ScheduledInv' /\ RequestInv' /\ CurrentInv' /\ QueueInv' /\
      OldInv' /\ PersistingInv' /\ FailInv'
  BY <1>v, Frames
<1>Chain. ChainInv'
  <2>1. ASSUME NEW i \in DOMAIN chain
        PROVE  chain[i].epoch <= reth_epoch /\ (chain[i].reconfig => chain[i].epoch < reth_epoch)
    <3>1. chain[i].epoch <= cons_epoch /\ chain[i].epoch \in Nat
      BY ChainNumbers DEF IInv, BaseInv
    <3>2. chain[i].reconfig => chain[i].epoch # reth_epoch
      BY <1>r DEF EpochOver
    <3> QED BY <3>1, <3>2, <1>r, <1>n, SMTT(30)
  <2>2. \A i \in DOMAIN chain : i \in Nat /\ i # Len(chain) + 1 /\ ~(Len(chain) + 1 < i)
    <3>1. TAKE i \in DOMAIN chain
    <3>2. i \in Nat /\ i <= Len(chain)
      BY ChainNumbers
    <3> QED BY <3>2, <1>n
  <2>3. ~(Len(chain) + 1 < Len(chain) + 1)
    BY <1>n, SMTT(30)
  <2>4. \A i \in DOMAIN chain' : chain'[i].num = i /\ chain'[i].id = <<chain'[i].epoch, i>>
    BY <1>x, <1>w DEF IInv, ChainInv
  <2>5. ASSUME NEW i \in DOMAIN chain', NEW j \in DOMAIN chain', i < j
        PROVE  /\ chain'[i].epoch <= chain'[j].epoch
               /\ chain'[i].reconfig => chain'[i].epoch < chain'[j].epoch
    <3>1. CASE i \in DOMAIN chain /\ j \in DOMAIN chain
      BY <3>1, <2>5, <1>x DEF IInv, ChainInv
    <3>2. CASE i \in DOMAIN chain /\ j = Len(chain) + 1
      BY <3>2, <2>1, <1>x, <1>w
    <3> QED BY <3>1, <3>2, <2>2, <2>3, <2>5, <1>x
  <2> QED BY <2>4, <2>5 DEF ChainInv
<1>Phase. PhaseInv'
  <2>1. Pending' # 0
    BY <1>y, <1>n, SMTT(30)
  <2> QED BY <2>1, <1>r, <1>v DEF PhaseInv, Quiet, Starting
<1>NotStarted. NotStartedInv'
  BY <1>r, <1>v DEF NotStartedInv
<1>Proof. ProofInv'
  <2>1. epoch_proof = None
    <3>1. SUFFICES ASSUME epoch_proof # None PROVE FALSE
      OBVIOUS
    <3>2. TopOver /\ Top.epoch = reth_epoch
      BY <3>1, <1>r DEF IInv, ProofInv
    <3>3. Len(chain) \in DOMAIN chain
      BY <3>2, SMTT(30) DEF TopOver, IInv, TypeOK
    <3> QED BY <3>2, <3>3, <1>r DEF EpochOver, TopOver, Top
  <2> QED BY <2>1, <1>v DEF ProofInv
<1>Base. BaseInv'
  <2> DEFINE base == epoch_base[cons_epoch]
  <2>1. /\ base <= Len(chain) /\ base <= head /\ base <= ordered /\ base \in Nat
        /\ \A i \in DOMAIN chain : i > base <=> chain[i].epoch = cons_epoch
        /\ base = 0 => cons_epoch = 1
        /\ base # 0 => chain[base].epoch = cons_epoch - 1 /\ chain[base].reconfig
    BY <1>r, Naturals DEF IInv, BaseInv, TypeOK
  <2> HIDE DEF base
  <2>2. base <= Len(chain) + 1 /\ Len(chain) + 1 > base /\ cons_epoch <= cons_epoch
    BY <2>1, <1>n, SMTT(30), SMTT(31)
  <2>3. base # 0 => base \in DOMAIN chain
    <3>1. base # 0 => base \in 1..Len(chain)
      BY <2>1, <1>n, SMTT(30)
    <3> QED BY <3>1, SMTT(30), SMTT(31) DEF IInv, TypeOK
  <2>4. \A i \in DOMAIN chain' : i > base <=> chain'[i].epoch = cons_epoch
    BY <2>1, <2>2, <1>x, <1>w, <1>r
  <2>5. \A i \in DOMAIN chain' : chain'[i].epoch <= cons_epoch
    BY <2>2, <1>x, <1>w, <1>r DEF IInv, BaseInv
  <2> QED BY <2>1, <2>2, <2>3, <2>4, <2>5, <1>x, <1>v, <1>r, ZenonT(40) DEF BaseInv, base
<1>Result. ResultInv'
  <2>1. Len(result_q) \in Nat /\ Pending \in Nat /\ Pending <= Len(chain) /\ Len(result_q) <= Pending
    <3>1. Len(result_q) \in Nat /\ Pending \in Nat
      BY Order DEF NatState
    <3>2. Pending <= Len(chain)
      BY DEF IInv, ResultInv
    <3>3. Len(result_q) <= Pending
      BY <3>1, SMTT(30) DEF Pending
    <3> QED BY <3>1, <3>2, <3>3
  <2>2. Pending' <= Len(chain')
    BY <2>1, <1>x, <1>y, <1>n, SMTT(30)
  <2>3. \A j \in 1..Len(chain) : ResultOf(j)' = ResultOf(j)
    <3>1. \A j \in 1..Len(chain) : chain'[j] = chain[j]
      BY <1>x, SMTT(30) DEF IInv, TypeOK
    <3> QED BY <3>1 DEF ResultOf
  <2>4. ASSUME vote # None
        PROVE  vote'.res = ResultOf(Stored + 1)' /\ vote'.epoch = reth_epoch'
    <3>1. Pending >= 1
      BY <2>4, <2>1 DEF Pending
    <3>2. Stored + 1 \in 1..Len(chain)
      BY <3>1, <2>1, <1>n, SMTT(30) DEF Stored
    <3>3. vote.res = ResultOf(Stored + 1) /\ vote.epoch = reth_epoch
      BY <2>4 DEF IInv, ResultInv
    <3>4. ResultOf(Stored + 1)' = ResultOf(Stored + 1)
      <4>1. chain'[Stored + 1] = chain[Stored + 1]
        BY <3>2, <1>x, SMTT(30), SMTT(31) DEF IInv, TypeOK
      <4> QED BY <4>1, <1>y DEF ResultOf
    <3> QED BY <3>3, <3>4, <1>v
  <2>5. ASSUME NEW i \in DOMAIN result_q'
        PROVE  result_q'[i] = ResultOf(Len(chain) - Len(result_q) + i)'
    <3> DEFINE at == Len(chain) - Len(result_q) + i
    <3>1. Len(chain') - Len(result_q') + i = at /\ i \in Nat
      BY <2>1, <1>x, <1>y, <1>n, SMTT(30)
    <3>2. CASE i \in DOMAIN result_q
      <4>1. result_q[i] = ResultOf(at)
        BY <3>2 DEF IInv, ResultInv
      <4>2. i \in 1..Len(result_q)
        BY <3>2 DEF IInv, TypeOK
      <4>3. at \in 1..Len(chain)
        BY <4>2, <2>1, <1>n, SMTT(30), SMTT(31)
      <4>4. at \in DOMAIN chain
        BY <4>3, SMTT(30) DEF IInv, TypeOK
      <4> QED BY <3>1, <3>2, <4>1, <4>4, <1>x, <1>y DEF ResultOf
    <3>3. CASE i = Len(result_q) + 1
      <4>1. at = Len(chain) + 1
        BY <3>3, <2>1, <1>n, SMTT(30)
      <4> QED BY <3>1, <3>3, <4>1, <1>w, <1>y DEF ResultOf
    <3> QED BY <3>2, <3>3, <1>y
  <2> QED BY <2>2, <2>4, <2>5, <1>v DEF ResultInv
<1>Awaited. AwaitedInv'
  <2>1. ASSUME NEW i \in DOMAIN chain', i > Stored
        PROVE  chain'[i].epoch = reth_epoch /\ St(<<reth_epoch, i>>) = "ordered"
    BY <2>1, <1>x, <1>w, <1>r DEF IInv, AwaitedInv
  <2> QED BY <2>1, <1>r, <1>v, <1>y DEF AwaitedInv, St
<1>Exec. ExecInv'
  <2>1. \A b, n : Fresh(b, n)' <=> Fresh(b, n)
    BY <1>v DEF Fresh, St
  <2>2. \A i \in DOMAIN exec_q' : Fresh(exec_q'[i], Len(chain) + (i + 1))
    BY <1>b, <1>r
  <2>3. ASSUME EpochOver(reth_epoch)'
        PROVE  \A i \in DOMAIN exec_q' : EpochOver(exec_q[i].epoch)'
    <3>1. \A i \in DOMAIN exec_q' : exec_q'[i].epoch = reth_epoch'
      BY <2>2, <1>v DEF Fresh
    <3> QED BY <2>3, <3>1 DEF EpochOver
  <2>4. Stale' = 0 /\ Stale' \in 0..Len(exec_q')
    <3>1. Stale' = Stale
      BY <1>b, <1>x, <1>n, <1>v, SMTT(30) DEF Stale
    <3> QED BY <3>1, <1>r, <1>b, <1>n
  <2>5. ASSUME NEW i \in DOMAIN exec_q'
        PROVE  ~(i <= Stale') /\ Fresh(exec_q[i], Len(chain) + i - Stale)'
    <3>1. i \in Nat /\ i > 0
      BY <1>b
    <3>2. ~(i <= 0) /\ Len(chain') + i - Stale' = Len(chain) + (i + 1)
      BY <3>1, <2>4, <1>x, <1>n
    <3>3. Fresh(exec_q'[i], Len(chain) + (i + 1))
      BY <2>2
    <3> QED BY <3>2, <3>3, <2>4, <1>v DEF Fresh, St
  <2> QED BY <2>3, <2>4, <2>5, <1>r, <1>v DEF ExecInv
<1>Held. HeldInv'
  BY <1>x, <1>v DEF IInv, HeldInv, HeldOK, Held, St
<1>Entry. EntryInv'
  BY <1>i, <1>v DEF IInv, EntryInv, EntryResult, IsSuffixBlock, St
<1>Parent. ParentInv'
  BY <1>y, <1>v DEF IInv, ParentInv, RightParent, St
<1>Top. TopInv'
  <2>1. TopKey' = <<reth_epoch, Len(chain) + 1>>
    BY <1>x, <1>w DEF TopKey, Top
  <2> QED BY <2>1, <1>r, <1>v DEF TopInv, Fresh, Held, St
<1>Commit. CommitInv'
  BY <1>y, <1>v DEF IInv, CommitInv
<1>OldCommitted. OldCommittedInv'
  <2>1. \A i \in DOMAIN chain' : chain'[i].epoch < current_epoch => i \in DOMAIN chain
    BY <1>x, <1>w, <1>r, <1>n, SMTT(30)
  <2> QED BY <2>1, <1>x, <1>v DEF IInv, OldCommittedInv
<1>Stored. StoredInv'
  <2>1. \A i \in DOMAIN chain' : i <= Stored => i \in DOMAIN chain
    BY <1>x, <1>n, SMTT(30)
  <2> QED BY <2>1, <1>x, <1>y, <1>v DEF IInv, StoredInv, St
<1>Task. TaskInv'
  BY <1>i, <1>v DEF IInv, TaskInv, TaskResult, IsSuffixBlock
<1>Item. ItemInv'
  BY <1>i, <1>j, <1>y, <1>v DEF IInv, ItemInv, ItemOK
<1>Head. HeadInv'
  BY <1>y, <1>v DEF IInv, HeadInv, St
<1>Front. FrontInv'
  <2>1. \A n : EndsHere(n)' <=> EndsHere(n)
    BY <1>j, <1>y, <1>v DEF EndsHere
  <2> QED BY <2>1, <1>v DEF IInv, FrontInv, Handled
<1> QED BY <1>t, <1>f, <1>Chain, <1>Phase, <1>NotStarted, <1>Proof, <1>Base, <1>Result,
           <1>Awaited, <1>Exec, <1>Held, <1>Entry, <1>Parent, <1>Top, <1>Commit,
           <1>OldCommitted, <1>Stored, <1>Task, <1>Item, <1>Head, <1>Front DEF IInv

(* A result passes from the channel to start_commit_vote; it is still in flight. *)
LEMMA StepVoteRecv ==
    ASSUME IInv, VoteRecv
    PROVE  IInv'
<1>t. TypeOK'
  BY TypeVoteRecv DEF IInv
<1>v. UNCHANGED <<blocks, current_epoch, next_epoch,
                  latest_epoch_change_block_number, epoch_change_block_info, epoch_change_ready,
                  latest_commit_block_number, latest_finalized_block_number, buffer_state,
                  cons_epoch, cons_running, epoch_base, ordered, head, task, item, persist_q,
                  persisting, epoch_proof, reth_epoch, exec_pc, exec_start, commit_pc,
                  commit_epoch, commit_start, taken, exec_q, chain, committed, persisted,
                  notified, failed>>
  BY DEF VoteRecv, consVars, rethVars, bufferVars
<1>p. UNCHANGED Pending
  <2>1. vote = None /\ vote' # None /\ result_q # <<>> /\ result_q' = Tail(result_q)
    <3>1. vote' \in Votes
      <4>1. Head(result_q) \in Computed /\ reth_epoch \in Epochs
        BY DEF VoteRecv, IInv, TypeOK
      <4> QED BY <4>1 DEF VoteRecv, Votes
    <3> QED BY <3>1, PipelineAssumption DEF VoteRecv
  <2>2. result_q \in Seq(Computed)
    BY DEF IInv, TypeOK
  <2>3. Len(result_q') = Len(result_q) - 1 /\ Len(result_q) \in Nat
    BY <2>1, <2>2, SMTT(30)
  <2> QED BY <2>1, <2>3 DEF Pending
<1>f. ChainInv' /\ PhaseInv' /\ NotReadyInv' /\ NotStartedInv' /\ EpochInv' /\ ProofInv' /\
      BaseInv' /\ ScheduledInv' /\ AwaitedInv' /\ ExecInv' /\ HeldInv' /\ EntryInv' /\
      ParentInv' /\ TopInv' /\ CommitInv' /\ OldCommittedInv' /\ StoredInv' /\ TaskInv' /\
      ItemInv' /\ RequestInv' /\ CurrentInv' /\ QueueInv' /\ OldInv' /\ HeadInv' /\
      PersistingInv' /\ FrontInv' /\ FailInv'
  BY <1>v, <1>p, Frames
<1>Result. ResultInv'
  <2>1. /\ vote = None /\ result_q # <<>> /\ vote' = [res |-> Head(result_q), epoch |-> reth_epoch]
        /\ result_q' = Tail(result_q)
    BY DEF VoteRecv
  <2>2. Len(result_q) \in Nat /\ Len(chain) \in Nat /\ result_q \in Seq(Computed)
    BY Order DEF NatState, IInv, TypeOK
  <2>3. \A i \in DOMAIN result_q : result_q[i] = ResultOf(Len(chain) - Len(result_q) + i)
    BY DEF IInv, ResultInv
  <2>4. Stored = Len(chain) - Len(result_q) /\ Stored' = Stored
    BY <1>v, <1>p, <2>1, <2>2 DEF Stored, Pending
  <2>5. vote'.res = ResultOf(Stored + 1)
    <3>1. 1 \in DOMAIN result_q /\ Head(result_q) = result_q[1]
      BY <2>1, <2>2, SMTT(30)
    <3> QED BY <3>1, <2>1, <2>2, <2>3, <2>4
  <2>6. \A j \in Int : ResultOf(j)' = ResultOf(j)
    BY <1>v DEF ResultOf
  <2>7. ASSUME NEW i \in DOMAIN result_q'
        PROVE  result_q'[i] = ResultOf(Len(chain) - Len(result_q') + i)
    <3>1. i + 1 \in DOMAIN result_q /\ result_q'[i] = result_q[i + 1] /\ i \in Nat
          /\ Len(result_q') = Len(result_q) - 1
      BY <2>1, <2>2
    <3>2. Len(chain) - Len(result_q') + i = Len(chain) - Len(result_q) + (i + 1)
      BY <3>1, <2>2
    <3> QED BY <3>1, <3>2, <2>3
  <2>8. Stored + 1 \in Int /\ \A i \in DOMAIN result_q' : Len(chain) - Len(result_q') + i \in Int
    BY <2>1, <2>2, <2>4
  <2>9. vote'.res = ResultOf(Stored + 1)' /\ vote'.epoch = reth_epoch'
    <3>1. ResultOf(Stored + 1)' = ResultOf(Stored + 1)
      BY <1>v, <2>4 DEF ResultOf
    <3> QED BY <3>1, <2>1, <2>5, <1>v
  <2>10. \A i \in DOMAIN result_q' : result_q'[i] = ResultOf(Len(chain) - Len(result_q) + i)'
    BY <2>7, <1>v DEF ResultOf
  <2> QED BY <2>9, <2>10, <1>v, <1>p DEF IInv, ResultInv
<1> QED BY <1>t, <1>f, <1>Result DEF IInv

(* The last block of a batch start_commit gets is one whose result is stored under its *)
(* number, beyond what was committed, and the batch ends with it.                        *)
LEMMA PollAgrees ==
    ASSUME IInv, IsReady, NEW last \in Numbers, LastOf(last, CommittedRun(commit_start, commit_epoch))
    PROVE  /\ last \in Nat /\ committed < last /\ last <= Stored
           /\ last \in DOMAIN chain /\ chain[last].epoch = commit_epoch
           /\ chain[last].id = blocks[<<commit_epoch, last>>].id
           /\ <<commit_epoch, last>> \in Keys /\ St(<<commit_epoch, last>>) = "committed"
           /\ \A n \in CommittedRun(commit_start, commit_epoch) : n <= last
<1>1. /\ last \in CommittedRun(commit_start, commit_epoch)
      /\ last + 1 \notin CommittedRun(commit_start, commit_epoch)
  BY DEF LastOf
<1>2. /\ last \in Nat /\ commit_start \in Nat /\ committed \in Nat /\ commit_start = committed + 1
      /\ Stored \in Nat /\ Len(chain) \in Nat /\ Stored <= Len(chain)
  BY Naturals, Order DEF NatState, IInv, CommitInv
<1>3. last >= commit_start /\ \A m \in commit_start..last :
                               ~IsSuffixBlock(m) /\ St(<<commit_epoch, m>>) = "committed"
  BY <1>1 DEF CommittedRun
<1>4. committed < last /\ last \in commit_start..last
  BY <1>2, <1>3, SMTT(30)
<1>5. ~IsSuffixBlock(last) /\ St(<<commit_epoch, last>>) = "committed"
  BY <1>3, <1>4
<1>6. <<commit_epoch, last>> \in Keys
  BY DEF IInv, TypeOK, Keys
<1>7. EntryResult(<<commit_epoch, last>>) /\ HeldOK(<<commit_epoch, last>>)
  BY <1>5, <1>6 DEF IInv, EntryInv, HeldInv, Held
<1>8. last \in 1..Stored /\ chain[last].epoch = commit_epoch
  BY <1>5, <1>7 DEF EntryResult, InChain
<1>9. last \in DOMAIN chain /\ last <= Stored
  <2>1. last \in 1..Len(chain) /\ last <= Stored
    BY <1>2, <1>8
  <2> QED BY <2>1, SMTT(30), SMTT(31) DEF IInv, TypeOK
<1>10. chain[last].id = <<commit_epoch, last>>
  BY <1>8, <1>9 DEF IInv, ChainInv
<1>11. ASSUME NEW n \in CommittedRun(commit_start, commit_epoch) PROVE n <= last
  <2>1. n \in Numbers /\ n \in Nat /\ \A m \in commit_start..n :
                               ~IsSuffixBlock(m) /\ St(<<commit_epoch, m>>) = "committed"
    BY Naturals DEF CommittedRun
  <2>2. SUFFICES ASSUME n > last PROVE FALSE
    BY <2>1, <1>2
  <2>3. last + 1 \in Nat /\ last + 1 <= n /\ last + 1 >= commit_start
    BY <2>1, <2>2, <1>2, <1>3, SMTT(30)
  <2>4. last + 1 \in Numbers
    BY <2>1, <2>3, Below
  <2>5. \A m \in commit_start..(last + 1) : m \in commit_start..n
    BY <2>1, <2>3, <1>2
  <2>6. last + 1 \in CommittedRun(commit_start, commit_epoch)
    BY <2>1, <2>3, <2>4, <2>5 DEF CommittedRun
  <2> QED BY <2>6, <1>1
<1> QED BY <1>2, <1>4, <1>5, <1>6, <1>7, <1>8, <1>9, <1>10, <1>11 DEF HeldOK

(* start_commit hands a batch to the executor: the last block is the one executed under its *)
(* number, so the check on its hash succeeds.                                                *)
LEMMA StepCommitPoll ==
    ASSUME IInv, CommitPoll
    PROVE  IInv'
<1>t. TypeOK'
  BY TypeCommitPoll DEF IInv
<1>v. UNCHANGED <<current_epoch, next_epoch, latest_epoch_change_block_number,
                  epoch_change_block_info, epoch_change_ready, latest_commit_block_number,
                  latest_finalized_block_number, buffer_state, cons_epoch, cons_running,
                  epoch_base, ordered, head, task, item, persist_q, persisting, epoch_proof,
                  reth_epoch, exec_pc, exec_start, vote, commit_epoch, exec_q, chain, result_q,
                  persisted, notified>>
  BY DEF CommitPoll, GetCommittedBlocks, consVars, rethVars, bufferVars
<1>p. UNCHANGED Pending
  BY <1>v DEF Pending
<1>1. PICK last \in Numbers :
        /\ LastOf(last, CommittedRun(commit_start, commit_epoch))
        /\ IF last \in DOMAIN chain /\ chain[last].id = blocks[<<commit_epoch, last>>].id
           THEN /\ commit_start' = last + 1 /\ committed' = last
                /\ taken' = TakenNotifiers(commit_start, commit_epoch)
                /\ failed' = failed
           ELSE TRUE
  BY DEF CommitPoll
<1>2. IsReady
  BY DEF CommitPoll, GetCommittedBlocks
<1>c. /\ commit_start' = last + 1 /\ committed' = last
      /\ taken' = TakenNotifiers(commit_start, commit_epoch) /\ failed' = failed
      /\ last \in DOMAIN chain /\ chain[last].epoch = commit_epoch
      /\ St(<<commit_epoch, last>>) = "committed" /\ IsReady
      /\ LastOf(last, CommittedRun(commit_start, commit_epoch))
  BY <1>1, <1>2, PollAgrees
<1>n. /\ last \in Nat /\ committed < last /\ last <= Stored /\ committed \in Nat /\ Stored \in Nat
      /\ Len(chain) \in Nat /\ Stored <= Len(chain)
  BY <1>1, <1>2, PollAgrees, Order DEF NatState
<1>b. \A j \in Keys :
         /\ blocks'[j].st = blocks[j].st /\ blocks'[j].id = blocks[j].id
         /\ blocks'[j].res = blocks[j].res
         /\ St(j) # "committed" => blocks'[j] = blocks[j]
  <2>1. TAKE j \in Keys
  <2>2. blocks'[j] = IF j[1] = commit_epoch /\ j[2] \in TakenNotifiers(commit_start, commit_epoch)
                     THEN [blocks[j] EXCEPT !.notifier = FALSE] ELSE blocks[j]
    BY DEF CommitPoll, GetCommittedBlocks
  <2>3. CASE j[1] = commit_epoch /\ j[2] \in TakenNotifiers(commit_start, commit_epoch)
    <3>1. j[2] \in Nat /\ j[2] \in CommittedRun(commit_start, commit_epoch)
      BY <2>3, KeyParts, Naturals DEF TakenNotifiers
    <3>2. j[2] \in commit_start..j[2]
      <4>1. j[2] >= commit_start /\ commit_start \in Nat
        BY <3>1, Order DEF CommittedRun, NatState
      <4> QED BY <4>1, <3>1, SMTT(30)
    <3>3. St(<<commit_epoch, j[2]>>) = "committed"
      BY <3>1, <3>2 DEF CommittedRun
    <3>4. St(j) = "committed"
      BY <3>3, <2>3, KeyParts, ZenonT(40)
    <3>5. blocks[j] \in [st : {"committed"}, id : Ids, res : Results, notifier : BOOLEAN]
      BY <3>4, SMTT(30) DEF IInv, TypeOK, BufferTypeOK, BlockStates, St, Absent
    <3> QED BY <2>2, <2>3, <3>4, <3>5
  <2>4. CASE ~(j[1] = commit_epoch /\ j[2] \in TakenNotifiers(commit_start, commit_epoch))
    BY <2>2, <2>4
  <2> QED BY <2>3, <2>4
<1>h. \A m \in Nat : Handled(m) => Handled(m)'
  <2>1. \A m \in Nat : m <= committed => m <= committed'
    BY <1>c, <1>n
  <2> QED BY <2>1, <1>v DEF Handled
<1>f. ChainInv' /\ PhaseInv' /\ NotStartedInv' /\ EpochInv' /\ BaseInv' /\ ScheduledInv' /\
      ResultInv' /\ TaskInv' /\ ItemInv' /\ RequestInv' /\ QueueInv'
  BY <1>v, <1>p, Frames
<1>Awaited. AwaitedInv'
  <2>1. ASSUME NEW i \in DOMAIN chain, i > Stored
        PROVE  St(<<reth_epoch, i>>)' = "ordered"
    <3>1. St(<<reth_epoch, i>>) = "ordered" /\ chain[i].epoch = reth_epoch
      BY <2>1 DEF IInv, AwaitedInv
    <3>2. <<reth_epoch, i>> \in Keys
      BY <3>1, ChainNumbers
    <3> QED BY <3>1, <3>2, <1>b, <1>v DEF St
  <2> QED BY <2>1, <1>v, <1>p DEF IInv, AwaitedInv, Stored
<1>Exec. ExecInv'
  <2>1. \A e : EpochOver(e)' <=> EpochOver(e)
    BY <1>v DEF EpochOver
  <2>2. Stale' = Stale /\ (Starting' <=> Starting)
    BY <1>v, <1>p DEF Stale, Starting, NothingExecuted
  <2>3. ASSUME NEW i \in DOMAIN exec_q, NEW n, Fresh(exec_q[i], n)
        PROVE  Fresh(exec_q[i], n)'
    <3>1. <<reth_epoch, n>> \in Keys /\ St(<<reth_epoch, n>>) = "ordered"
      BY <2>3, PushedTypes DEF Fresh, Keys
    <3>2. blocks'[<<reth_epoch, n>>] = blocks[<<reth_epoch, n>>]
      BY <3>1, <1>b
    <3> QED BY <2>3, <3>2, <1>v DEF Fresh, St
  <2>4. ASSUME NEW i \in DOMAIN exec_q, Fresh(exec_q[i], Len(chain) + i - Stale)
        PROVE  Fresh(exec_q[i], Len(chain) + i - Stale)'
    <3>1. PICK n : n = Len(chain) + i - Stale
      OBVIOUS
    <3>2. Fresh(exec_q[i], n)'
      BY <2>3, <2>4, <3>1
    <3>3. n = (Len(chain) + i - Stale)'
      BY <3>1, <2>2, <1>v
    <3> QED BY <3>2, <3>3 DEF Fresh, St
  <2> QED BY <2>1, <2>2, <2>4, <1>v DEF IInv, ExecInv
<1>Held. HeldInv'
  <2>1. SUFFICES ASSUME NEW j \in Keys, Held(j)' PROVE HeldOK(j)'
    BY DEF HeldInv
  <2>2. HeldOK(j) /\ blocks'[j].id = blocks[j].id /\ (St(j)' = "historical" <=> St(j) = "historical")
    <3>1. Held(j)
      BY <2>1, <1>b DEF Held, St
    <3> QED BY <3>1, <1>b DEF IInv, HeldInv, St
  <2> QED BY <2>2, <1>v DEF HeldOK
<1>Entry. EntryInv'
  <2>1. SUFFICES ASSUME NEW j \in Keys, St(j)' \in {"computed", "committed"} PROVE EntryResult(j)'
    BY DEF EntryInv
  <2>2. St(j) \in {"computed", "committed"} /\ blocks'[j].res = blocks[j].res
    BY <2>1, <1>b DEF St
  <2>3. EntryResult(j)
    BY <2>2 DEF IInv, EntryInv
  <2> QED BY <2>2, <2>3, <1>v, <1>p DEF EntryResult, InChain, Stored, IsSuffixBlock
<1>Parent. ParentInv'
  <2>1. SUFFICES ASSUME cons_running, NEW n \in Numbers, n > Stored, St(<<cons_epoch, n>>)' = "ordered"
                 PROVE  blocks'[<<cons_epoch, n>>].parent = RightParent(n)
    BY <1>v, <1>p DEF ParentInv, RightParent, Stored
  <2>2. <<cons_epoch, n>> \in Keys
    BY DEF IInv, TypeOK, Keys
  <2>3. blocks'[<<cons_epoch, n>>] = blocks[<<cons_epoch, n>>]
    BY <2>1, <2>2, <1>b, <1>v DEF St
  <2>4. St(<<cons_epoch, n>>) = "ordered"
    BY <2>1, <2>3, <1>v DEF St
  <2> QED BY <2>1, <2>3, <2>4 DEF IInv, ParentInv
<1>Top. TopInv'
  <2>1. TopKey' = TopKey /\ TopKey \in Keys /\ (Held(TopKey) \/ ~IsReady)
    BY <1>v, TopKeyType DEF TopKey, Top, IInv, TopInv
  <2>2. Held(TopKey) => blocks'[TopKey].st # "absent"
    BY <2>1, <1>b DEF Held, St
  <2> QED BY <2>1, <2>2, <1>v DEF TopInv, Held, St, IsReady
<1>NotReady. NotReadyInv'
  BY <1>c, <1>v DEF NotReadyInv, IsReady
<1>Proof. ProofInv'
  <2>1. epoch_proof = None
    <3>1. SUFFICES ASSUME committed = Len(chain) PROVE FALSE
      BY DEF IInv, ProofInv
    <3> QED BY <3>1, <1>n
  <2> QED BY <2>1, <1>v DEF ProofInv
<1>Commit. CommitInv'
  <2>1. commit_start' = committed' + 1 /\ persisted <= committed' /\ committed' <= Stored
    <3>1. persisted <= committed /\ persisted \in Nat
      BY Order DEF NatState
    <3> QED BY <3>1, <1>c, <1>n, SMTT(30)
  <2>2. latest_finalized_block_number <= committed' /\ latest_commit_block_number <= committed'
    <3>1. /\ latest_finalized_block_number <= committed /\ latest_commit_block_number <= committed
          /\ latest_finalized_block_number \in Nat /\ latest_commit_block_number \in Nat
      BY Order DEF NatState, IInv, CommitInv
    <3> QED BY <3>1, <1>c, <1>n, SMTT(30)
  <2>3. \A m \in taken' : m <= committed'
    BY <1>c, PollAgrees DEF TakenNotifiers
  <2>4. ASSUME NEW m \in notified PROVE m <= committed'
    <3>1. m <= committed /\ m \in Nat
      BY Naturals DEF IInv, CommitInv, TypeOK
    <3> QED BY <3>1, <1>c, <1>n, SMTT(30)
  <2> QED BY <2>1, <2>2, <2>3, <2>4, <1>v, <1>p DEF IInv, CommitInv, Stored
<1>OldCommitted. OldCommittedInv'
  <2>1. ASSUME NEW i \in DOMAIN chain, i <= committed PROVE i <= committed'
    BY <2>1, <1>c, <1>n, ChainNumbers, SMTT(30)
  <2> QED BY <2>1, <1>v DEF IInv, OldCommittedInv
<1>Stored. StoredInv'
  <2>1. ASSUME NEW i \in DOMAIN chain, i > committed' PROVE i > committed
    BY <2>1, <1>c, <1>n, ChainNumbers, SMTT(30)
  <2>2. ASSUME NEW i \in DOMAIN chain PROVE blocks'[<<chain[i].epoch, i>>].st = blocks[<<chain[i].epoch, i>>].st
    BY ChainNumbers, <1>b
  <2> QED BY <2>1, <2>2, <1>v, <1>p DEF IInv, StoredInv, Stored, St
<1>Current. CurrentInv'
  <2>1. SUFFICES ASSUME NEW i \in DOMAIN persist_q, persist_q[i].epoch = current_epoch
                 PROVE  CurrentOK(i)'
    BY <1>v DEF CurrentInv
  <2>2. CurrentOK(i) /\ persist_q[i].epoch <= cons_epoch /\ cons_epoch # 0
    <3>1. CurrentOK(i) /\ persist_q[i].epoch <= cons_epoch
      BY <2>1 DEF IInv, CurrentInv, RequestInv
    <3>2. persist_q # <<>>
      BY <2>1
    <3>3. cons_epoch # 0
      BY <3>2 DEF IInv, NotStartedInv
    <3> QED BY <3>1, <3>3
  <2>3. cons_epoch = current_epoch
    <3>1. cons_running => cons_epoch = current_epoch
      BY DEF IInv, EpochInv
    <3>2. ~cons_running => current_epoch = cons_epoch + 1
      BY <2>2 DEF IInv, EpochInv
    <3>3. cons_epoch \in Nat
      BY Order DEF NatState
    <3> QED BY <2>1, <2>2, <3>1, <3>2, <3>3, SMTT(30)
  <2>4. persist_q[i].lo \in Nat /\ epoch_base[cons_epoch] \in Nat
    BY RequestTypes, Naturals DEF IInv, TypeOK
  <2>5. last < persist_q[i].lo
    <3>1. CASE commit_epoch = current_epoch
      <4>1. ~(last >= persist_q[i].lo)
        BY <2>1, <2>2, <3>1, <1>c DEF CurrentOK
      <4> QED BY <4>1, <2>4, <1>n, SMTT(30)
    <3>2. CASE commit_epoch # current_epoch
      <4>1. ~(last > epoch_base[cons_epoch])
        BY <2>2, <2>3, <3>2, <1>c DEF IInv, BaseInv
      <4>2. epoch_base[cons_epoch] < persist_q[i].lo
        BY <2>2 DEF CurrentOK
      <4> QED BY <4>1, <4>2, <2>4, <1>n, SMTT(30)
    <3> QED BY <3>1, <3>2
  <2>6. \A m \in Numbers : <<persist_q[i].epoch, m>> \in Keys
    BY RequestTypes DEF Keys
  <2>7. \A m \in Numbers : blocks'[<<persist_q[i].epoch, m>>].st = blocks[<<persist_q[i].epoch, m>>].st
    BY <2>6, <1>b
  <2> QED BY <2>2, <2>5, <2>7, <1>c, <1>v DEF CurrentOK, St
<1>Old. OldInv'
  <2>1. SUFFICES ASSUME NEW i \in DOMAIN persist_q, NEW m \in Numbers,
                        ~Held(<<persist_q[i].epoch, m>>)
                 PROVE  ~Held(<<persist_q[i].epoch, m>>)'
    BY <1>v DEF IInv, OldInv
  <2>2. <<persist_q[i].epoch, m>> \in Keys
    BY RequestTypes DEF Keys
  <2> QED BY <2>1, <2>2, <1>b, <1>v DEF Held, St
<1>Head. HeadInv'
  <2>1. ASSUME cons_running PROVE last <= head
    <3>1. cons_epoch # 0 /\ cons_epoch \in Nat /\ head \in Nat
      BY <2>1, Order DEF IInv, NotStartedInv, NatState
    <3>2. CASE commit_epoch = cons_epoch
      <4>1. ~(last > head)
        BY <2>1, <3>2, <1>c DEF IInv, HeadInv
      <4> QED BY <4>1, <3>1, <1>n, SMTT(30)
    <3>3. CASE commit_epoch # cons_epoch
      <4>1. ~(last > epoch_base[cons_epoch]) /\ epoch_base[cons_epoch] <= head
        BY <3>1, <3>3, <1>c DEF IInv, BaseInv
      <4>2. epoch_base[cons_epoch] \in Nat
        BY Naturals DEF IInv, TypeOK
      <4> QED BY <4>1, <4>2, <3>1, <1>n, SMTT(30)
    <3> QED BY <3>2, <3>3
  <2>2. \A m \in Numbers : <<cons_epoch, m>> \in Keys
    BY DEF IInv, TypeOK, Keys
  <2>3. \A m \in Numbers : blocks'[<<cons_epoch, m>>].st = blocks[<<cons_epoch, m>>].st
    BY <2>2, <1>b
  <2> QED BY <2>1, <2>3, <1>c, <1>v, <1>p DEF IInv, HeadInv, Stored, St
<1>Persisting. PersistingInv'
  <2>1. ASSUME persisting # None, HasEpochState(item[<<persisting.epoch, persisting.hi>>].res),
               Handled(item[<<persisting.epoch, persisting.hi>>].end)
        PROVE  Handled(item[<<persisting.epoch, persisting.hi>>].end)'
    <3>1. <<persisting.epoch, persisting.hi>> \in Keys
      BY <2>1 DEF IInv, TypeOK, InPersist, Keys
    <3>2. ItemOK(<<persisting.epoch, persisting.hi>>)
      BY <2>1, <3>1 DEF IInv, PersistingInv, ItemInv
    <3>3. item[<<persisting.epoch, persisting.hi>>].end \in 1..Stored
      BY <2>1, <3>2 DEF ItemOK, HasEpochState
    <3>4. item[<<persisting.epoch, persisting.hi>>].end \in Nat
      BY <3>3, <1>n, SMTT(30)
    <3> QED BY <2>1, <3>4, <1>h, <1>v DEF Handled
  <2> QED BY <2>1, <1>c, <1>v DEF IInv, PersistingInv
<1>Front. FrontInv'
  <2>1. \A m \in Numbers : Handled(m) => Handled(m)'
    BY <1>h, Naturals
  <2>2. \A m : EndsHere(m)' <=> EndsHere(m)
    BY <1>v, <1>p DEF EndsHere, Stored
  <2> QED BY <2>1, <2>2, <1>c, <1>v DEF IInv, FrontInv
<1>Fail. FailInv'
  BY <1>c DEF IInv, FailInv
<1> QED BY <1>t, <1>f, <1>Awaited, <1>Exec, <1>Held, <1>Entry, <1>Parent, <1>Top, <1>NotReady,
           <1>Proof, <1>Commit, <1>OldCommitted, <1>Stored, <1>Current, <1>Old, <1>Head,
           <1>Persisting, <1>Front, <1>Fail DEF IInv
=============================================================================
