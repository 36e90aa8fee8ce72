------------------------ MODULE GceiPipeline_proofs ------------------------
(*****************************************************************************)
(* commit_ledger and set_compute_res keep the invariant of the GCEI pipeline, *)
(* and with them every step does: the safety properties, the action property *)
(* and the refinement of the execution ledger follow.                        *)
(*****************************************************************************)
EXTENDS GceiExecution_proofs, GceiConsensus_proofs

(* The provers for the steps that name none, in the order they are tried. *)
USE Zenon, SMTT(30), ZenonT(40), SMTT(31)

(* The batch of a request holds its numbers, each under the id of its key. *)
LEMMA BatchNumbers ==
    ASSUME NEW r \in Requests
    PROVE  /\ DOMAIN BatchOf(r) = 1..(r.hi - r.lo + 1)
           /\ \A i \in DOMAIN BatchOf(r) :
                 /\ BatchOf(r)[i].num \in Numbers /\ BatchOf(r)[i].num \in Nat
                 /\ r.lo <= BatchOf(r)[i].num /\ BatchOf(r)[i].num <= r.hi
                 /\ BatchOf(r)[i].id = <<r.epoch, BatchOf(r)[i].num>>
           /\ \A n \in Nat : r.lo <= n /\ n <= r.hi =>
                 n - r.lo + 1 \in DOMAIN BatchOf(r) /\ BatchOf(r)[n - r.lo + 1].num = n
<1>1. r.lo \in Nat /\ r.hi \in Nat /\ r.hi \in Numbers
  BY Naturals DEF Requests
<1>2. DOMAIN BatchOf(r) = 1..(r.hi - r.lo + 1)
  BY DEF BatchOf
<1>3. \A i \in DOMAIN BatchOf(r) :
         BatchOf(r)[i].num = r.lo + i - 1 /\ BatchOf(r)[i].id = <<r.epoch, r.lo + i - 1>>
  BY DEF BatchOf
<1>4. ASSUME NEW i \in DOMAIN BatchOf(r)
      PROVE  r.lo + i - 1 \in Numbers /\ r.lo + i - 1 \in Nat /\ r.lo <= r.lo + i - 1
             /\ r.lo + i - 1 <= r.hi
  <2>1. r.lo + i - 1 \in Nat /\ r.lo <= r.lo + i - 1 /\ r.lo + i - 1 <= r.hi
    BY <1>1, <1>2, SMTT(30)
  <2> QED BY <2>1, <1>1, Below
<1>5. ASSUME NEW n \in Nat, r.lo <= n, n <= r.hi
      PROVE  n - r.lo + 1 \in DOMAIN BatchOf(r) /\ BatchOf(r)[n - r.lo + 1].num = n
  <2>1. n - r.lo + 1 \in 1..(r.hi - r.lo + 1) /\ r.lo + (n - r.lo + 1) - 1 = n
    BY <1>1, <1>5, SMTT(30)
  <2> QED BY <2>1, <1>2, <1>3
<1> QED BY <1>2, <1>3, <1>4, <1>5

(* What set_commit_blocks turns committed are computed entries of the request, and all of *)
(* them when it succeeds.                                                                   *)
LEMMA NewlyMeans ==
    ASSUME NEW r \in Requests
    PROVE  /\ \A n \in NewlyCommitted(BatchOf(r), r.epoch) :
                 /\ n \in Numbers /\ n \in Nat /\ r.lo <= n /\ n <= r.hi
                 /\ St(<<r.epoch, n>>) = "computed"
           /\ SetCommitOk(BatchOf(r), r.epoch) =>
                 \A n \in Nat : r.lo <= n /\ n <= r.hi /\ St(<<r.epoch, n>>) = "computed" =>
                    n \in NewlyCommitted(BatchOf(r), r.epoch)
<1>1. ASSUME NEW n \in NewlyCommitted(BatchOf(r), r.epoch)
      PROVE  /\ n \in Numbers /\ n \in Nat /\ r.lo <= n /\ n <= r.hi
             /\ St(<<r.epoch, n>>) = "computed"
  <2>1. PICK i \in DOMAIN BatchOf(r) :
            n = BatchOf(r)[i].num /\ St(<<r.epoch, BatchOf(r)[i].num>>) = "computed"
    BY DEF NewlyCommitted, Applied
  <2> QED BY <2>1, BatchNumbers
<1>2. ASSUME SetCommitOk(BatchOf(r), r.epoch), NEW n \in Nat, r.lo <= n, n <= r.hi,
             St(<<r.epoch, n>>) = "computed"
      PROVE  n \in NewlyCommitted(BatchOf(r), r.epoch)
  <2>1. PICK i \in DOMAIN BatchOf(r) : BatchOf(r)[i].num = n
    BY <1>2, BatchNumbers
  <2> QED BY <2>1, <1>2 DEF NewlyCommitted, SetCommitOk
<1> QED BY <1>1, <1>2

(* commit_ledger: the computed blocks of the first request turn committed; it waits for the *)
(* block that ends the epoch unless start_commit has already handled it.                     *)
LEMMA StepCommitLedger ==
    ASSUME IInv, CommitLedger
    PROVE  IInv'
<1>t. TypeOK'
  BY TypeCommitLedger DEF IInv
<1>v. UNCHANGED <<current_epoch, next_epoch, latest_epoch_change_block_number,
                  epoch_change_block_info, epoch_change_ready, latest_commit_block_number,
                  latest_finalized_block_number, buffer_state, cons_epoch, cons_running,
                  epoch_base, ordered, head, task, item, epoch_proof, reth_epoch, exec_pc,
                  exec_start, vote, commit_pc, commit_epoch, commit_start, taken, exec_q, chain,
                  result_q, committed, persisted, notified>>
  BY DEF CommitLedger, SetCommitBlocks, consVars, rethVars, bufferVars
<1>p. UNCHANGED Pending
  BY <1>v DEF Pending
<1>a. PICK r : r = persist_q[1]
  OBVIOUS
<1>q. /\ r = Head(persist_q) /\ r = persist_q[1] /\ r \in Requests /\ 1 \in DOMAIN persist_q
      /\ Len(persist_q) \in Nat /\ Len(persist_q') = Len(persist_q) - 1
      /\ Len(persist_q) = 1 => persist_q' = <<>>
      /\ persist_q' = <<>> => Len(persist_q) = 1
      /\ Len(persist_q) # 1 => persist_q'[Len(persist_q')] = persist_q[Len(persist_q)]
      /\ \A i \in DOMAIN persist_q' :
            /\ i \in Nat /\ i > 0 /\ i + 1 \in DOMAIN persist_q /\ persist_q'[i] = persist_q[i + 1]
            /\ i # 1 => persist_q'[i - 1] = persist_q[i]
            /\ i # Len(persist_q') => persist_q'[i + 1] = persist_q[i + 1 + 1]
            /\ i = Len(persist_q') <=> i + 1 = Len(persist_q)
            /\ (i + 1) - 1 = i /\ i + 1 # 1 /\ 1 < i + 1 /\ Len(persist_q) # 1
      /\ r.lo \in Nat /\ r.hi \in Nat /\ r.epoch \in Nat /\ <<r.epoch, r.hi>> \in Keys
      /\ r.epoch \in Epochs
  <2>1. persist_q \in Seq(Requests) /\ persist_q # <<>> /\ persist_q' = Tail(persist_q)
    BY DEF IInv, TypeOK, CommitLedger
  <2>2. r = Head(persist_q) /\ 1 \in DOMAIN persist_q /\ r \in Requests
    BY <2>1, <1>a
  <2>3. /\ r.lo \in Nat /\ r.hi \in Nat /\ r.epoch \in Nat /\ <<r.epoch, r.hi>> \in Keys
        /\ r.epoch \in Epochs
    BY <2>2, Naturals DEF Requests, Keys
  <2>4. /\ Len(persist_q) \in Nat /\ Len(persist_q') = Len(persist_q) - 1
        /\ Len(persist_q) = 1 => persist_q' = <<>>
        /\ persist_q' = <<>> => Len(persist_q) = 1
        /\ Len(persist_q) # 1 => persist_q'[Len(persist_q')] = persist_q[Len(persist_q)]
    BY <2>1, Tailed
  <2>5. ASSUME NEW i \in DOMAIN persist_q'
        PROVE  /\ i \in Nat /\ i > 0 /\ i + 1 \in DOMAIN persist_q
               /\ persist_q'[i] = persist_q[i + 1]
               /\ i # 1 => persist_q'[i - 1] = persist_q[i]
               /\ i # Len(persist_q') => persist_q'[i + 1] = persist_q[i + 1 + 1]
               /\ i = Len(persist_q') <=> i + 1 = Len(persist_q)
               /\ (i + 1) - 1 = i /\ i + 1 # 1 /\ 1 < i + 1 /\ Len(persist_q) # 1
    BY <2>1
  <2> QED BY <2>2, <2>3, <2>4, <2>5, <1>a
<1>c. /\ cons_epoch # 0 /\ persisting = None /\ "commit_ledger" \notin failed
      /\ SetCommitBlocks(BatchOf(r), r.epoch)
      /\ IF SetCommitOk(BatchOf(r), r.epoch)
         THEN /\ persisting' = [epoch |-> r.epoch, hi |-> r.hi,
                                wait |-> WithNotifier(BatchOf(r), r.epoch)]
              /\ failed' = failed
         ELSE failed' = failed \cup {"commit_ledger"} /\ persisting' = None
  <2>1. cons_epoch # 0
    BY DEF CommitLedger, IInv, NotStartedInv
  <2> QED BY <2>1, <1>q DEF CommitLedger, BatchOf
<1>b. \A j \in Keys :
         \/ blocks'[j] = blocks[j]
         \/ /\ j[1] = r.epoch /\ r.lo <= j[2] /\ j[2] <= r.hi
            /\ blocks[j].st = "computed" /\ blocks'[j].st = "committed"
            /\ blocks'[j].id = blocks[j].id /\ blocks'[j].res = blocks[j].res
            /\ St(j) = "computed"
  <2>1. TAKE j \in Keys
  <2>2. blocks'[j] = IF j[1] = r.epoch /\ j[2] \in NewlyCommitted(BatchOf(r), r.epoch)
                     THEN [st |-> "committed", id |-> blocks[j].id, res |-> blocks[j].res,
                           notifier |-> j[2] \in WithNotifier(BatchOf(r), r.epoch)]
                     ELSE blocks[j]
    BY <1>c DEF SetCommitBlocks
  <2>3. CASE j[1] = r.epoch /\ j[2] \in NewlyCommitted(BatchOf(r), r.epoch)
    <3>1. r.lo <= j[2] /\ j[2] <= r.hi /\ St(<<r.epoch, j[2]>>) = "computed"
      BY <2>3, <1>q, NewlyMeans
    <3>2. St(j) = "computed" /\ blocks[j].st = "computed"
      BY <3>1, <2>3, KeyParts DEF St
    <3> QED BY <2>2, <2>3, <3>1, <3>2, SMTT(30)
  <2> QED BY <2>2, <2>3
<1>h. ASSUME SetCommitOk(BatchOf(r), r.epoch), r.epoch = current_epoch, cons_running,
             NEW m, EndsHere(m), m <= r.hi
      PROVE  Handled(m)'
  <2>1. cons_epoch = current_epoch
    BY <1>h DEF IInv, EpochInv
  <2>2. Changing /\ m = Len(chain) /\ Stored = Len(chain)
    BY <1>h, <2>1, EpochEnded
  <2>3. m \in 1..Stored /\ chain[m].reconfig /\ chain[m].epoch = r.epoch
    BY <1>h DEF EndsHere
  <2>4. m \in Nat /\ committed \in Nat /\ m \in DOMAIN chain
    <3>1. Stored \in Nat /\ committed \in Nat
      BY Order DEF NatState
    <3> QED BY <3>1, <2>2, <2>3, SMTT(30), SMTT(31) DEF IInv, TypeOK
  <2>5. CASE m <= committed
    BY <2>5, <1>v DEF Handled
  <2>6. CASE ~(m <= committed) /\ r.lo <= m
    <3>1. m > committed /\ m <= Stored
      BY <2>3, <2>4, <2>6, Order, SMTT(30)
    <3>2. St(<<r.epoch, m>>) \in {"computed", "committed"}
      BY <3>1, <2>3, <2>4 DEF IInv, StoredInv
    <3>3. m \in Numbers /\ <<r.epoch, m>> \in Keys /\ m >= r.lo
      BY <2>3, <2>4, <2>6, <1>q, ChainNumbers
    <3>4. St(<<r.epoch, m>>) # "committed"
      BY <3>3, <1>h, <1>q DEF IInv, CurrentInv, CurrentOK
    <3>5. m \in NewlyCommitted(BatchOf(r), r.epoch)
      BY <1>h, <1>q, <2>4, <2>6, <3>2, <3>4, NewlyMeans
    <3>6. ~IsSuffixBlock(m)
      <4>1. ~(m > Len(chain))
        BY <2>2, <2>4, SMTT(30)
      <4> QED BY <4>1, SuffixMeans DEF IsSuffixBlock
    <3>7. blocks[<<r.epoch, m>>].res = "reconfig"
      <4>1. EntryResult(<<r.epoch, m>>)
        BY <3>2, <3>3 DEF IInv, EntryInv
      <4> QED BY <4>1, <3>6, <2>3 DEF EntryResult, InChain
    <3>8. m \in WithNotifier(BatchOf(r), r.epoch)
      BY <3>5, <3>6, <3>7 DEF WithNotifier, HasEpochState
    <3>9. persisting' # None /\ m \in persisting'.wait
      <4>1. persisting' = [epoch |-> r.epoch, hi |-> r.hi, wait |-> WithNotifier(BatchOf(r), r.epoch)]
        BY <1>h, <1>c
      <4>2. WithNotifier(BatchOf(r), r.epoch) \subseteq Numbers
        BY <1>q, NewlyMeans DEF WithNotifier
      <4>3. persisting' \in InPersist
        BY <4>1, <4>2, <1>q DEF InPersist, Requests
      <4> QED BY <4>1, <4>3, <3>8, PipelineAssumption
    <3> QED BY <3>9 DEF Handled
  <2>7. CASE ~(m <= committed) /\ ~(r.lo <= m)
    <3>1. m < r.lo /\ m \in Numbers
      <4>1. r.lo \in Nat
        BY <1>q
      <4>2. m < r.lo
        BY <4>1, <2>4, <2>7, SMTT(30)
      <4> QED BY <4>2, <2>4, ChainNumbers
    <3>2. Handled(m)
      BY <3>1, <1>h, <1>q, <1>c DEF IInv, FrontInv
    <3> QED BY <3>2, <2>7, <1>c DEF Handled
  <2> QED BY <2>5, <2>6, <2>7
<1>f. ChainInv' /\ PhaseInv' /\ EpochInv' /\ ProofInv' /\ BaseInv' /\ ScheduledInv' /\
      ResultInv' /\ CommitInv' /\ OldCommittedInv' /\ TaskInv' /\ ItemInv'
  BY <1>v, <1>p, Frames
<1>NotReady. NotReadyInv'
  <2>1. IsReady
    BY <1>c DEF SetCommitBlocks
  <2> QED BY <2>1, <1>v DEF NotReadyInv, IsReady
<1>NotStarted. NotStartedInv'
  BY <1>c, <1>v DEF NotStartedInv
<1>Awaited. AwaitedInv'
  <2>1. ASSUME NEW i \in DOMAIN chain, i > Stored
        PROVE  St(<<reth_epoch, i>>)' = "ordered"
    <3>1. St(<<reth_epoch, i>>) = "ordered" /\ chain[i].epoch = reth_epoch
      BY <2>1 DEF IInv, AwaitedInv
    <3>2. <<reth_epoch, i>> \in Keys
      BY <3>1, ChainNumbers
    <3> QED BY <3>1, <3>2, <1>b, <1>v DEF St
  <2> QED BY <2>1, <1>v, <1>p DEF IInv, AwaitedInv, Stored
<1>Exec. ExecInv'
  <2>1. \A e : EpochOver(e)' <=> EpochOver(e)
    BY <1>v DEF EpochOver
  <2>2. Stale' = Stale /\ (Starting' <=> Starting)
    BY <1>v, <1>p DEF Stale, Starting, NothingExecuted
  <2>3. ASSUME NEW i \in DOMAIN exec_q, NEW n, Fresh(exec_q[i], n)
        PROVE  Fresh(exec_q[i], n)'
    <3>1. <<reth_epoch, n>> \in Keys /\ St(<<reth_epoch, n>>) = "ordered"
      BY <2>3, PushedTypes DEF Fresh, Keys
    <3>2. blocks'[<<reth_epoch, n>>] = blocks[<<reth_epoch, n>>]
      BY <3>1, <1>b
    <3> QED BY <2>3, <3>2, <1>v DEF Fresh, St
  <2>4. ASSUME NEW i \in DOMAIN exec_q, Fresh(exec_q[i], Len(chain) + i - Stale)
        PROVE  Fresh(exec_q[i], Len(chain) + i - Stale)'
    <3>1. PICK n : n = Len(chain) + i - Stale
      OBVIOUS
    <3>2. Fresh(exec_q[i], n)'
      BY <2>3, <2>4, <3>1
    <3>3. n = (Len(chain) + i - Stale)'
      BY <3>1, <2>2, <1>v
    <3> QED BY <3>2, <3>3 DEF Fresh, St
  <2> QED BY <2>1, <2>2, <2>4, <1>v DEF IInv, ExecInv
<1>Held. HeldInv'
  <2>1. SUFFICES ASSUME NEW j \in Keys, Held(j)' PROVE HeldOK(j)'
    BY DEF HeldInv
  <2>2. HeldOK(j) /\ blocks'[j].id = blocks[j].id /\ (St(j)' = "historical" <=> St(j) = "historical")
    <3>1. Held(j)
      BY <2>1, <1>b DEF Held, St
    <3> QED BY <3>1, <1>b DEF IInv, HeldInv, St
  <2> QED BY <2>2, <1>v DEF HeldOK
<1>Entry. EntryInv'
  <2>1. SUFFICES ASSUME NEW j \in Keys, St(j)' \in {"computed", "committed"} PROVE EntryResult(j)'
    BY DEF EntryInv
  <2>2. St(j) \in {"computed", "committed"} /\ blocks'[j].res = blocks[j].res
    BY <2>1, <1>b DEF St
  <2>3. EntryResult(j)
    BY <2>2 DEF IInv, EntryInv
  <2> QED BY <2>2, <2>3, <1>v, <1>p DEF EntryResult, InChain, Stored, IsSuffixBlock
<1>Parent. ParentInv'
  <2>1. SUFFICES ASSUME cons_running, NEW n \in Numbers, n > Stored, St(<<cons_epoch, n>>)' = "ordered"
                 PROVE  blocks'[<<cons_epoch, n>>].parent = RightParent(n)
    BY <1>v, <1>p DEF ParentInv, RightParent, Stored
  <2>2. <<cons_epoch, n>> \in Keys
    BY DEF IInv, TypeOK, Keys
  <2>3. blocks'[<<cons_epoch, n>>] = blocks[<<cons_epoch, n>>]
    BY <2>1, <2>2, <1>b, <1>v DEF St
  <2>4. St(<<cons_epoch, n>>) = "ordered"
    BY <2>1, <2>3, <1>v DEF St
  <2> QED BY <2>1, <2>3, <2>4 DEF IInv, ParentInv
<1>Top. TopInv'
  <2>1. TopKey' = TopKey /\ TopKey \in Keys /\ (Held(TopKey) \/ ~IsReady)
    BY <1>v, TopKeyType DEF TopKey, Top, IInv, TopInv
  <2>2. Held(TopKey) => blocks'[TopKey].st # "absent"
    BY <2>1, <1>b DEF Held, St
  <2> QED BY <2>1, <2>2, <1>v DEF TopInv, Held, St, IsReady
<1>Stored. StoredInv'
  <2>1. SUFFICES ASSUME NEW i \in DOMAIN chain, St(<<chain[i].epoch, i>>) \in {"computed", "committed"}
                 PROVE  St(<<chain[i].epoch, i>>)' \in {"computed", "committed"}
    BY <1>v, <1>p DEF IInv, StoredInv, Stored
  <2>2. <<chain[i].epoch, i>> \in Keys
    BY ChainNumbers
  <2> QED BY <2>1, <2>2, <1>b, <1>v DEF St
<1>Request. RequestInv'
  <2>1. \A i \in DOMAIN persist_q', j \in DOMAIN persist_q' : i < j => i + 1 < j + 1
    BY <1>q, SMTT(30)
  <2>2. ASSUME NEW i \in DOMAIN persist_q'
        PROVE  /\ persist_q'[i].lo <= persist_q'[i].hi /\ persist_q'[i].epoch <= cons_epoch
               /\ persist_q'[i].epoch = cons_epoch => persist_q'[i].hi <= head
               /\ item[<<persist_q'[i].epoch, persist_q'[i].hi>>] # None
    <3>1. i + 1 \in DOMAIN persist_q /\ persist_q'[i] = persist_q[i + 1]
      BY <1>q
    <3> QED BY <3>1 DEF IInv, RequestInv
  <2>3. ASSUME NEW i \in DOMAIN persist_q', NEW j \in DOMAIN persist_q', i < j,
               persist_q'[i].epoch = persist_q'[j].epoch
        PROVE  persist_q'[i].hi < persist_q'[j].lo
    <3>1. /\ i + 1 \in DOMAIN persist_q /\ persist_q'[i] = persist_q[i + 1]
          /\ j + 1 \in DOMAIN persist_q /\ persist_q'[j] = persist_q[j + 1] /\ i + 1 < j + 1
      BY <2>1, <2>3, <1>q
    <3> QED BY <3>1, <2>3 DEF IInv, RequestInv
  <2> QED BY <2>2, <2>3, <1>v DEF RequestInv
<1>Current. CurrentInv'
  <2>1. SUFFICES ASSUME NEW i \in DOMAIN persist_q', persist_q'[i].epoch = current_epoch
                 PROVE  CurrentOK(i)'
    BY <1>v DEF CurrentInv
  <2>2. i + 1 \in DOMAIN persist_q /\ persist_q'[i] = persist_q[i + 1] /\ CurrentOK(i + 1)
    BY <2>1, <1>q DEF IInv, CurrentInv
  <2>3. ASSUME NEW m \in Numbers, m >= persist_q[i + 1].lo
        PROVE  blocks'[<<persist_q[i + 1].epoch, m>>].st # "committed"
    <3>1. <<persist_q[i + 1].epoch, m>> \in Keys
      BY <2>2, RequestTypes DEF Keys
    <3>2. St(<<persist_q[i + 1].epoch, m>>) # "committed"
      BY <2>2, <2>3 DEF CurrentOK
    <3>3. ~(r.epoch = persist_q[i + 1].epoch /\ m <= r.hi)
      <4>1. SUFFICES ASSUME r.epoch = persist_q[i + 1].epoch, m <= r.hi PROVE FALSE
        OBVIOUS
      <4>2. 1 < i + 1
        BY <1>q
      <4>3. persist_q[1] = r /\ 1 \in DOMAIN persist_q
        BY <1>q
      <4>5. r.hi < persist_q[i + 1].lo
        BY <4>1, <4>2, <4>3, <2>2 DEF IInv, RequestInv
      <4>4. persist_q[i + 1].lo \in Nat /\ m \in Nat /\ r.hi \in Nat
        BY <2>2, RequestTypes, Naturals, <1>q
      <4> QED BY <4>1, <4>5, <4>4, <2>3, SMTT(30)
    <3>4. blocks'[<<persist_q[i + 1].epoch, m>>] = blocks[<<persist_q[i + 1].epoch, m>>]
      BY <3>1, <3>3, <1>b
    <3> QED BY <3>2, <3>4 DEF St
  <2> QED BY <2>2, <2>3, <1>v DEF CurrentOK, St
<1>Queue. QueueInv'
  <2>1. SUFFICES ASSUME NEW i \in DOMAIN persist_q', persist_q'[i].epoch = current_epoch
                 PROVE  IF i = Len(persist_q') THEN persist_q'[i].hi = head
                        ELSE /\ persist_q'[i + 1].epoch = current_epoch
                             /\ persist_q'[i + 1].lo = persist_q'[i].hi + 1
    BY <1>v DEF QueueInv
  <2>2. /\ i + 1 \in DOMAIN persist_q /\ persist_q'[i] = persist_q[i + 1]
        /\ i = Len(persist_q') <=> i + 1 = Len(persist_q)
    BY <1>q
  <2>3. IF i + 1 = Len(persist_q) THEN persist_q[i + 1].hi = head
        ELSE /\ persist_q[i + 1 + 1].epoch = current_epoch
             /\ persist_q[i + 1 + 1].lo = persist_q[i + 1].hi + 1
    BY <2>1, <2>2 DEF IInv, QueueInv
  <2>4. i # Len(persist_q') => persist_q'[i + 1] = persist_q[i + 1 + 1]
    BY <1>q
  <2> QED BY <2>2, <2>3, <2>4
<1>Old. OldInv'
  <2>1. SUFFICES ASSUME NEW i \in DOMAIN persist_q', persist_q'[i].epoch < current_epoch,
                        NEW m \in Numbers, m >= persist_q'[i].lo
                 PROVE  blocks'[<<persist_q'[i].epoch, m>>].st = "absent"
    BY <1>v DEF OldInv, Held, St
  <2>2. i + 1 \in DOMAIN persist_q /\ persist_q'[i] = persist_q[i + 1]
    BY <1>q
  <2>3. ~Held(<<persist_q[i + 1].epoch, m>>) /\ <<persist_q[i + 1].epoch, m>> \in Keys
    BY <2>1, <2>2, RequestTypes DEF IInv, OldInv, Keys
  <2> QED BY <2>2, <2>3, <1>b DEF Held, St
<1>Head. HeadInv'
  <2>1. ASSUME cons_running, NEW m \in Numbers, m > head
        PROVE  blocks'[<<cons_epoch, m>>].st # "committed"
    <3>1. <<cons_epoch, m>> \in Keys /\ St(<<cons_epoch, m>>) # "committed"
      BY <2>1 DEF IInv, TypeOK, Keys, HeadInv
    <3>2. ~(r.epoch = cons_epoch /\ m <= r.hi)
      <4>1. r.epoch = cons_epoch => r.hi <= head
        BY <1>q DEF IInv, RequestInv
      <4>2. m \in Nat /\ r.hi \in Nat /\ head \in Nat
        BY Naturals, <1>q, Order DEF NatState
      <4> QED BY <4>1, <4>2, <2>1, SMTT(30)
    <3> QED BY <3>1, <3>2, <1>b DEF St
  <2> QED BY <2>1, <1>v, <1>p DEF IInv, HeadInv, Stored, St
<1>Persisting. PersistingInv'
  <2>1. CASE ~SetCommitOk(BatchOf(r), r.epoch)
    BY <2>1, <1>c DEF PersistingInv
  <2>2. CASE SetCommitOk(BatchOf(r), r.epoch)
    <3>1. /\ r.epoch <= cons_epoch /\ item[<<r.epoch, r.hi>>] # None
          /\ r.epoch = cons_epoch => r.hi <= head
      BY <1>q DEF IInv, RequestInv
    <3>2. ASSUME r.epoch = cons_epoch, HasEpochState(item[<<r.epoch, r.hi>>].res)
          PROVE  Handled(item[<<r.epoch, r.hi>>].end)'
      <4>1. PICK m : m = item[<<r.epoch, r.hi>>].end
        OBVIOUS
      <4>2. ItemOK(<<r.epoch, r.hi>>)
        BY <3>1, <1>q DEF IInv, ItemInv
      <4>3. m \in 1..Stored /\ chain[m].epoch = r.epoch /\ chain[m].reconfig /\ m <= r.hi
        BY <4>1, <4>2, <3>2 DEF ItemOK, HasEpochState
      <4>4. m \in Nat
        BY <4>3, Order, SMTT(30)
      <4>5. CASE ~cons_running
        <5>1. committed = Len(chain) /\ Stored <= Len(chain) /\ Stored \in Nat /\ Len(chain) \in Nat
          BY <4>5, <1>c, Order DEF IInv, EpochInv, ProofInv, NatState
        <5>2. m <= committed
          BY <5>1, <4>3, <4>4, SMTT(30)
        <5> QED BY <5>2, <4>1, <1>v DEF Handled
      <4>6. CASE cons_running
        <5>1. r.epoch = current_epoch
          BY <4>6, <3>2 DEF IInv, EpochInv
        <5>2. EndsHere(m)
          BY <5>1, <4>3 DEF EndsHere
        <5>3. Handled(m)'
          BY <5>1, <5>2, <4>3, <4>6, <2>2, <1>h
        <5> QED BY <5>3, <4>1, <1>v DEF Handled
      <4> QED BY <4>5, <4>6
    <3>3. persisting'.epoch = r.epoch /\ persisting'.hi = r.hi /\ "commit_ledger" \notin failed'
      BY <2>2, <1>c, SMTT(30)
    <3>4. Handled(item[<<r.epoch, r.hi>>].end)' <=> Handled(item[<<persisting.epoch, persisting.hi>>].end)'
      BY <3>3, <1>v DEF Handled
    <3> QED BY <3>1, <3>2, <3>3, <3>4, <1>v DEF PersistingInv
  <2> QED BY <2>1, <2>2
<1>Front. FrontInv'
  <2>1. SUFFICES ASSUME SetCommitOk(BatchOf(r), r.epoch), cons_running, NEW n \in Numbers, EndsHere(n)
                 PROVE  /\ \A i \in DOMAIN persist_q' :
                              /\ persist_q'[i].epoch = current_epoch
                              /\ i = 1 \/ persist_q'[i - 1].epoch # current_epoch
                              /\ n < persist_q'[i].lo
                              => Handled(n)'
                        /\ (persist_q' = <<>> \/ persist_q'[Len(persist_q')].epoch # current_epoch)
                              /\ n <= head => Handled(n)'
    <3>1. ~SetCommitOk(BatchOf(r), r.epoch) => "commit_ledger" \in failed'
      BY <1>c
    <3> QED BY <3>1, <1>v, <1>p DEF FrontInv, EndsHere, Stored
  <2>2. Handled(n) => Handled(n)'
    BY <1>c, <1>v DEF Handled
  <2>3. r.epoch = current_epoch /\ n <= r.hi => Handled(n)'
    BY <2>1, <1>h
  <2>4. n \in Nat
    BY Naturals
  <2>5. ASSUME NEW i \in DOMAIN persist_q', persist_q'[i].epoch = current_epoch,
               i = 1 \/ persist_q'[i - 1].epoch # current_epoch, n < persist_q'[i].lo
        PROVE  Handled(n)'
    <3>1. /\ i + 1 \in DOMAIN persist_q /\ persist_q'[i] = persist_q[i + 1] /\ i \in Nat
          /\ (i + 1) - 1 = i /\ i + 1 # 1
      BY <1>q
    <3>2. CASE persist_q[i].epoch # current_epoch
      <4>1. Handled(n)
        BY <2>1, <2>5, <3>1, <3>2, <1>c DEF IInv, FrontInv
      <4> QED BY <4>1, <2>2
    <3>3. CASE persist_q[i].epoch = current_epoch
      <4>1. i = 1
        <5>1. i # 1 => persist_q'[i - 1] = persist_q[i]
          BY <1>q
        <5> QED BY <5>1, <2>5, <3>3
      <4>2. 1 # Len(persist_q) /\ persist_q[1] = r
        BY <4>1, <3>1, <1>q
      <4>3. persist_q[1 + 1].lo = r.hi + 1
        <5>1. 1 \in DOMAIN persist_q /\ persist_q[1].epoch = current_epoch
          BY <4>1, <3>3, <1>q
        <5> QED BY <5>1, <4>2 DEF IInv, QueueInv
      <4>4. n <= r.hi
        BY <4>1, <4>3, <2>4, <2>5, <3>1, <1>q, SMTT(30)
      <4> QED BY <4>1, <4>2, <4>4, <3>3, <2>3
    <3> QED BY <3>2, <3>3
  <2>6. ASSUME persist_q' = <<>> \/ persist_q'[Len(persist_q')].epoch # current_epoch, n <= head
        PROVE  Handled(n)'
    <3>1. CASE Len(persist_q) = 1 /\ r.epoch = current_epoch
      <4>1. r.hi = head
        BY <3>1, <1>q DEF IInv, QueueInv
      <4> QED BY <4>1, <3>1, <2>3, <2>6
    <3>2. CASE ~(Len(persist_q) = 1 /\ r.epoch = current_epoch)
      <4>1. persist_q[Len(persist_q)].epoch # current_epoch
        BY <3>2, <2>6, <1>q
      <4>2. Handled(n)
        BY <4>1, <2>1, <2>6, <1>c DEF IInv, FrontInv
      <4> QED BY <4>2, <2>2
    <3> QED BY <3>1, <3>2
  <2> QED BY <2>5, <2>6
<1>Fail. FailInv'
  BY <1>c DEF IInv, FailInv
<1> QED BY <1>t, <1>f, <1>NotReady, <1>NotStarted, <1>Awaited, <1>Exec, <1>Held, <1>Entry,
           <1>Parent, <1>Top, <1>Stored, <1>Request, <1>Current, <1>Queue, <1>Old, <1>Head,
           <1>Persisting, <1>Front, <1>Fail DEF IInv

(* The result start_commit_vote stores is that of the next executed block, which the buffer *)
(* holds as ordered in the running epoch: set_compute_res succeeds.                          *)
LEMMA VoteReady ==
    ASSUME IInv, VoteSetComputeRes
    PROVE  /\ Stored + 1 \in DOMAIN chain /\ vote.res = ResultOf(Stored + 1)
           /\ vote.epoch = reth_epoch /\ chain[Stored + 1].epoch = reth_epoch
           /\ <<reth_epoch, Stored + 1>> \in Keys
           /\ St(<<reth_epoch, Stored + 1>>) = "ordered"
           /\ blocks[<<reth_epoch, Stored + 1>>].id = <<reth_epoch, Stored + 1>>
           /\ vote.res.id = <<reth_epoch, Stored + 1>> /\ vote.res.num = Stored + 1
           /\ vote.res.new = IF chain[Stored + 1].reconfig THEN reth_epoch + 1 ELSE None
           /\ SetComputeOk(vote.res.id, vote.res.num, vote.epoch)
           /\ Quiet /\ reth_epoch = current_epoch /\ reth_epoch # 0 /\ exec_pc = "poll"
           /\ cons_running /\ cons_epoch = current_epoch /\ epoch_proof = None
           /\ Pending >= 1 /\ Pending \in Nat /\ Stored + 1 <= Len(chain)
           /\ chain[Stored + 1].reconfig => Stored + 1 = Len(chain)
<1>n. /\ Len(chain) \in Nat /\ Stored \in Nat /\ Pending \in Nat /\ reth_epoch \in Nat
      /\ Len(result_q) \in Nat
  BY Order DEF NatState
<1>1. Pending >= 1 /\ Pending # 0
  BY <1>n DEF VoteSetComputeRes, Pending
<1>2. Stored + 1 <= Len(chain) /\ Stored + 1 \in 1..Len(chain)
  BY <1>1, <1>n DEF Stored
<1>3. Stored + 1 \in DOMAIN chain
  BY <1>2, SMTT(30) DEF IInv, TypeOK
<1>4. vote.res = ResultOf(Stored + 1) /\ vote.epoch = reth_epoch
  BY DEF VoteSetComputeRes, IInv, ResultInv
<1>5. Stored + 1 > Stored
  BY <1>n
<1>6. /\ chain[Stored + 1].epoch = reth_epoch /\ reth_epoch = current_epoch
      /\ St(<<reth_epoch, Stored + 1>>) = "ordered"
  BY <1>3, <1>5 DEF IInv, AwaitedInv
<1>7. <<reth_epoch, Stored + 1>> \in Keys
  BY <1>3, <1>6, ChainNumbers
<1>8. blocks[<<reth_epoch, Stored + 1>>].id = <<reth_epoch, Stored + 1>>
  BY <1>6, <1>7 DEF IInv, HeldInv, HeldOK, Held
<1>9. chain[Stored + 1].id = <<reth_epoch, Stored + 1>>
  BY <1>3, <1>6 DEF IInv, ChainInv
<1>10. /\ vote.res.id = <<reth_epoch, Stored + 1>> /\ vote.res.num = Stored + 1
       /\ vote.res.new = IF chain[Stored + 1].reconfig THEN reth_epoch + 1 ELSE None
  BY <1>4, <1>6, <1>9, SMTT(30) DEF ResultOf
<1>11. Quiet
  BY <1>1 DEF IInv, PhaseInv, Changing, Released
<1>12. reth_epoch # 0 /\ exec_pc = "poll"
  BY <1>11, <1>1 DEF Quiet, Starting, NothingExecuted
<1>13. cons_running /\ cons_epoch = current_epoch /\ epoch_proof = None
  BY <1>1 DEF IInv, NotStartedInv, NothingExecuted, EpochInv, ProofInv
<1>14. ASSUME chain[Stored + 1].reconfig PROVE Stored + 1 = Len(chain)
  <2>1. SUFFICES ASSUME Stored + 1 < Len(chain) PROVE FALSE
    BY <1>2, <1>n
  <2>2. Len(chain) \in DOMAIN chain /\ Len(chain) > Stored
    BY <2>1, <1>n, <1>3, SMTT(30), SMTT(31) DEF IInv, TypeOK
  <2>3. chain[Len(chain)].epoch = reth_epoch
    BY <2>2 DEF IInv, AwaitedInv
  <2>4. chain[Stored + 1].epoch < chain[Len(chain)].epoch
    BY <2>1, <2>2, <1>3, <1>14 DEF IInv, ChainInv
  <2> QED BY <2>3, <2>4, <1>6, <1>n
<1>15. SetComputeOk(vote.res.id, vote.res.num, vote.epoch)
  BY <1>4, <1>6, <1>8, <1>10 DEF SetComputeOk
<1> QED BY <1>1, <1>2, <1>3, <1>4, <1>6, <1>7, <1>8, <1>10, <1>11, <1>12, <1>13, <1>14, <1>15, <1>n

(* set_compute_res keeps the types: the result is not one of a suffix block. *)
LEMMA TypeVote == ASSUME IInv, VoteSetComputeRes PROVE TypeOK'
<1>1. ~IsSuffixBlock(vote.res.num)
  BY VoteReady DEF Quiet, IsSuffixBlock
<1> QED BY <1>1, TypeVoteSetComputeRes DEF IInv

(* What set_compute_res makes of the entries: the block is computed, and the ordered blocks *)
(* after one that changes the epoch are given a stand-in result.                             *)
LEMMA VoteStores ==
    ASSUME IInv, VoteSetComputeRes, NEW n, n = Stored + 1, NEW e, e = reth_epoch
    PROVE  /\ \A k \in Keys :
                 /\ Held(k)' <=> Held(k)
                 /\ Held(k) => blocks'[k].id = blocks[k].id
                 /\ St(k)' = "committed" <=> St(k) = "committed"
                 /\ St(k)' = "historical" <=> St(k) = "historical"
                 /\ St(k)' = "ordered" => blocks'[k] = blocks[k] /\ k # <<e, n>>
                 /\ St(k) # "ordered" => blocks'[k] = blocks[k]
                 /\ ~chain[n].reconfig /\ k # <<e, n>> =>
                       blocks'[k] = blocks[k]
                 /\ blocks'[k] # blocks[k] /\ k # <<e, n>> =>
                       /\ chain[n].reconfig /\ k[1] = e /\ k[2] > n
                       /\ blocks'[k].res = "dummy_reconfig"
           /\ St(<<e, n>>)' = "computed"
           /\ blocks'[<<e, n>>].res =
                 IF chain[n].reconfig THEN "reconfig" ELSE "executed"
           /\ IF chain[n].reconfig
              THEN /\ next_epoch' = e + 1
                   /\ latest_epoch_change_block_number' = n
                   /\ epoch_change_block_info' = [num |-> n, epoch |-> e + 1]
              ELSE UNCHANGED <<next_epoch, latest_epoch_change_block_number,
                               epoch_change_block_info>>
<1>1. /\ <<e, n>> \in Keys /\ blocks[<<e, n>>].id = <<e, n>> /\ St(<<e, n>>) = "ordered"
      /\ SetComputeRes(<<e, n>>, n, e, IF chain[n].reconfig THEN e + 1 ELSE None)
      /\ SetComputeOk(<<e, n>>, n, e)
  BY VoteReady DEF VoteSetComputeRes
<1>2. n \in Nat /\ e + 1 \in Nat /\ e + 1 # None /\ ~(n > n)
  <2>1. Stored \in Nat /\ e \in Nat
    BY Order DEF NatState
  <2>2. n \in Nat /\ e + 1 \in Nat /\ ~(n > n)
    BY <2>1
  <2> QED BY <2>2, BufferAssumption
<1>3. blocks = [k \in Keys |-> blocks[k]]
  BY DEF IInv, TypeOK, BufferTypeOK
<1>4. CASE ~chain[n].reconfig
  <2>1. /\ blocks' = [blocks EXCEPT ![<<e, n>>] =
                        [st |-> "computed", id |-> <<e, n>>, res |-> "executed"]]
        /\ UNCHANGED <<next_epoch, latest_epoch_change_block_number, epoch_change_block_info>>
    BY <1>1, <1>4 DEF SetComputeRes
  <2>2. /\ \A k \in Keys : k # <<e, n>> => blocks'[k] = blocks[k]
        /\ blocks'[<<e, n>>] = [st |-> "computed", id |-> <<e, n>>, res |-> "executed"]
    BY <2>1, <1>1, <1>3
  <2>3. /\ blocks'[<<e, n>>].st = "computed" /\ blocks'[<<e, n>>].id = <<e, n>>
        /\ blocks'[<<e, n>>].res = "executed" /\ blocks[<<e, n>>].st = "ordered"
        /\ blocks[<<e, n>>].id = <<e, n>>
    BY <2>2, <1>1, SMTT(30) DEF St
  <2>4. ASSUME NEW k \in Keys
        PROVE  /\ Held(k)' <=> Held(k)
               /\ Held(k) => blocks'[k].id = blocks[k].id
               /\ St(k)' = "committed" <=> St(k) = "committed"
               /\ St(k)' = "historical" <=> St(k) = "historical"
               /\ St(k)' = "ordered" => blocks'[k] = blocks[k] /\ k # <<e, n>>
               /\ St(k) # "ordered" => blocks'[k] = blocks[k]
               /\ k # <<e, n>> => blocks'[k] = blocks[k]
    BY <2>2, <2>3 DEF Held, St
  <2> QED BY <2>1, <2>3, <2>4, <1>4 DEF St
<1>5. CASE chain[n].reconfig
  <2> DEFINE c == [st |-> "computed", id |-> <<e, n>>, res |-> "reconfig"]
             bs == [blocks EXCEPT ![<<e, n>>] = c]
  <2>1. /\ blocks' = WithSuffixDummies(e, n, bs)
        /\ next_epoch' = e + 1 /\ latest_epoch_change_block_number' = n
        /\ epoch_change_block_info' = [num |-> n, epoch |-> e + 1]
    BY <1>1, <1>2, <1>5 DEF SetComputeRes
  <2>2. bs[<<e, n>>] = c /\ \A k \in Keys : k # <<e, n>> => bs[k] = blocks[k]
    BY <1>1, <1>3
  <2> HIDE DEF bs
  <2>3. \A k \in Keys : blocks'[k] = IF k[1] = e /\ k[2] > n /\ bs[k].st = "ordered"
                      THEN [st |-> "computed", id |-> bs[k].id, res |-> "dummy_reconfig"]
                      ELSE bs[k]
    BY <2>1 DEF WithSuffixDummies
  <2>4. blocks'[<<e, n>>] = c
    BY <2>2, <2>3, <1>1, <1>2
  <2>5. ASSUME NEW k \in Keys, k # <<e, n>>
        PROVE  \/ blocks'[k] = blocks[k] /\ (St(k) = "ordered" => ~(k[1] = e /\ k[2] > n))
               \/ /\ blocks'[k] = [st |-> "computed", id |-> blocks[k].id, res |-> "dummy_reconfig"]
                  /\ St(k) = "ordered" /\ k[1] = e /\ k[2] > n
    BY <2>2, <2>3, <2>5 DEF St
  <2>6. ASSUME NEW k \in Keys, k # <<e, n>>
        PROVE
          \/ blocks'[k] = blocks[k]
          \/ /\ blocks'[k].st = "computed" /\ blocks'[k].id = blocks[k].id
             /\ blocks'[k].res = "dummy_reconfig" /\ blocks[k].st = "ordered"
             /\ k[1] = e /\ k[2] > n
    <3>1. CASE blocks'[k] = blocks[k]
      BY <3>1
    <3>2. CASE /\ blocks'[k] = [st |-> "computed", id |-> blocks[k].id, res |-> "dummy_reconfig"]
               /\ St(k) = "ordered" /\ k[1] = e /\ k[2] > n
      BY <3>2 DEF St
    <3> QED BY <3>1, <3>2, <2>5, <2>6
  <2>7. /\ blocks'[<<e, n>>].st = "computed" /\ blocks'[<<e, n>>].id = <<e, n>>
        /\ blocks'[<<e, n>>].res = "reconfig" /\ blocks[<<e, n>>].st = "ordered"
        /\ blocks[<<e, n>>].id = <<e, n>>
    BY <2>4, <1>1, SMTT(30) DEF St
  <2>8. ASSUME NEW k \in Keys
        PROVE  /\ Held(k)' <=> Held(k)
               /\ Held(k) => blocks'[k].id = blocks[k].id
               /\ St(k)' = "committed" <=> St(k) = "committed"
               /\ St(k)' = "historical" <=> St(k) = "historical"
               /\ St(k)' = "ordered" => blocks'[k] = blocks[k] /\ k # <<e, n>>
               /\ St(k) # "ordered" => blocks'[k] = blocks[k]
               /\ blocks'[k] # blocks[k] /\ k # <<e, n>> =>
                     k[1] = e /\ k[2] > n /\ blocks'[k].res = "dummy_reconfig"
    BY <2>6, <2>7 DEF Held, St
  <2> QED BY <2>1, <2>7, <2>8, <1>5, SMTT(30) DEF St
<1> QED BY <1>4, <1>5

(* start_commit_vote: the result of the next executed block is stored. *)
LEMMA StepVoteSetComputeRes ==
    ASSUME IInv, VoteSetComputeRes
    PROVE  IInv'
<1>t. TypeOK'
  BY TypeVote DEF IInv
<1>v. UNCHANGED <<current_epoch, epoch_change_ready, latest_commit_block_number,
                  latest_finalized_block_number, buffer_state, cons_epoch, cons_running,
                  epoch_base, ordered, head, task, item, persist_q, persisting, epoch_proof,
                  reth_epoch, exec_pc, exec_start, commit_pc, commit_epoch, commit_start, taken,
                  exec_q, chain, result_q, committed, persisted, notified>>
  BY DEF VoteSetComputeRes, SetComputeRes, consVars, rethVars, bufferVars
<1>a. PICK n : n = Stored + 1
  OBVIOUS
<1>b. PICK e : e = reth_epoch
  OBVIOUS
<1>n. /\ Len(chain) \in Nat /\ Stored \in Nat /\ Pending \in Nat /\ reth_epoch \in Nat
      /\ head \in Nat /\ committed \in Nat /\ n = Stored + 1 /\ n <= Len(chain) /\ Pending >= 1
      /\ Pending = Len(chain) - Stored /\ committed <= Stored
  <2>1. /\ Len(chain) \in Nat /\ Stored \in Nat /\ Pending \in Nat /\ reth_epoch \in Nat
        /\ head \in Nat /\ committed \in Nat /\ committed <= Stored
    BY Order DEF NatState
  <2>2. Stored + 1 <= Len(chain) /\ Pending >= 1
    BY VoteReady
  <2>3. Pending = Len(chain) - Stored
    BY <2>1, SMTT(30) DEF Stored
  <2> QED BY <2>1, <2>2, <2>3, <1>a
<1>r. /\ n \in DOMAIN chain /\ chain[n].epoch = reth_epoch /\ <<e, n>> \in Keys
      /\ St(<<e, n>>) = "ordered"
      /\ Quiet /\ reth_epoch = current_epoch /\ reth_epoch # 0 /\ exec_pc = "poll"
      /\ cons_running /\ cons_epoch = current_epoch /\ cons_epoch # 0 /\ n = Stored + 1 /\ e = reth_epoch /\ epoch_proof = None
      /\ chain[n].reconfig => n = Len(chain)
  BY VoteReady, <1>a, <1>b
<1>s. /\ \A k \in Keys :
            /\ Held(k)' <=> Held(k)
            /\ Held(k) => blocks'[k].id = blocks[k].id
            /\ St(k)' = "committed" <=> St(k) = "committed"
            /\ St(k)' = "historical" <=> St(k) = "historical"
            /\ St(k)' = "ordered" => blocks'[k] = blocks[k] /\ k # <<e, n>>
            /\ St(k) # "ordered" => blocks'[k] = blocks[k]
            /\ ~chain[n].reconfig /\ k # <<e, n>> => blocks'[k] = blocks[k]
            /\ blocks'[k] # blocks[k] /\ k # <<e, n>> =>
                  /\ chain[n].reconfig /\ k[1] = e /\ k[2] > n
                  /\ blocks'[k].res = "dummy_reconfig"
      /\ St(<<e, n>>)' = "computed"
      /\ blocks'[<<e, n>>].res = IF chain[n].reconfig THEN "reconfig" ELSE "executed"
      /\ IF chain[n].reconfig
         THEN /\ next_epoch' = e + 1 /\ latest_epoch_change_block_number' = n
              /\ epoch_change_block_info' = [num |-> n, epoch |-> e + 1]
         ELSE UNCHANGED <<next_epoch, latest_epoch_change_block_number, epoch_change_block_info>>
  BY VoteStores, <1>a, <1>b
<1>p. UNCHANGED failed
  BY VoteReady DEF VoteSetComputeRes
<1>y. Pending' = Pending - 1 /\ Stored' = Stored + 1
  <2>1. vote # None /\ vote' = None /\ Len(result_q) \in Nat
    BY Order DEF VoteSetComputeRes, NatState
  <2>2. Pending' = Pending - 1
    BY <2>1, <1>v DEF Pending
  <2> QED BY <2>2, <1>n, <1>v DEF Stored
<1>i. \A k \in Keys, over \in BOOLEAN : InChain(k, over) => InChain(k, over)'
  <2>1. \A i : i \in 1..Stored => i \in 1..Stored'
    BY <1>y, <1>n
  <2> QED BY <2>1, <1>v DEF InChain
<1>h. ~(head > Stored)
  BY <1>r DEF IInv, HeadInv, Quiet
<1>e. chain[n].reconfig => epoch_change_block_info' # None
  <2>1. BufferTypeOK'
    BY <1>t DEF TypeOK
  <2>2. chain[n].reconfig => next_epoch' \in Epochs
    <3>1. reth_epoch + 1 # None
      <4>1. reth_epoch + 1 \in Nat
        BY <1>n
      <4> QED BY <4>1, BufferAssumption
    <3> QED BY <2>1, <3>1, <1>s, <1>r DEF BufferTypeOK
  <2>3. n \in Numbers
    BY <1>r, ChainNumbers
  <2>4. chain[n].reconfig => epoch_change_block_info' \in [num : Numbers, epoch : Epochs]
    BY <2>2, <2>3, <1>s, SMTT(30)
  <2> QED BY <2>4, BufferAssumption
<1>f. ChainInv' /\ EpochInv' /\ BaseInv' /\ ScheduledInv' /\ OldCommittedInv' /\ RequestInv' /\
      QueueInv' /\ PersistingInv' /\ FailInv'
  BY <1>v, <1>p, Frames
<1>Phase. PhaseInv'
  <2>1. CASE chain[n].reconfig
    <3>1. n = Len(chain) /\ chain # <<>> /\ Pending' = 0
      BY <2>1, <1>r, <1>y, <1>n, SMTT(30), SMTT(31) DEF IInv, TypeOK
    <3> QED BY <2>1, <3>1, <1>r, <1>s, <1>v DEF PhaseInv, Changing, TopOver, Top, Quiet
  <2>2. CASE ~chain[n].reconfig
    <3>1. Pending' = 0 => n = Len(chain)
      BY <1>y, <1>n, SMTT(30)
    <3> QED BY <2>2, <3>1, <1>r, <1>s, <1>v DEF PhaseInv, TopOver, Top, Quiet
  <2> QED BY <2>1, <2>2
<1>NotReady. NotReadyInv'
  BY <1>v, <1>s DEF IInv, NotReadyInv, IsReady
<1>NotStarted. NotStartedInv'
  BY <1>r, <1>v DEF NotStartedInv
<1>Proof. ProofInv'
  BY <1>r, <1>v DEF ProofInv
<1>Result. ResultInv'
  <2>1. Pending' <= Len(chain')
    BY <1>y, <1>n, <1>v
  <2>2. vote' = None
    BY DEF VoteSetComputeRes
  <2> QED BY <2>1, <2>2, <1>v DEF IInv, ResultInv, ResultOf
<1>Awaited. AwaitedInv'
  <2>1. SUFFICES ASSUME NEW i \in DOMAIN chain, i > Stored + 1
                 PROVE  chain[i].epoch = reth_epoch /\ St(<<reth_epoch, i>>)' = "ordered"
    BY <1>y, <1>v, <1>r DEF AwaitedInv, St
  <2>2. i \in Nat /\ i <= Len(chain) /\ i > Stored /\ i # n /\ n # Len(chain)
    <3>1. i \in Nat /\ i <= Len(chain)
      BY ChainNumbers
    <3> QED BY <3>1, <2>1, <1>n, SMTT(30)
  <2>3. chain[i].epoch = reth_epoch /\ St(<<reth_epoch, i>>) = "ordered" /\ <<reth_epoch, i>> \in Keys
    BY <2>2, ChainNumbers DEF IInv, AwaitedInv
  <2>4. ~chain[n].reconfig /\ <<reth_epoch, i>> # <<e, n>>
    BY <2>2, <1>r
  <2>5. blocks'[<<reth_epoch, i>>] = blocks[<<reth_epoch, i>>]
    BY <2>3, <2>4, <1>s
  <2> QED BY <2>3, <2>5, <1>v DEF St
<1>Exec. ExecInv'
  <2>1. \A x : EpochOver(x)' <=> EpochOver(x)
    BY <1>v DEF EpochOver
  <2>2. Stale' = Stale
    BY <1>v DEF Stale
  <2>3. ASSUME ~EpochOver(reth_epoch), NEW i \in DOMAIN exec_q, ~(i <= Stale)
        PROVE  Fresh(exec_q[i], Len(chain) + i - Stale)'
    <3>1. Fresh(exec_q[i], Len(chain) + i - Stale)
      BY <2>3, <1>r DEF IInv, ExecInv
    <3>2. Len(chain) + i - Stale # n /\ ~chain[n].reconfig
      <4>1. i \in Nat /\ Stale \in Int
        BY PushedTypes
      <4>2. Len(chain) + i - Stale # n
        BY <4>1, <2>3, <1>n, SMTT(30)
      <4> QED BY <4>2, <2>3, <1>r DEF EpochOver
    <3>3. <<reth_epoch, Len(chain) + i - Stale>> \in Keys
      BY <3>1, PushedTypes, <1>r DEF Fresh, Keys
    <3>4. blocks'[<<reth_epoch, Len(chain) + i - Stale>>] = blocks[<<reth_epoch, Len(chain) + i - Stale>>]
      BY <3>2, <3>3, <1>s
    <3> QED BY <3>1, <3>4, <2>2, <1>v DEF Fresh, St
  <2> QED BY <2>1, <2>2, <2>3, <1>r, <1>v DEF IInv, ExecInv
<1>Held. HeldInv'
  BY <1>s, <1>v DEF IInv, HeldInv, HeldOK
<1>Entry. EntryInv'
  <2>1. SUFFICES ASSUME NEW k \in Keys, St(k)' \in {"computed", "committed"} PROVE EntryResult(k)'
    BY DEF EntryInv
  <2>2. CASE k = <<e, n>>
    <3>1. n \in 1..Stored'
      BY <1>y, <1>n
    <3>2. k[1] = reth_epoch /\ k[2] = n
      BY <2>2, <1>r
    <3>3. chain[n].reconfig \in BOOLEAN
      BY <1>r, ChainNumbers
    <3>4. CASE chain[n].reconfig
      <4>1. InChain(k, TRUE)'
        BY <3>1, <3>2, <3>3, <3>4, <1>r, <1>v DEF InChain
      <4> QED BY <2>2, <3>4, <4>1, <1>s DEF EntryResult
    <3>5. CASE ~chain[n].reconfig
      <4>1. InChain(k, FALSE)'
        BY <3>1, <3>2, <3>3, <3>5, <1>r, <1>v DEF InChain
      <4> QED BY <2>2, <3>5, <4>1, <1>s DEF EntryResult
    <3> QED BY <3>4, <3>5
  <2>3. CASE blocks'[k] = blocks[k]
    <3>1. EntryResult(k) /\ ~IsSuffixBlock(k[2])
      BY <2>1, <2>3, <1>r DEF IInv, EntryInv, St, IsSuffixBlock, Quiet
    <3> QED BY <2>3, <3>1, <1>i DEF EntryResult
  <2>4. CASE blocks'[k] # blocks[k] /\ k # <<e, n>>
    <3>1. /\ chain[n].reconfig /\ k[1] = reth_epoch /\ k[2] > n /\ blocks'[k].res = "dummy_reconfig"
          /\ epoch_change_block_info' = [num |-> n, epoch |-> e + 1]
      BY <2>4, <1>s, <1>r
    <3>2. epoch_change_block_info' # None
      BY <3>1, <1>e
    <3> QED BY <3>1, <3>2, <1>r, <1>v DEF EntryResult, IsSuffixBlock
  <2> QED BY <2>2, <2>3, <2>4
<1>Parent. ParentInv'
  <2>1. SUFFICES ASSUME NEW m \in Numbers, m > Stored + 1, St(<<cons_epoch, m>>)' = "ordered"
                 PROVE  blocks'[<<cons_epoch, m>>].parent = RightParent(m)
    BY <1>y, <1>v DEF ParentInv, RightParent, St
  <2>2. <<cons_epoch, m>> \in Keys /\ m > Stored
    <3>1. m \in Nat
      BY Naturals
    <3>2. cons_epoch \in Epochs
      BY DEF IInv, TypeOK
    <3> QED BY <2>1, <3>1, <3>2, <1>n, SMTT(30), SMTT(31) DEF Keys
  <2>3. blocks'[<<cons_epoch, m>>] = blocks[<<cons_epoch, m>>]
    BY <2>1, <2>2, <1>s, <1>v DEF St
  <2>4. St(<<cons_epoch, m>>) = "ordered"
    BY <2>1, <2>3, <1>v DEF St
  <2> QED BY <2>2, <2>3, <2>4, <1>r DEF IInv, ParentInv
<1>Top. TopInv'
  <2>1. TopKey' = TopKey /\ TopKey \in Keys
    BY <1>v, TopKeyType DEF TopKey, Top
  <2>2. Held(TopKey)' <=> Held(TopKey)
    <3>1. \A k \in Keys : (blocks'[k].st # "absent" <=> blocks[k].st # "absent")
      BY <1>s DEF Held, St
    <3> QED BY <2>1, <3>1 DEF Held, St
  <2> QED BY <2>2, <1>v DEF IInv, TopInv, IsReady
<1>Commit. CommitInv'
  <2>1. committed <= Stored'
    BY <1>y, <1>n
  <2> QED BY <2>1, <1>v DEF IInv, CommitInv
<1>Stored. StoredInv'
  <2>1. SUFFICES ASSUME NEW i \in DOMAIN chain, i > committed, i <= Stored + 1
                 PROVE  St(<<chain[i].epoch, i>>)' \in {"computed", "committed"}
    BY <1>y, <1>v DEF StoredInv, St
  <2>2. CASE i = n
    <3>1. <<chain[i].epoch, i>> = <<e, n>>
      BY <2>2, <1>r
    <3> QED BY <3>1, <1>s, <1>v DEF St
  <2>3. CASE i <= Stored
    <3>1. St(<<chain[i].epoch, i>>) \in {"computed", "committed"} /\ <<chain[i].epoch, i>> \in Keys
      BY <2>1, <2>3, ChainNumbers DEF IInv, StoredInv
    <3>2. blocks'[<<chain[i].epoch, i>>] = blocks[<<chain[i].epoch, i>>]
      BY <3>1, <1>s
    <3> QED BY <3>1, <3>2, <1>v DEF St
  <2>4. i \in Nat
    BY ChainNumbers
  <2> QED BY <2>1, <2>2, <2>3, <2>4, <1>n, SMTT(30)
<1>Task. TaskInv'
  <2>1. ASSUME NEW k \in Keys, NEW res, TaskResult(k, res) PROVE TaskResult(k, res)'
    <3>1. ~IsSuffixBlock(k[2])
      BY <1>r DEF Quiet, IsSuffixBlock
    <3> QED BY <2>1, <3>1, <1>i, <1>v DEF TaskResult
  <2> QED BY <2>1, <1>v DEF IInv, TaskInv
<1>Item. ItemInv'
  <2>1. ASSUME NEW k \in Keys, ItemOK(k) PROVE ItemOK(k)'
    <3>1. \A i : i \in 1..Stored => i \in 1..Stored'
      BY <1>y, <1>n, SMTT(30)
    <3> QED BY <2>1, <3>1, <1>i, <1>v DEF ItemOK
  <2> QED BY <2>1, <1>v DEF IInv, ItemInv
<1>Current. CurrentInv'
  <2>1. SUFFICES ASSUME NEW i \in DOMAIN persist_q, CurrentOK(i) PROVE CurrentOK(i)'
    BY <1>v DEF IInv, CurrentInv
  <2>2. \A m \in Numbers : <<persist_q[i].epoch, m>> \in Keys
    BY RequestTypes DEF Keys
  <2>3. \A m \in Numbers : St(<<persist_q[i].epoch, m>>)' # "committed" <=>
                             St(<<persist_q[i].epoch, m>>) # "committed"
    BY <2>2, <1>s, <1>v DEF St
  <2> QED BY <2>1, <2>3, <1>v DEF CurrentOK
<1>Old. OldInv'
  <2>1. SUFFICES ASSUME NEW i \in DOMAIN persist_q, NEW m \in Numbers,
                        ~Held(<<persist_q[i].epoch, m>>)
                 PROVE  ~Held(<<persist_q[i].epoch, m>>)'
    BY <1>v DEF IInv, OldInv
  <2>2. <<persist_q[i].epoch, m>> \in Keys
    BY RequestTypes DEF Keys
  <2> QED BY <2>1, <2>2, <1>s, <1>v DEF Held, St
<1>Head. HeadInv'
  <2>1. ~(head > Stored')
    BY <1>y, <1>n, <1>h
  <2>2. \A m \in Numbers : <<cons_epoch, m>> \in Keys
    BY DEF IInv, TypeOK, Keys
  <2>3. \A m \in Numbers : St(<<cons_epoch, m>>)' # "committed" <=> St(<<cons_epoch, m>>) # "committed"
    BY <2>2, <1>s, <1>v DEF St
  <2> QED BY <2>1, <2>3, <1>v DEF IInv, HeadInv
<1>Front. FrontInv'
  <2>1. ASSUME NEW m, EndsHere(m)' PROVE m \in Nat /\ m > head
    <3>1. m \in 1..(Stored + 1) /\ chain[m].reconfig /\ chain[m].epoch = current_epoch
      BY <2>1, <1>y, <1>v DEF EndsHere
    <3>2. ~(m \in 1..Stored)
      <4>1. SUFFICES ASSUME EndsHere(m) PROVE FALSE
        BY <3>1 DEF EndsHere
      <4>2. Changing
        BY <4>1, EpochEnded, <1>r
      <4> QED BY <4>2, <1>r, <1>n DEF Changing
    <3> QED BY <3>1, <3>2, <1>h, <1>n, SMTT(30)
  <2>2. ASSUME NEW i \in DOMAIN persist_q, persist_q[i].epoch = current_epoch
        PROVE  persist_q[i].lo <= head
    <3>1. persist_q[i].lo <= persist_q[i].hi /\ persist_q[i].hi <= head
      BY <2>2, <1>r DEF IInv, RequestInv
    <3>2. persist_q[i].lo \in Nat /\ persist_q[i].hi \in Nat
      BY RequestTypes
    <3> QED BY <3>1, <3>2, <1>n, SMTT(30)
  <2>3. ASSUME NEW m, EndsHere(m)', NEW i \in DOMAIN persist_q, persist_q[i].epoch = current_epoch
        PROVE  ~(m < persist_q[i].lo)
    <3>1. m \in Nat /\ m > head /\ persist_q[i].lo <= head /\ persist_q[i].lo \in Nat
      BY <2>1, <2>2, <2>3, RequestTypes
    <3> QED BY <3>1, <1>n
  <2>4. ASSUME NEW m, EndsHere(m)' PROVE ~(m <= head)
    BY <2>1, <2>4, <1>n
  <2> QED BY <2>3, <2>4, <1>v DEF FrontInv
<1> QED BY <1>t, <1>f, <1>Phase, <1>NotReady, <1>NotStarted, <1>Proof, <1>Result, <1>Awaited,
           <1>Exec, <1>Held, <1>Entry, <1>Parent, <1>Top, <1>Commit, <1>Stored, <1>Task,
           <1>Item, <1>Current, <1>Old, <1>Head, <1>Front DEF IInv

(* Every step of the pipeline keeps the invariant. *)
LEMMA InvStep ==
    ASSUME IInv, [Next]_vars
    PROVE  IInv'
<1>1. CASE BootBuffer
  BY <1>1, StepBootBuffer
<1>2. CASE CleanBuffer
  BY <1>2, StepCleanBuffer
<1>3. CASE BootEpoch
  BY <1>3, StepBootEpoch
<1>4. CASE ProcessOrderedBlocks
  BY <1>4, StepProcessOrderedBlocks
<1>5. ASSUME NEW k \in Keys, ScheduleSetOrdered(k) PROVE IInv'
  BY <1>5, StepScheduleSetOrdered
<1>6. ASSUME NEW k \in Keys, ScheduleGetExecuted(k) PROVE IInv'
  BY <1>6, StepScheduleGetExecuted
<1>7. ASSUME NEW k \in Keys, ProcessExecutionResponse(k) PROVE IInv'
  BY <1>7, StepProcessExecutionResponse
<1>8. CASE RetrySchedulePhase
  BY <1>8, StepRetrySchedulePhase
<1>9. ASSUME NEW n \in Numbers, AdvanceHead(n) PROVE IInv'
  BY <1>9, StepAdvanceHead
<1>10. CASE CommitLedger
  BY <1>10, StepCommitLedger
<1>11. CASE PersistDone
  BY <1>11, StepPersistDone
<1>12. CASE EndEpoch
  BY <1>12, StepEndEpoch
<1>13. CASE StartNewEpoch
  BY <1>13, StepStartNewEpoch
<1>14. CASE ExecBoot
  BY <1>14, StepExecBoot
<1>15. CASE ExecPoll
  <2>1. CASE InEpochChange(reth_epoch)
    BY <1>15, <2>1, StepExecPollChange
  <2>2. CASE ~InEpochChange(reth_epoch)
    BY <1>15, <2>2, StepExecPollRun
  <2> QED BY <2>1, <2>2
<1>16. CASE ExecConsume
  BY <1>16, StepExecConsume
<1>17. CASE RethExecute
  <2>1. CASE EpochOver(Head(exec_q).epoch)
    BY <1>17, <2>1, StepRethDrop
  <2>2. CASE ~EpochOver(Head(exec_q).epoch)
    BY <1>17, <2>2, StepRethRun
  <2> QED BY <2>1, <2>2
<1>18. CASE VoteRecv
  BY <1>18, StepVoteRecv
<1>19. CASE VoteSetComputeRes
  BY <1>19, StepVoteSetComputeRes
<1>20. CASE CommitLoad
  BY <1>20, StepCommitLoad
<1>21. CASE CommitTimeout
  BY <1>21, StepCommitTimeout
<1>22. CASE CommitPoll
  BY <1>22, StepCommitPoll
<1>23. CASE CommitSetState
  BY <1>23, StepCommitSetState
<1>24. CASE CommitNotify
  BY <1>24, StepCommitNotify
<1>25. CASE RethPersist
  BY <1>25, StepRethPersist
<1>26. CASE UNCHANGED vars
  <2>1. UNCHANGED <<bufferVars, consVars, rethVars>>
    BY <1>26 DEF vars
  <2>2. UNCHANGED <<Pending, Stored>>
    BY <2>1, ZenonT(40) DEF rethVars, Pending, Stored
  <2>3. TypeOK'
    BY <2>1, SMTT(30), SMTT(31) DEF IInv, TypeOK, BufferTypeOK, bufferVars, consVars, rethVars
  <2> QED BY <2>1, <2>2, <2>3, Frames DEF IInv, bufferVars, consVars, rethVars
<1> QED BY <1>1, <1>2, <1>3, <1>4, <1>5, <1>6, <1>7, <1>8, <1>9, <1>10, <1>11, <1>12, <1>13, <1>14, <1>15, <1>16, <1>17, <1>18, <1>19, <1>20, <1>21, <1>22, <1>23, <1>24, <1>25, <1>26 DEF Next, ConsensusNext, RethNext

(* The invariant holds in every reachable state. *)
LEMMA Invariance == Spec => []IInv
<1>1. Init => IInv
  BY InitInv
<1>2. IInv /\ [Next]_vars => IInv'
  BY InvStep
<1> QED BY <1>1, <1>2, PTL DEF Spec

(* The buffer, consensus and the loops of reth_cli.rs keep their types: in particular a  *)
(* loop's epoch is a number, whichever field consume_epoch_change read it from.           *)
THEOREM PipelineTypes == Spec => []TypeOK
<1>1. IInv => TypeOK
  BY DEF IInv
<1> QED BY <1>1, Invariance, PTL

(* next_epoch, the suffix cache and latest_epoch_change_block_number stand for the same   *)
(* pending change, and it is released before it is consumed, whatever start_execution,    *)
(* start_commit_vote and the EpochManager interleave.                                     *)
THEOREM ReleasedThenConsumed == Spec => []ChangeReleasedThenConsumed
<1>1. ASSUME IInv PROVE ChangeReleasedThenConsumed
  <2>1. CASE Quiet
    BY <2>1 DEF Quiet, ChangeReleasedThenConsumed
  <2>2. CASE Changing
    <3>1. epoch_change_block_info # None
      BY <1>1, <2>2, CacheType
    <3>2. current_epoch \in Nat
      BY <1>1, Order DEF NatState
    <3>3. current_epoch + 1 \in Nat
      BY <3>2, SMTT(30)
    <3>4. next_epoch # None
      BY <3>3, <2>2, BufferAssumption DEF Changing
    <3> QED BY <3>1, <3>4, <2>2 DEF Changing, ChangeReleasedThenConsumed
  <2>3. CASE Released
    <3>1. Len(chain) # 0
      BY <1>1, <2>3, SMTT(30), SMTT(31) DEF Released, TopOver, IInv, TypeOK
    <3> QED BY <3>1, <2>3 DEF Released, ChangeReleasedThenConsumed
  <2> QED BY <1>1, <2>1, <2>2, <2>3 DEF IInv, PhaseInv
<1> QED BY <1>1, Invariance, PTL

(* What consensus signs is what reth computed: an item of the buffer manager carries the  *)
(* result reth stored for its block, and every item that ends the epoch names the block   *)
(* in which reth saw the NewEpoch event.                                                  *)
THEOREM SignsWhatWasExecuted == Spec => []CommitInfoMatchesExecution
<1>1. ASSUME IInv, NEW k \in Keys, item[k] # None
      PROVE  LET at == {i \in DOMAIN chain : chain[i].epoch = k[1]}
             IN  /\ item[k].res # "dummy"
                 /\ item[k].res = "executed" => \E i \in at : chain[i].num = k[2] /\ ~chain[i].reconfig
                 /\ HasEpochState(item[k].res) =>
                       \E i \in at : chain[i].reconfig /\ chain[i].num = item[k].end
                 /\ ~HasEpochState(item[k].res) => item[k].end = None
  <2>1. \A i \in 1..Stored : i \in DOMAIN chain /\ chain[i].num = i
    <3>1. \A i \in 1..Stored : i \in 1..Len(chain)
      <4>1. Stored \in Nat /\ Len(chain) \in Nat /\ Stored <= Len(chain)
        BY <1>1, Order DEF NatState
      <4> QED BY <4>1
    <3> QED BY <1>1, <3>1, SMTT(30), SMTT(31) DEF IInv, TypeOK, ChainInv
  <2>2. CASE item[k].res = "executed" /\ item[k].end = None /\ InChain(k, FALSE)
    BY <2>1, <2>2 DEF InChain, HasEpochState
  <2>3. CASE /\ item[k].res \in {"reconfig", "dummy_reconfig"}
             /\ item[k].end \in 1..Stored /\ chain[item[k].end].epoch = k[1]
             /\ chain[item[k].end].reconfig /\ item[k].end <= k[2]
    BY <2>1, <2>3 DEF HasEpochState
  <2> QED BY <1>1, <2>2, <2>3 DEF IInv, ItemInv, ItemOK
<1>2. IInv => CommitInfoMatchesExecution
  BY <1>1 DEF CommitInfoMatchesExecution
<1> QED BY <1>2, Invariance, PTL

(* start_execution moves the shared epoch on only after start_commit took the block that  *)
(* ended the old one, so start_commit never looks for it under the new epoch's key.       *)
THEOREM CommitLoopKeepsUp == Spec => []CommitLoopNotLeftBehind
<1>1. ASSUME IInv, NEW i \in DOMAIN chain, chain[i].epoch < reth_epoch
      PROVE  commit_start > chain[i].num
  <2>1. /\ chain[i].epoch \in Nat /\ i \in Nat /\ reth_epoch \in Nat /\ current_epoch \in Nat
        /\ committed \in Nat
    BY <1>1, ChainNumbers, Order DEF NatState
  <2>2. reth_epoch <= current_epoch
    BY <1>1, <2>1, SMTT(30), SMTT(31) DEF IInv, PhaseInv, Quiet, Starting, Changing, Released
  <2>3. i <= committed
    BY <1>1, <2>1, <2>2, SMTT(30), SMTT(31) DEF IInv, OldCommittedInv
  <2>4. commit_start = committed + 1 /\ chain[i].num = i
    BY <1>1 DEF IInv, CommitInv, ChainInv
  <2> QED BY <2>1, <2>3, <2>4, SMTT(30)
<1>2. IInv => CommitLoopNotLeftBehind
  BY <1>1 DEF CommitLoopNotLeftBehind
<1> QED BY <1>2, Invariance, PTL

(* No loop of reth_cli.rs returns an error or panics, and every queued request finds its  *)
(* blocks computed or gone with their epoch, except for a suffix block that a late retry  *)
(* of schedule_compute put back.                                                          *)
THEOREM LoopsDoNotFail == Spec => []NoLoopFails
<1>1. ASSUME IInv, NEW i \in DOMAIN persist_q, NEW n \in persist_q[i].lo..persist_q[i].hi,
             CommitErr([id |-> <<persist_q[i].epoch, n>>, num |-> n], persist_q[i].epoch)
      PROVE  /\ St(<<persist_q[i].epoch, n>>) = "ordered" /\ persist_q[i].epoch = current_epoch
             /\ IsSuffixBlock(n)
  <2> DEFINE e == persist_q[i].epoch
             k == <<e, n>>
  <2>1. /\ e \in Epochs /\ e \in Nat /\ persist_q[i].lo \in Nat /\ persist_q[i].hi \in Nat
        /\ persist_q[i].hi \in Numbers /\ e <= cons_epoch
    BY <1>1, RequestTypes DEF IInv, RequestInv
  <2>2. n \in Nat /\ persist_q[i].lo <= n /\ n <= persist_q[i].hi
    BY <1>1, <2>1, SMTT(30)
  <2>3. n \in Numbers /\ k \in Keys
    BY <2>1, <2>2, Below DEF Keys
  <2>4. Held(k) => blocks[k].id = k
    BY <1>1, <2>3 DEF IInv, HeldInv, HeldOK
  <2>5. \/ St(k) = "ordered"
        \/ St(k) = "absent" /\ ~IsStaleCommit(e, n)
    BY <1>1, <2>4 DEF CommitErr, Held, St
  <2>6. cons_epoch \in Nat /\ current_epoch \in Nat /\ cons_epoch <= current_epoch /\ cons_epoch # 0
    <3>1. cons_epoch \in Nat /\ current_epoch \in Nat
      BY <1>1, Order DEF NatState
    <3>2. persist_q # <<>>
      BY <1>1, SMTT(30)
    <3>3. cons_epoch # 0
      BY <1>1, <3>2 DEF IInv, NotStartedInv
    <3>4. cons_epoch = current_epoch \/ current_epoch = cons_epoch + 1
      BY <1>1, <3>3 DEF IInv, EpochInv
    <3> QED BY <3>1, <3>3, <3>4, SMTT(30)
  <2>7. e = current_epoch
    <3>1. SUFFICES ASSUME e < current_epoch PROVE FALSE
      BY <2>1, <2>6, SMTT(30)
    <3>2. ~Held(k)
      BY <1>1, <2>2, <2>3, <3>1 DEF IInv, OldInv
    <3> QED BY <2>5, <3>1, <3>2 DEF Held, IsStaleCommit
  <2>8. cons_running /\ cons_epoch = current_epoch
    <3>1. cons_epoch = current_epoch
      BY <2>1, <2>6, <2>7, SMTT(30)
    <3>2. cons_running
      BY <1>1, <3>1, <2>6, SMTT(30), SMTT(31) DEF IInv, EpochInv
    <3> QED BY <3>1, <3>2
  <2>9. /\ committed < persist_q[i].lo /\ epoch_base[cons_epoch] < persist_q[i].lo
        /\ persist_q[i].hi <= head /\ (head > Stored => epoch_change_block_info # None)
    BY <1>1, <2>7, <2>8 DEF IInv, CurrentInv, CurrentOK, RequestInv, HeadInv
  <2>10. /\ committed \in Nat /\ head \in Nat /\ Stored \in Nat /\ Len(chain) \in Nat
         /\ Stored <= Len(chain)
    BY <1>1, Order DEF NatState
  <2>11. epoch_base[cons_epoch] \in Nat
    BY <1>1, Naturals DEF IInv, TypeOK
  <2>12. n > Stored
    <3>1. SUFFICES ASSUME n <= Stored PROVE FALSE
      BY <2>2, <2>10, SMTT(30)
    <3>2. n \in 1..Len(chain) /\ n > epoch_base[cons_epoch] /\ n > committed
      BY <3>1, <2>1, <2>2, <2>9, <2>10, <2>11, SMTT(30), SMTT(31)
    <3>3. n \in DOMAIN chain
      BY <1>1, <3>2, SMTT(30), SMTT(31) DEF IInv, TypeOK
    <3>4. chain[n].epoch = cons_epoch
      BY <1>1, <3>2, <3>3, <2>6 DEF IInv, BaseInv
    <3>5. St(k) \in {"computed", "committed"}
      BY <1>1, <3>1, <3>2, <3>3, <3>4, <2>7, <2>8 DEF IInv, StoredInv
    <3> QED BY <2>5, <3>5
  <2>13. head > Stored
    BY <2>1, <2>2, <2>9, <2>10, <2>12, SMTT(30)
  <2>14. IsSuffixBlock(n)
    BY <1>1, <2>9, <2>12, <2>13, SuffixMeans
  <2> QED BY <2>5, <2>7, <2>14 DEF IsStaleCommit
<1>2. IInv => NoLoopFails
  BY <1>1 DEF NoLoopFails, IInv, FailInv
<1> QED BY <1>2, Invariance, PTL

(* The epoch of the buffer moves only after the EpochManager received the proof that the  *)
(* epoch is over: release_inflight_blocks is the only step that advances it.              *)
THEOREM EpochFollowsConsensus == Spec => EpochMovesWithConsensus
<1>1. ASSUME IInv, [Next]_vars, cons_epoch # 0, current_epoch' # current_epoch
      PROVE  epoch_proof # None
  <2>1. CASE BootBuffer
    BY <1>1, <2>1 DEF BootBuffer, IInv, NotReadyInv
  <2>2. CASE CleanBuffer
    BY <1>1, <2>2 DEF CleanBuffer, RemoveCommittedBlocks, bufferVars
  <2>3. CASE BootEpoch
    BY <1>1, <2>3 DEF BootEpoch
  <2>4. CASE ProcessOrderedBlocks
    BY <1>1, <2>4 DEF ProcessOrderedBlocks, bufferVars
  <2>5. ASSUME NEW k \in Keys, ScheduleSetOrdered(k) PROVE FALSE
    BY <1>1, <2>5 DEF ScheduleSetOrdered, SetOrderedBlocks, bufferVars
  <2>6. ASSUME NEW k \in Keys, ScheduleGetExecuted(k) PROVE FALSE
    BY <1>1, <2>6 DEF ScheduleGetExecuted, GetExecutedRes, bufferVars
  <2>7. ASSUME NEW k \in Keys, ProcessExecutionResponse(k) PROVE FALSE
    BY <1>1, <2>7 DEF ProcessExecutionResponse, bufferVars
  <2>8. CASE RetrySchedulePhase
    BY <1>1, <2>8 DEF RetrySchedulePhase, bufferVars
  <2>9. ASSUME NEW n \in Numbers, AdvanceHead(n) PROVE FALSE
    BY <1>1, <2>9 DEF AdvanceHead, bufferVars
  <2>10. CASE CommitLedger
    BY <1>1, <2>10 DEF CommitLedger, SetCommitBlocks, bufferVars
  <2>11. CASE PersistDone
    BY <1>1, <2>11 DEF PersistDone, bufferVars
  <2>12. CASE EndEpoch
    BY <2>12 DEF EndEpoch
  <2>13. CASE StartNewEpoch
    BY <1>1, <2>13 DEF StartNewEpoch, bufferVars
  <2>14. CASE ExecBoot
    BY <1>1, <2>14 DEF ExecBoot, bufferVars
  <2>15. CASE ExecPoll
    BY <1>1, <2>15 DEF ExecPoll, bufferVars
  <2>16. CASE ExecConsume
    BY <1>1, <2>16 DEF ExecConsume, ConsumeEpochChange, bufferVars
  <2>17. CASE RethExecute
    BY <1>1, <2>17 DEF RethExecute, bufferVars
  <2>18. CASE VoteRecv
    BY <1>1, <2>18 DEF VoteRecv, bufferVars
  <2>19. CASE VoteSetComputeRes
    BY <1>1, <2>19 DEF VoteSetComputeRes, SetComputeRes, bufferVars
  <2>20. CASE CommitLoad
    BY <1>1, <2>20 DEF CommitLoad, bufferVars
  <2>21. CASE CommitTimeout
    BY <1>1, <2>21 DEF CommitTimeout, bufferVars
  <2>22. CASE CommitPoll
    BY <1>1, <2>22 DEF CommitPoll, GetCommittedBlocks, bufferVars
  <2>23. CASE CommitSetState
    BY <1>1, <2>23 DEF CommitSetState, SetState, bufferVars
  <2>24. CASE CommitNotify
    BY <1>1, <2>24 DEF CommitNotify, bufferVars
  <2>25. CASE RethPersist
    BY <1>1, <2>25 DEF RethPersist, bufferVars
  <2>26. CASE UNCHANGED vars
    BY <1>1, <2>26 DEF vars, bufferVars
  <2> QED BY <1>1, <2>1, <2>2, <2>3, <2>4, <2>5, <2>6, <2>7, <2>8, <2>9, <2>10, <2>11, <2>12, <2>13, <2>14, <2>15, <2>16, <2>17, <2>18, <2>19, <2>20, <2>21, <2>22, <2>23, <2>24, <2>25, <2>26 DEF Next, ConsensusNext, RethNext
<1>2. IInv /\ [Next]_vars => [cons_epoch # 0 /\ current_epoch' # current_epoch => epoch_proof # None]_vars
  BY <1>1
<1> QED BY <1>2, Invariance, PTL DEF Spec, EpochMovesWithConsensus

(* A block the executor runs extends the chain it has: the parent set_ordered_blocks      *)
(* settled on is the block executed last, and the epoch is the one that block leaves.     *)
LEMMA RunIsExecute ==
    ASSUME IInv, RethExecute, ~EpochOver(Head(exec_q).epoch)
    PROVE  Ledger!Execute
<1> DEFINE L == Len(chain)
           b == chain'[L + 1]
<1>1. /\ Len(chain') = L + 1 /\ chain' = Append(chain, b) /\ b.num = L + 1 /\ b.epoch = reth_epoch
      /\ b.parent = blocks[<<reth_epoch, L + 1>>].parent
  BY RunExtends
<1>2. /\ reth_epoch = cons_epoch /\ cons_running /\ cons_epoch # 0 /\ ~EpochOver(cons_epoch)
      /\ <<cons_epoch, L + 1>> \in Keys /\ St(<<cons_epoch, L + 1>>) = "ordered"
  <2>1. exec_q # <<>>
    BY DEF RethExecute
  <2> QED BY <2>1, NextToRun DEF Fresh
<1>3. L \in Nat /\ Stored \in Nat /\ Stored <= L /\ cons_epoch \in Nat /\ DOMAIN chain = 1..L
  BY Order, SMTT(30), SMTT(31) DEF NatState, IInv, TypeOK
<1>4. epoch_base[cons_epoch] \in Nat /\ epoch_base[cons_epoch] <= L
  BY <1>2, Naturals DEF IInv, TypeOK, BaseInv
<1>5. b.parent = RightParent(L + 1)
  <2>1. L + 1 \in Numbers /\ L + 1 > Stored
    BY <1>2, <1>3, SMTT(30) DEF Keys
  <2> QED BY <1>1, <1>2, <2>1 DEF IInv, ParentInv
<1>6. CASE chain = <<>>
  <2>1. L = 0 /\ epoch_base[cons_epoch] = 0
    BY <1>3, <1>4, <1>6, SMTT(30)
  <2>2. cons_epoch = 1
    BY <1>2, <2>1 DEF IInv, BaseInv
  <2>3. b.parent = GenesisId
    BY <1>5, <2>1, <2>2, SMTT(30) DEF RightParent, GenesisId
  <2>4. Ledger!Extends(b, chain)
    BY <1>1, <1>2, <1>6, <2>2, <2>3 DEF Ledger!Extends
  <2>5. UNCHANGED committed
    BY DEF RethExecute
  <2> QED BY <1>1, <2>4, <2>5 DEF Ledger!Execute
<1>7. CASE chain # <<>>
  <2>1. L # 0 /\ L \in DOMAIN chain /\ L \in 1..L
    <3>1. L # 0
      BY <1>7, Empty DEF IInv, TypeOK
    <3> QED BY <1>3, <3>1, SMTT(30)
  <2>2. chain[L].id = <<chain[L].epoch, L>>
    BY <2>1 DEF IInv, ChainInv
  <2>3. /\ b.parent = chain[L].id
        /\ b.epoch = IF chain[L].reconfig THEN chain[L].epoch + 1 ELSE chain[L].epoch
    <3>1. CASE L > epoch_base[cons_epoch]
      <4>1. chain[L].epoch = cons_epoch
        BY <1>2, <2>1, <3>1 DEF IInv, BaseInv
      <4>2. ~chain[L].reconfig
        BY <1>2, <2>1, <4>1 DEF EpochOver
      <4>3. L + 1 # epoch_base[cons_epoch] + 1 /\ (L + 1) - 1 = L
        BY <1>3, <1>4, <3>1, SMTT(30)
      <4>4. b.parent = <<cons_epoch, L>>
        BY <1>5, <4>3 DEF RightParent
      <4> QED BY <1>1, <1>2, <2>2, <4>1, <4>2, <4>4
    <3>2. CASE L = epoch_base[cons_epoch]
      <4>1. chain[L].epoch = cons_epoch - 1 /\ chain[L].reconfig
        BY <1>2, <2>1, <3>2 DEF IInv, BaseInv
      <4>2. (L + 1) - 1 = L /\ (cons_epoch - 1) + 1 = cons_epoch
        BY <1>3, SMTT(30)
      <4>3. b.parent = <<cons_epoch - 1, L>>
        BY <1>5, <3>2, <4>2 DEF RightParent
      <4> QED BY <1>1, <1>2, <2>2, <4>1, <4>2, <4>3
    <3> QED BY <1>3, <1>4, <3>1, <3>2, SMTT(30)
  <2>4. Ledger!Extends(b, chain)
    BY <1>1, <1>7, <2>3 DEF Ledger!Extends
  <2>5. UNCHANGED committed
    BY DEF RethExecute
  <2> QED BY <1>1, <2>4, <2>5 DEF Ledger!Execute
<1> QED BY <1>6, <1>7

(* The pipeline implements the execution ledger: reth runs one chain, each block on top   *)
(* of the one before, across epoch changes, retries and dropped suffix blocks, and        *)
(* start_commit commits a growing prefix of it.                                           *)
THEOREM PipelineImplementsLedger == Spec => ImplementsLedger
<1>1. Init => Ledger!Init
  BY DEF Init, Ledger!Init
<1>2. ASSUME IInv, [Next]_vars PROVE [Ledger!Next]_(Ledger!ledgerVars)
  <2>1. CASE BootBuffer
    BY <2>1 DEF BootBuffer, rethVars, Ledger!ledgerVars
  <2>2. CASE CleanBuffer
    BY <2>2 DEF CleanBuffer, rethVars, Ledger!ledgerVars
  <2>3. CASE BootEpoch
    BY <2>3 DEF BootEpoch, rethVars, Ledger!ledgerVars
  <2>4. CASE ProcessOrderedBlocks
    BY <2>4 DEF ProcessOrderedBlocks, rethVars, Ledger!ledgerVars
  <2>5. ASSUME NEW k \in Keys, ScheduleSetOrdered(k) PROVE [Ledger!Next]_(Ledger!ledgerVars)
    BY <2>5 DEF ScheduleSetOrdered, rethVars, Ledger!ledgerVars
  <2>6. ASSUME NEW k \in Keys, ScheduleGetExecuted(k) PROVE [Ledger!Next]_(Ledger!ledgerVars)
    BY <2>6 DEF ScheduleGetExecuted, rethVars, Ledger!ledgerVars
  <2>7. ASSUME NEW k \in Keys, ProcessExecutionResponse(k) PROVE [Ledger!Next]_(Ledger!ledgerVars)
    BY <2>7 DEF ProcessExecutionResponse, rethVars, Ledger!ledgerVars
  <2>8. CASE RetrySchedulePhase
    BY <2>8 DEF RetrySchedulePhase, rethVars, Ledger!ledgerVars
  <2>9. ASSUME NEW n \in Numbers, AdvanceHead(n) PROVE [Ledger!Next]_(Ledger!ledgerVars)
    BY <2>9 DEF AdvanceHead, rethVars, Ledger!ledgerVars
  <2>10. CASE CommitLedger
    BY <2>10 DEF CommitLedger, Ledger!ledgerVars
  <2>11. CASE PersistDone
    BY <2>11 DEF PersistDone, rethVars, Ledger!ledgerVars
  <2>12. CASE EndEpoch
    BY <2>12 DEF EndEpoch, rethVars, Ledger!ledgerVars
  <2>13. CASE StartNewEpoch
    BY <2>13 DEF StartNewEpoch, rethVars, Ledger!ledgerVars
  <2>14. CASE ExecBoot
    BY <2>14 DEF ExecBoot, Ledger!ledgerVars
  <2>15. CASE ExecPoll
    BY <2>15 DEF ExecPoll, Ledger!ledgerVars
  <2>16. CASE ExecConsume
    BY <2>16 DEF ExecConsume, Ledger!ledgerVars
  <2>17. CASE RethExecute
    <3>1. CASE EpochOver(Head(exec_q).epoch)
      BY <2>17, <3>1 DEF RethExecute, Ledger!ledgerVars
    <3>2. CASE ~EpochOver(Head(exec_q).epoch)
      BY <1>2, <2>17, <3>2, RunIsExecute DEF Ledger!Next
    <3> QED BY <3>1, <3>2
  <2>18. CASE VoteRecv
    BY <2>18 DEF VoteRecv, Ledger!ledgerVars
  <2>19. CASE VoteSetComputeRes
    BY <2>19 DEF VoteSetComputeRes, Ledger!ledgerVars
  <2>20. CASE CommitLoad
    BY <2>20 DEF CommitLoad, Ledger!ledgerVars
  <2>21. CASE CommitTimeout
    BY <2>21 DEF CommitTimeout, Ledger!ledgerVars
  <2>22. CASE CommitPoll
    <3>1. PICK last \in Numbers :
            /\ LastOf(last, CommittedRun(commit_start, commit_epoch))
            /\ last \in DOMAIN chain /\ chain[last].id = blocks[<<commit_epoch, last>>].id
               => committed' = last
      BY <2>22 DEF CommitPoll
    <3>2. IsReady /\ chain' = chain
      BY <2>22 DEF CommitPoll, GetCommittedBlocks
    <3>3. /\ last \in Nat /\ committed < last /\ last <= Stored /\ committed' = last
      BY <1>2, <3>1, <3>2, PollAgrees
    <3>4. Stored \in Nat /\ Len(chain) \in Nat /\ Stored <= Len(chain)
      BY <1>2, Order DEF NatState
    <3>5. last <= Len(chain)
      BY <3>3, <3>4
    <3> QED BY <3>2, <3>3, <3>5 DEF Ledger!Next, Ledger!Commit
  <2>23. CASE CommitSetState
    BY <2>23 DEF CommitSetState, Ledger!ledgerVars
  <2>24. CASE CommitNotify
    BY <2>24 DEF CommitNotify, Ledger!ledgerVars
  <2>25. CASE RethPersist
    BY <2>25 DEF RethPersist, Ledger!ledgerVars
  <2>26. CASE UNCHANGED vars
    BY <2>26 DEF vars, rethVars, Ledger!ledgerVars
  <2> QED BY <1>2, <2>1, <2>2, <2>3, <2>4, <2>5, <2>6, <2>7, <2>8, <2>9, <2>10, <2>11, <2>12, <2>13, <2>14, <2>15, <2>16, <2>17, <2>18, <2>19, <2>20, <2>21, <2>22, <2>23, <2>24, <2>25, <2>26 DEF Next, ConsensusNext, RethNext
<1>3. IInv /\ [Next]_vars => [Ledger!Next]_(Ledger!ledgerVars)
  BY <1>2
<1> QED BY <1>1, <1>3, Invariance, PTL DEF Spec, ImplementsLedger, Ledger!Spec
=============================================================================
