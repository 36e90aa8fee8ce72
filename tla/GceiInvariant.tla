--------------------------- MODULE GceiInvariant ---------------------------
(*****************************************************************************)
(* The inductive invariant of the GCEI pipeline.  Its conjuncts say how far  *)
(* each process is ahead of the next one, and which epoch each of them is in; *)
(* the proofs that every step keeps it are in the Gcei*_proofs modules.      *)
(*****************************************************************************)
EXTENDS GceiPipeline

(* The last executed block. *)
Top == chain[Len(chain)]

(* The results on their way to set_compute_res: in the channel and in start_commit_vote. *)
Pending == Len(result_q) + (IF vote = None THEN 0 ELSE 1)

(* Blocks 1..Stored have their result in the buffer. *)
Stored == Len(chain) - Pending

(* The last executed block changed the epoch. *)
TopOver == chain # <<>> /\ Top.reconfig

(* One chain: numbers without a gap, epochs in order. *)
ChainInv ==
    /\ \A i \in DOMAIN chain : chain[i].num = i /\ chain[i].id = <<chain[i].epoch, i>>
    /\ \A i, j \in DOMAIN chain : i < j =>
          /\ chain[i].epoch <= chain[j].epoch
          /\ chain[i].reconfig => chain[i].epoch < chain[j].epoch

(* No block was pushed to the executor yet. *)
NothingExecuted == chain = <<>> /\ exec_q = <<>> /\ Pending = 0

(* Before start_execution has an epoch to work in. *)
Starting ==
    /\ NothingExecuted
    /\ reth_epoch = 0 /\ current_epoch \in {0, 1}
    /\ exec_pc # "boot" => exec_start = 1

(* The phases of an epoch change in the buffer. *)
Quiet ==
    /\ next_epoch = None /\ epoch_change_block_info = None
    /\ latest_epoch_change_block_number = 0 /\ ~epoch_change_ready
    /\ \/ Starting
       \/ reth_epoch = current_epoch /\ reth_epoch # 0 /\ exec_pc = "poll"
    /\ TopOver /\ Pending = 0 => Top.epoch < current_epoch

(* set_compute_res stored the result that changes the epoch; nothing is released yet. *)
Changing ==
    /\ TopOver /\ Top.epoch = current_epoch /\ Pending = 0
    /\ epoch_change_block_info = [num |-> Len(chain), epoch |-> current_epoch + 1]
    /\ next_epoch = current_epoch + 1
    /\ latest_epoch_change_block_number = Len(chain) /\ ~epoch_change_ready
    /\ reth_epoch = current_epoch /\ exec_pc = "poll"

(* release_inflight_blocks advanced current_epoch; start_execution has not consumed it. *)
Released ==
    /\ TopOver /\ Top.epoch = reth_epoch /\ Pending = 0
    /\ next_epoch = None /\ epoch_change_block_info = None
    /\ latest_epoch_change_block_number = Len(chain) /\ epoch_change_ready
    /\ current_epoch = reth_epoch + 1 /\ exec_pc # "boot"

(* The buffer is in one of the three phases. *)
PhaseInv == Quiet \/ Changing \/ Released

(* Before init the buffer is empty and nobody works with it. *)
NotReadyInv ==
    ~IsReady => /\ cons_epoch = 0 /\ current_epoch = 0 /\ exec_pc = "boot"
                /\ \A k \in Keys : ~Held(k)

(* Before the EpochManager starts its first epoch nothing is scheduled. *)
NotStartedInv ==
    cons_epoch = 0 =>
       /\ ~cons_running /\ epoch_proof = None /\ persist_q = <<>> /\ persisting = None
       /\ current_epoch \in {0, 1} /\ NothingExecuted
       /\ \A k \in Keys : task[k] = "idle"

(* Between end_epoch and start_new_epoch the buffer is one epoch ahead of consensus. *)
EpochInv ==
    /\ cons_running => cons_epoch = current_epoch
    /\ cons_epoch # 0 /\ ~cons_running => current_epoch = cons_epoch + 1 /\ epoch_proof # None

(* The proof of the epoch's end names the last executed block, and it is committed. *)
ProofInv ==
    epoch_proof # None =>
       /\ TopOver /\ Top.epoch = cons_epoch /\ Pending = 0
       /\ epoch_proof = Len(chain) /\ committed = Len(chain)

(* Where the current epoch begins. *)
BaseInv ==
    /\ \A i \in DOMAIN chain : chain[i].epoch <= cons_epoch
    /\ cons_epoch = 0 => epoch_base[1] = 0 /\ head = 0
    /\ cons_epoch # 0 =>
          /\ epoch_base[cons_epoch] <= Len(chain)
          /\ epoch_base[cons_epoch] <= head /\ epoch_base[cons_epoch] <= ordered
          /\ \A i \in DOMAIN chain : i > epoch_base[cons_epoch] <=> chain[i].epoch = cons_epoch
          /\ epoch_base[cons_epoch] = 0 => cons_epoch = 1
          /\ epoch_base[cons_epoch] # 0 =>
                /\ chain[epoch_base[cons_epoch]].epoch = cons_epoch - 1
                /\ chain[epoch_base[cons_epoch]].reconfig

(* Only blocks after the base of their epoch are ever scheduled. *)
ScheduledInv ==
    \A k \in Keys : task[k] # "idle" =>
       /\ k[1] <= cons_epoch /\ k[2] # 0
       /\ k[1] = cons_epoch => k[2] > epoch_base[cons_epoch]

(* What the executor returns of the i-th block of the chain. *)
ResultOf(i) ==
    [id |-> chain[i].id, num |-> i, new |-> IF chain[i].reconfig THEN chain[i].epoch + 1 ELSE None]

(* The results in flight are those of the last blocks of the chain, in order. *)
ResultInv ==
    /\ Pending <= Len(chain)
    /\ vote # None => vote.res = ResultOf(Stored + 1) /\ vote.epoch = reth_epoch
    /\ \A i \in DOMAIN result_q : result_q[i] = ResultOf(Len(chain) - Len(result_q) + i)

(* A block whose result is in flight is an ordered one of the current epoch. *)
AwaitedInv ==
    \A i \in DOMAIN chain : i > Stored =>
       /\ chain[i].epoch = reth_epoch /\ reth_epoch = current_epoch
       /\ St(<<reth_epoch, i>>) = "ordered"

(* b is block n of the epoch reth works in, as the buffer has it. *)
Fresh(b, n) ==
    /\ b.epoch = reth_epoch /\ b.num = n /\ b.id = <<reth_epoch, n>>
    /\ St(<<reth_epoch, n>>) = "ordered" /\ b.parent = blocks[<<reth_epoch, n>>].parent

(* The pushed blocks that the executor will drop. *)
Stale == Len(chain) + Len(exec_q) + 1 - exec_start

(* exec_q holds blocks of ended epochs, then the next blocks of the chain in order. *)
ExecInv ==
    /\ exec_pc = "boot" => Starting
    /\ EpochOver(reth_epoch) => \A i \in DOMAIN exec_q : EpochOver(exec_q[i].epoch)
    /\ exec_pc # "boot" /\ ~EpochOver(reth_epoch) =>
          /\ Stale \in 0..Len(exec_q)
          /\ \A i \in DOMAIN exec_q :
                IF i <= Stale THEN EpochOver(exec_q[i].epoch)
                ELSE Fresh(exec_q[i], Len(chain) + i - Stale)

(* The executor's result of k is stored; `over` says whether k changed the epoch. *)
InChain(k, over) ==
    k[2] \in 1..Stored /\ chain[k[2]].epoch = k[1] /\ chain[k[2]].reconfig = over

(* An entry of the buffer lies under its own key, in its epoch's range of numbers. *)
HeldOK(k) ==
    /\ blocks[k].id = k
    /\ k[1] <= cons_epoch
    /\ k[1] = 0 => k = <<0, 0>>
    /\ k[1] = cons_epoch => k = <<0, 0>> \/ k[2] > epoch_base[cons_epoch]
    /\ St(k) = "historical" <=> k = <<0, 0>>
    /\ k[1] < current_epoch /\ k # <<0, 0>> => k[2] \in DOMAIN chain /\ chain[k[2]].epoch = k[1]

(* Every entry is of that kind. *)
HeldInv == \A k \in Keys : Held(k) => HeldOK(k)

(* A stored result is the executor's, or the stand-in of a suffix block. *)
EntryResult(k) ==
    \/ blocks[k].res = "executed" /\ InChain(k, FALSE)
    \/ blocks[k].res = "reconfig" /\ InChain(k, TRUE)
    \/ blocks[k].res = "dummy_reconfig" /\ k[1] = current_epoch /\ IsSuffixBlock(k[2])

(* Every computed or committed entry carries such a result. *)
EntryInv == \A k \in Keys : St(k) \in {"computed", "committed"} => EntryResult(k)

(* The key of the block that block n of the running epoch extends. *)
RightParent(n) ==
    IF n # epoch_base[cons_epoch] + 1 THEN <<cons_epoch, n - 1>>
    ELSE <<cons_epoch - 1, n - 1>>

(* set_ordered_blocks settled on the right parent of every block not yet executed. *)
ParentInv ==
    \A n \in Numbers : cons_running /\ n > Stored /\ St(<<cons_epoch, n>>) = "ordered" =>
        blocks[<<cons_epoch, n>>].parent = RightParent(n)

(* The key of the last executed block, the genesis block before the first. *)
TopKey == IF chain = <<>> THEN <<0, 0>> ELSE <<Top.epoch, Len(chain)>>

(* Its entry is in the buffer: the first block of an epoch finds its parent there. *)
TopInv == IsReady => Held(TopKey)

(* start_commit and the executor's database follow the stored results. *)
CommitInv ==
    /\ commit_start = committed + 1
    /\ persisted <= committed /\ committed <= Stored
    /\ latest_finalized_block_number <= committed /\ latest_commit_block_number <= committed
    /\ commit_epoch <= reth_epoch
    /\ \A n \in taken \cup notified : n <= committed

(* The blocks of an epoch that is over are all committed. *)
OldCommittedInv == \A i \in DOMAIN chain : chain[i].epoch < current_epoch => i <= committed

(* A result that start_commit has not taken is still in the buffer. *)
StoredInv ==
    \A i \in DOMAIN chain : i > committed /\ i <= Stored =>
       St(<<chain[i].epoch, i>>) \in {"computed", "committed"}

(* res is what schedule_compute may return for k. *)
TaskResult(k, res) ==
    \/ res = "executed" /\ InChain(k, FALSE)
    \/ res = "reconfig" /\ InChain(k, TRUE)
    \/ res = "dummy_reconfig" /\ (k[1] = current_epoch => IsSuffixBlock(k[2]))

(* Every result schedule_compute returned is of that kind. *)
TaskInv == \A k \in Keys : task[k] \in Results => TaskResult(k, task[k])

(* An executed item has its block's result; one that ends the epoch names its last block. *)
ItemOK(k) ==
    \/ item[k].res = "executed" /\ item[k].end = None /\ InChain(k, FALSE)
    \/ /\ item[k].res \in {"reconfig", "dummy_reconfig"}
       /\ item[k].end \in 1..Stored /\ chain[item[k].end].epoch = k[1]
       /\ chain[item[k].end].reconfig /\ item[k].end <= k[2]

(* Every item is of that kind. *)
ItemInv == \A k \in Keys : item[k] # None => ItemOK(k)

(* The requests of the persisting phase. *)
RequestInv ==
    /\ \A i \in DOMAIN persist_q :
          /\ persist_q[i].lo <= persist_q[i].hi /\ persist_q[i].epoch <= cons_epoch
          /\ persist_q[i].epoch = cons_epoch => persist_q[i].hi <= head
          /\ item[<<persist_q[i].epoch, persist_q[i].hi>>] # None
    /\ \A i, j \in DOMAIN persist_q :
          i < j /\ persist_q[i].epoch = persist_q[j].epoch => persist_q[i].hi < persist_q[j].lo

(* A request of the current epoch covers blocks that are not committed yet. *)
CurrentOK(i) ==
    /\ committed < persist_q[i].lo
    /\ epoch_base[cons_epoch] < persist_q[i].lo
    /\ \A n \in Numbers : n >= persist_q[i].lo => St(<<persist_q[i].epoch, n>>) # "committed"

(* All of its requests do. *)
CurrentInv ==
    \A i \in DOMAIN persist_q : persist_q[i].epoch = current_epoch => CurrentOK(i)

(* They follow one another without a gap, up to the head of the buffer. *)
QueueInv ==
    \A i \in DOMAIN persist_q : persist_q[i].epoch = current_epoch =>
       IF i = Len(persist_q) THEN persist_q[i].hi = head
       ELSE persist_q[i + 1].epoch = current_epoch /\ persist_q[i + 1].lo = persist_q[i].hi + 1

(* The blocks of a request that outlived its epoch are gone from the buffer. *)
OldInv ==
    \A i \in DOMAIN persist_q : persist_q[i].epoch < current_epoch =>
       \A n \in Numbers : n >= persist_q[i].lo => ~Held(<<persist_q[i].epoch, n>>)

(* The head runs ahead of the stored results only by suffix blocks. *)
HeadInv ==
    cons_running =>
       /\ committed <= head
       /\ head > Stored => epoch_change_block_info # None
       /\ \A n \in Numbers : n > head => St(<<cons_epoch, n>>) # "committed"

(* Block n is committed, or commit_ledger is waiting for it. *)
Handled(n) == n <= committed \/ (persisting # None /\ n \in persisting.wait)

(* A request that ends the epoch covers the block that changed it, or finds it handled. *)
PersistingInv ==
    persisting # None =>
       /\ persisting.epoch <= cons_epoch /\ item[<<persisting.epoch, persisting.hi>>] # None
       /\ persisting.epoch = cons_epoch => persisting.hi <= head
       /\ /\ persisting.epoch = cons_epoch
          /\ HasEpochState(item[<<persisting.epoch, persisting.hi>>].res)
          => Handled(item[<<persisting.epoch, persisting.hi>>].end)
       /\ "commit_ledger" \notin failed

(* Block n, of the current epoch, changed it and its result is stored. *)
EndsHere(n) == n \in 1..Stored /\ chain[n].reconfig /\ chain[n].epoch = current_epoch

(* The first request of the current epoch starts right after what was handled. *)
FrontInv ==
    "commit_ledger" \notin failed /\ cons_running =>
       \A n \in Numbers : EndsHere(n) =>
          /\ \A i \in DOMAIN persist_q :
                /\ persist_q[i].epoch = current_epoch
                /\ i = 1 \/ persist_q[i - 1].epoch # current_epoch
                /\ n < persist_q[i].lo
                => Handled(n)
          /\ (persist_q = <<>> \/ persist_q[Len(persist_q)].epoch # current_epoch) /\ n <= head
                => Handled(n)

(* No loop of reth_cli.rs fails. *)
FailInv == failed \subseteq {"commit_ledger"}

(* The inductive invariant. *)
IInv ==
    /\ TypeOK /\ ChainInv /\ PhaseInv
    /\ NotReadyInv /\ NotStartedInv /\ EpochInv /\ ProofInv
    /\ BaseInv /\ ScheduledInv
    /\ ResultInv /\ AwaitedInv /\ ExecInv
    /\ HeldInv /\ EntryInv /\ ParentInv /\ TopInv
    /\ CommitInv /\ OldCommittedInv /\ StoredInv
    /\ TaskInv /\ ItemInv
    /\ RequestInv /\ CurrentInv /\ QueueInv /\ OldInv /\ HeadInv /\ PersistingInv /\ FrontInv
    /\ FailInv
=============================================================================
