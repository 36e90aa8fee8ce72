------------------------------ MODULE Observer ------------------------------
(***************************************************************************)
(* The consensus observer of a node that does not vote: it takes ordered   *)
(* blocks, block payloads and commit decisions from the peer it subscribed *)
(* to, keeps them in three bounded stores, forwards complete blocks to the *)
(* execution pipeline, and falls back to state sync on a commit decision   *)
(* it holds no block for (aptos-core/consensus/src/consensus_observer).    *)
(*                                                                         *)
(* The observer loop handles one event at a time.  The pipeline commits,   *)
(* its commit callbacks run, and the state sync task advances, between any *)
(* two of those events and while the loop waits for a reset.  Messages     *)
(* come from an honest but possibly lagging peer: in any order, repeated   *)
(* or never, each about a block of the one committed chain.                *)
(***************************************************************************)
EXTENDS Integers, Sequences, FiniteSets, TLC, SequencesExt

CONSTANTS Rounds,        \* epoch -> number of blocks of that epoch
          Groups,        \* the ordered blocks a publisher sends: [e, lo, hi]
          MaxPending,    \* max_num_pending_blocks
          QuorumStoreEnabled,
          MaxSubscriptions,
          Stale          \* whether decisions of epochs already left may arrive

ObserverAssumption == MaxPending \in Nat \ {0}

VARIABLES o,             \* the observer: epoch, root, the stores, sync, and pipe
          notes,         \* sync_notification channel
          callbacks,     \* commit callbacks queued behind the pipeline's commits
          db,            \* the last block executed and stored by this node
          owed,          \* the highest decision the observer has accepted
          subscriptions  \* subscriptions made so far

vars == <<o, notes, callbacks, db, owed, subscriptions>>

(* Blocks are numbered by (epoch, round), the key order of the stores.     *)
Block == UNION {{<<e, r>> : r \in 1 .. Rounds[e]} : e \in DOMAIN Rounds}

Upto(a, b) == a[1] < b[1] \/ (a[1] = b[1] /\ a[2] <= b[2])

Latest(S) == CHOOSE x \in S : \A y \in S : Upto(y, x)

first_block(g) == <<g.e, g.lo>>
last_block(g) == <<g.e, g.hi>>
blocks(g) == {<<g.e, r>> : r \in g.lo .. g.hi}

(* The first block of an epoch extends the epoch's genesis block.          *)
parent_id(g) == <<g.e, g.lo - 1>>

-----------------------------------------------------------------------------
(* BlockPayloadStore: (epoch, round) -> whether the signatures were        *)
(* verified.                                                               *)

all_payloads_exist(s, g) ==
  \A b \in blocks(g) : b \in DOMAIN s.payloads /\ s.payloads[b]

(* At its bound the store refuses the payload, even one it would replace.  *)
insert_block_payload(s, b, verified) ==
  IF Cardinality(DOMAIN s.payloads) >= MaxPending THEN s
  ELSE [s EXCEPT !.payloads = (b :> verified) @@ @]

remove_blocks_for_epoch_round(s, b) ==
  [s EXCEPT !.payloads = [x \in {y \in DOMAIN @ : ~Upto(y, b)} |-> @[x]]]

(* Payloads of the new epoch are verified and put back; at the bound they  *)
(* stay unverified.  Returns the state and the rounds verified.            *)
UnverifiedRounds(s) ==
  {b[2] : b \in {x \in DOMAIN s.payloads : x[1] = s.epoch /\ ~s.payloads[x]}}

verify_payload_signatures(s) ==
  FoldLeft(LAMBDA t, r : insert_block_payload(t, <<s.epoch, r>>, TRUE),
           s, SetToSortSeq(UnverifiedRounds(s), <))

(* OrderedBlockStore: entries keyed by the last block, with the decision.  *)
Entry(s, b) == {x \in s.ordered : last_block(x.g) = b}

get_last_ordered_block(s) == Latest({last_block(x.g) : x \in s.ordered})

insert_ordered_block(s, g) ==
  IF Cardinality(s.ordered) >= MaxPending THEN s
  ELSE [s EXCEPT !.ordered = (@ \ Entry(s, last_block(g))) \cup {[g |-> g, decided |-> FALSE]}]

remove_blocks_for_commit(s, b) ==
  [s EXCEPT !.ordered = {x \in @ : ~Upto(last_block(x.g), b)}]

update_commit_decision(s, b) ==
  [s EXCEPT !.ordered = {IF last_block(x.g) = b THEN [x EXCEPT !.decided = TRUE] ELSE x : x \in @}]

(* PendingBlockStore: blocks that wait for payloads, keyed by their first  *)
(* block.                                                                  *)
garbage_collect_pending_blocks(P) ==
  {g \in P : Cardinality({h \in P : ~Upto(first_block(h), first_block(g))}) < MaxPending}

insert_pending_block(s, g) ==
  [s EXCEPT !.pending =
     garbage_collect_pending_blocks(
       IF \E h \in @ : first_block(h) = first_block(g) THEN @ ELSE @ \cup {g})]

(* On a payload, the last block that starts at or before it is ready, or   *)
(* still waits for a higher round, or is dropped with everything below.    *)
remove_ready_block_Below(s, b) ==
  LET lower == {g \in s.pending : Upto(first_block(g), b) /\ first_block(g) # b}
      last  == {g \in lower : first_block(g) = Latest({first_block(h) : h \in lower})}
      ready == {g \in last : all_payloads_exist(s, g)}
      kept  == {g \in last \ ready : g.hi > b[2]}
  IN <<ready, [s EXCEPT !.pending = (@ \ lower) \cup kept]>>

remove_ready_block(s, b) ==
  LET lower == {g \in s.pending : Upto(first_block(g), b)}
      last  == {g \in lower : first_block(g) = Latest({first_block(h) : h \in lower})}
      ready == {g \in last : all_payloads_exist(s, g)}
      kept  == {g \in last \ ready : g.hi > b[2]}
  IN <<ready, [s EXCEPT !.pending = (@ \ lower) \cup kept]>>

-----------------------------------------------------------------------------
(* The observer.                                                           *)

in_state_sync_mode(s) == s.sync # {}

in_state_sync_epoch_change(s) == \E h \in s.sync : h.change

get_last_block(s) == IF s.ordered = {} THEN s.root ELSE get_last_ordered_block(s)

finalize_ordered_block(s, g) == [s EXCEPT !.pipe = Append(@, g)]

forward_commit_decision(s, b) == [s EXCEPT !.decided = @ \cup {b}]

(* The payloads a block's transactions are taken from when it executes.    *)
get_transactions_for_observer(s, b) == b \in DOMAIN s.payloads /\ s.payloads[b]

verify_payloads_against_ordered_block(s, g) ==
  \A b \in blocks(g) : get_transactions_for_observer(s, b)

process_ordered_block(s, g) ==
  LET ok == /\ g.e = s.epoch
            /\ verify_payloads_against_ordered_block(s, g)
            /\ get_last_block(s) = parent_id(g)
      t  == insert_ordered_block(s, g)
  IN IF ~ok THEN s ELSE IF in_state_sync_mode(s) THEN t ELSE finalize_ordered_block(t, g)

order_ready_pending_block(s, b) ==
  LET found == remove_ready_block(s, b)
  IN IF found[1] = {} THEN found[2]
     ELSE process_ordered_block(found[2], CHOOSE g \in found[1] : TRUE)

(* The loop is blocked while it waits for the pipeline's reset.            *)
Listening == ~o.resetting

process_ordered_block_message(g) ==
  /\ Listening
  /\ o' = IF ~QuorumStoreEnabled \/ all_payloads_exist(o, g)
          THEN process_ordered_block(o, g) ELSE insert_pending_block(o, g)
  /\ UNCHANGED <<notes, callbacks, db, owed, subscriptions>>

process_block_payload_message(b) ==
  /\ Listening
  /\ \E s \in {insert_block_payload(o, b, b[1] = o.epoch)} :
       o' = IF b[1] = o.epoch THEN order_ready_pending_block(s, b) ELSE s
  /\ UNCHANGED <<notes, callbacks, db, owed, subscriptions>>

process_commit_decision_for_pending_block(s, b) ==
  LET t == update_commit_decision(s, b)
  IN IF in_state_sync_mode(s) THEN t ELSE forward_commit_decision(t, b)

(* State sync to the decision: the root moves at once, the handle of an    *)
(* earlier sync is dropped and its task aborted.                           *)
StartSync(s, b) ==
  [remove_blocks_for_commit(remove_blocks_for_epoch_round(s, b), b)
     EXCEPT !.root = b,
            !.sync = {[to |-> b, change |-> b[1] > get_last_block(s)[1], stage |-> "start"]}]

Ahead(s, b) == b[1] > get_last_block(s)[1] \/ b[2] > get_last_block(s)[2]

process_commit_decision_message(b) ==
  /\ Listening
  /\ Stale \/ b[1] >= o.epoch
  /\ LET known == /\ b[1] = o.epoch
                  /\ \E x \in Entry(o, b) : ~QuorumStoreEnabled \/ all_payloads_exist(o, x.g)
         syncs == ~known /\ Ahead(o, b) /\ ~in_state_sync_epoch_change(o)
     IN /\ o' = IF known THEN process_commit_decision_for_pending_block(o, b)
                ELSE IF syncs THEN StartSync(o, b) ELSE o
        /\ owed' = IF (known \/ syncs) /\ Upto(owed, b) THEN b ELSE owed
  /\ UNCHANGED <<notes, callbacks, db, subscriptions>>

(* The sync task: reset the pipeline, let state sync reach the target,     *)
(* notify the loop.                                                        *)
SyncResetsPipeline ==
  /\ \E h \in o.sync :
       /\ h.stage = "start"
       /\ o' = [o EXCEPT !.sync = {[h EXCEPT !.stage = "reset"]}, !.pipe = <<>>, !.decided = {}]
  /\ UNCHANGED <<notes, callbacks, db, owed, subscriptions>>

sync_to_commit_decision ==
  /\ \E h \in o.sync :
       /\ h.stage = "reset"
       /\ o' = [o EXCEPT !.sync = {[h EXCEPT !.stage = "done"]}]
       /\ db' = Latest({db, h.to})
       /\ notes' = Append(notes, h.to)
  /\ UNCHANGED <<callbacks, owed, subscriptions>>

(* A new epoch restarts the pipeline, verifies the payloads buffered for   *)
(* it and orders the blocks that wait for them.                            *)
NewEpoch(s, e) ==
  LET t == [s EXCEPT !.epoch = e, !.pipe = <<>>, !.decided = {}]
  IN FoldLeft(LAMBDA u, r : order_ready_pending_block(u, <<e, r>>),
              verify_payload_signatures(t), SetToSortSeq(UnverifiedRounds(t), <))

InOrder(s) == SetToSortSeq(s.ordered, LAMBDA x, y : Upto(last_block(x.g), last_block(y.g)))

FinalizeAll_NoDecisions(s) ==
  FoldLeft(LAMBDA t, x : finalize_ordered_block(t, x.g), [s EXCEPT !.sync = {}], InOrder(s))

FinalizeAll(s) ==
  FoldLeft(LAMBDA t, x : LET u == finalize_ordered_block(t, x.g)
                         IN IF x.decided THEN forward_commit_decision(u, last_block(x.g)) ELSE u,
           [s EXCEPT !.sync = {}], InOrder(s))

check_root_epoch_and_round(s, b) == s.root = b

process_sync_notification ==
  /\ Listening /\ notes # <<>>
  /\ LET b == Head(notes)
     IN o' = IF ~check_root_epoch_and_round(o, b) THEN o
             ELSE FinalizeAll(IF b[1] > o.epoch THEN NewEpoch(o, b[1]) ELSE o)
  /\ notes' = Tail(notes)
  /\ UNCHANGED <<callbacks, db, owed, subscriptions>>

(* The pipeline commits a prefix that ends at a decided block; its         *)
(* callback runs later.                                                    *)
PipelineCommits ==
  /\ \E i \in DOMAIN o.pipe :
       /\ last_block(o.pipe[i]) \in o.decided
       /\ o' = [o EXCEPT !.pipe = SubSeq(@, i + 1, Len(@))]
       /\ db' = Latest({db, last_block(o.pipe[i])})
       /\ callbacks' = Append(callbacks, last_block(o.pipe[i]))
  /\ UNCHANGED <<notes, owed, subscriptions>>

create_commit_callback ==
  /\ callbacks # <<>>
  /\ LET b == Head(callbacks)
         s == remove_blocks_for_commit(remove_blocks_for_epoch_round(o, b), b)
     IN o' = IF b[1] = s.root[1] /\ b[2] > s.root[2] THEN [s EXCEPT !.root = b] ELSE s
  /\ callbacks' = Tail(callbacks)
  /\ UNCHANGED <<notes, db, owed, subscriptions>>

(* The subscription is unhealthy: a new peer is subscribed to, the stores  *)
(* are cleared and the pipeline is reset to the root.                      *)
check_progress ==
  /\ Listening /\ ~in_state_sync_mode(o)
  /\ subscriptions < MaxSubscriptions
  /\ subscriptions' = subscriptions + 1
  /\ o' = [o EXCEPT !.payloads = <<>>, !.pending = {}, !.ordered = {}, !.resetting = TRUE]
  /\ UNCHANGED <<notes, callbacks, db, owed>>

clear_pending_block_state ==
  /\ o.resetting
  /\ o' = [o EXCEPT !.resetting = FALSE, !.pipe = <<>>, !.decided = {}]
  /\ owed' = db
  /\ UNCHANGED <<notes, callbacks, db, subscriptions>>

-----------------------------------------------------------------------------
Init ==
  /\ o = [epoch |-> 1, root |-> <<1, 0>>, payloads |-> <<>>, pending |-> {}, ordered |-> {},
          sync |-> {}, pipe |-> <<>>, decided |-> {}, resetting |-> FALSE]
  /\ notes = <<>> /\ callbacks = <<>> /\ db = <<1, 0>> /\ owed = <<1, 0>> /\ subscriptions = 1

process_direct_send_message ==
  \/ \E g \in Groups : process_ordered_block_message(g)
  \/ \E b \in Block : process_block_payload_message(b)
  \/ \E g \in Groups : process_commit_decision_message(last_block(g))

Next ==
  \/ process_direct_send_message
  \/ SyncResetsPipeline \/ sync_to_commit_decision \/ process_sync_notification
  \/ PipelineCommits \/ create_commit_callback
  \/ check_progress \/ clear_pending_block_state

Spec == Init /\ [][Next]_vars

-----------------------------------------------------------------------------
(* Every block handed to the pipeline extends a block that is executed     *)
(* before it: one already stored, or an earlier one of the pipeline.       *)
(* Messages out of order, a full store, a sync or a new subscription never *)
(* make process_ordered_block or process_sync_notification skip a block.   *)
PipelineHasNoGap ==
  \A i \in DOMAIN o.pipe :
     \/ Upto(parent_id(o.pipe[i]), db)
     \/ \E j \in 1 .. i - 1 : last_block(o.pipe[j]) = parent_id(o.pipe[i])

(* The payload of a block the pipeline still has to execute is in the      *)
(* payload store and verified ("the data should already be available"),    *)
(* unless the block is stored already or a reset is about to drop it.      *)
PayloadsHeld ==
  \A i \in DOMAIN o.pipe : \A b \in blocks(o.pipe[i]) :
     \/ get_transactions_for_observer(o, b)
     \/ Upto(b, db)
     \/ o.resetting \/ \E h \in o.sync : h.stage = "start"

(* No block of the current epoch waits in the pending store for payloads   *)
(* that all arrived and were verified: whatever the order, the last        *)
(* payload releases the block (remove_ready_block, verify_payload_         *)
(* signatures after an epoch change).                                      *)
NoReadyBlockWaits ==
  QuorumStoreEnabled =>
    \A g \in o.pending : g.e = o.epoch => ~all_payloads_exist(o, g)

(* A commit decision the observer accepted is carried out: once no sync,   *)
(* notification, callback or reset is left and the pipeline has nothing it *)
(* could commit, the node has stored the decided block.  A decision that   *)
(* arrives during a sync is kept with its block and forwarded afterwards.  *)
DecisionsCarriedOut ==
  (/\ o.sync = {} /\ notes = <<>> /\ callbacks = <<>> /\ ~o.resetting
   /\ \A i \in DOMAIN o.pipe : last_block(o.pipe[i]) \notin o.decided) => Upto(owed, db)

ObserverSound == PipelineHasNoGap /\ PayloadsHeld /\ NoReadyBlockWaits /\ DecisionsCarriedOut

(* "If the commit is for a future epoch or round, we need to state sync":  *)
(* the observer only ever syncs forward, its root never moves back.        *)
SyncsForward == [][Upto(o.root, o'.root)]_vars

(* "If verification is successful, blocks are marked as verified": after   *)
(* an epoch change no payload of the current epoch is left unverified.     *)
VerifiedAreMarked == \A b \in DOMAIN o.payloads : b[1] = o.epoch => o.payloads[b]
=============================================================================
