---------------------------- MODULE EpochManager ----------------------------
(***************************************************************************)
(* The epoch manager of one node: how it routes what the network sends to  *)
(* the components of the current epoch, and how it takes the node from one *)
(* epoch to the next.                                                      *)
(*                                                                         *)
(* The epoch manager handles one event at a time, but the end of an epoch  *)
(* waits for other tasks (`todo` holds the steps left): the round manager, *)
(* the phases of the commit pipeline, the tasks that verify signatures and *)
(* the task that tells the rest of the node about commits run meanwhile.   *)
(* A channel is named by the epoch whose components read it; a message     *)
(* pushed to a channel nobody reads is lost.  An optional value is a set   *)
(* of at most one element.                                                 *)
(***************************************************************************)
EXTENDS Integers, FiniteSets, Sequences

CONSTANTS
  ValidatorIn,   \* the epochs whose validator set has this node
  Peer,          \* the other nodes
  MaxEpoch,      \* bound: the last epoch
  MaxInFlight,   \* bound: messages of peers accepted and not yet handled
  MaxFaults,     \* bound: crashes and failed or useless synchronizations
  QueueCap       \* capacity of a (peer, kind) queue of the network task

ASSUME EpochAssumption ==
  /\ ValidatorIn \subseteq 1 .. MaxEpoch
  /\ MaxEpoch \in Nat /\ MaxInFlight \in Nat /\ MaxFaults \in Nat
  /\ QueueCap \in Nat \ {0}

VARIABLES
  em,        \* the fields of EpochManager
  todo,      \* what is left of initiate_new_epoch
  rm,        \* the round manager task
  inbox,     \* what waits for the quorum store, commit and rand managers
  tasks,     \* signature checks: the event and the channels captured for it
  proofs,    \* EpochChangeProofs the node sent to itself, in order
  pipe,      \* the persisting phase and ExecutionProxy
  reconfig,  \* the reconfiguration channel, which keeps the newest
  committed, \* durable: the last epoch whose boundary block is committed
  faults
vars == <<em, todo, rm, inbox, tasks, proofs, pipe, reconfig, committed, faults>>

Epochs == 1 .. MaxEpoch
QuorumStoreKinds == {"batch"}
DirectKinds == {"proposal", "vote"} \union QuorumStoreKinds
RpcKinds == {"commit", "rand"}
Services == {"qs", "commit", "rand"}

\* A round manager and what waits for it.  `busy`: it is inside
\* fast_forward_sync_by_epoch; `waiting` is wait_change_epoch_flag.
NewRoundManager(e) ==
  [epoch |-> {e}, inbox |-> {}, busy |-> FALSE, waiting |-> FALSE]
Closed == [epoch |-> {}, inbox |-> {}, busy |-> FALSE, waiting |-> FALSE]
NoInbox == [s \in Services |-> {}]

-----------------------------------------------------------------------------
(* Starting an epoch *)

\* start_new_epoch: the validator set of the notified epoch decides the role;
\* the shared components, the quorum store, the pipeline, the block store and
\* the round manager are built, with new channels.
start_new_epoch(m, e) ==
  [m EXCEPT !.epoch = e, !.is_validator = e \in ValidatorIn,
            !.round_manager_tx = {e}, !.buffered_proposal_tx = {e},
            !.quorum_store_msg_tx = {e}, !.rand_manager_msg_tx = {e},
            !.commit_tx = {e},
            !.timers = IF e \in ValidatorIn THEN @ \union {e} ELSE @]

\* init_payload_provider and initialize_shared_component: the quorum store.
StartQuorumStore(p, e) == [p EXCEPT !.qs = {e}]

\* ExecutionProxyClient::start_epoch: the rand and buffer managers and their
\* phases, and the state ExecutionProxy keeps for the epoch.
StartPipeline(p, e) == [p EXCEPT !.epoch = {e}]

\* ExecutionProxy::new: no commit yet in this process.
NewPipe == [epoch |-> {}, qs |-> {}, sending |-> {}, logical |-> 0, notify |-> <<>>]

Fresh ==
  [epoch |-> 0, is_validator |-> FALSE, round_manager_tx |-> {},
   buffered_proposal_tx |-> {}, quorum_store_msg_tx |-> {},
   rand_manager_msg_tx |-> {}, commit_tx |-> {}, pending_blocks |-> {},
   timers |-> {}, inflight |-> FALSE, answer |-> {}]

\* EpochManager::start: the initial notification carries the configuration of
\* the latest executed block.
Boot(e) ==
  /\ em' = start_new_epoch(Fresh, e)
  /\ todo' = <<>> /\ rm' = NewRoundManager(e) /\ inbox' = NoInbox
  /\ tasks' = {} /\ proofs' = <<>> /\ reconfig' = {}
  /\ pipe' = StartPipeline(StartQuorumStore(NewPipe, e), e)

Init ==
  /\ em = start_new_epoch(Fresh, 1)
  /\ todo = <<>> /\ rm = NewRoundManager(1) /\ inbox = NoInbox
  /\ tasks = {} /\ proofs = <<>> /\ reconfig = {}
  /\ pipe = StartPipeline(StartQuorumStore(NewPipe, 1), 1)
  /\ committed = 0 /\ faults = 0

Idle == todo = <<>>     \* the event loop waits for an event

-----------------------------------------------------------------------------
(* Channels *)

\* A push to the round manager: a queue keeps the newest of a (peer, kind).
ToRoundManager(r, chan, ev) ==
  IF chan = {} \/ chan # r.epoch THEN r
  ELSE [r EXCEPT !.inbox =
          {x \in @ : <<x.peer, x.kind>> # <<ev.peer, ev.kind>>} \union {ev}]

\* The epoch whose managers read the queue of a service.
Reader(s) == IF s = "qs" THEN pipe.qs ELSE pipe.epoch

\* The quorum store and the rand manager keep the newest too; a full commit
\* queue drops what comes.  One message of each peer stands for the queue.
ToService(i, s, chan, ev) ==
  IF chan = {} \/ chan # Reader(s) THEN i
  ELSE [i EXCEPT ![s] = {x \in @ : x.peer # ev.peer} \union {ev}]

\* NetworkTask: the queue of the node's own epoch proofs, first in first out.
PushProof(q, e) == IF Len(q) < QueueCap THEN Append(q, e) ELSE q

-----------------------------------------------------------------------------
(* Messages and requests *)

InFlight ==
  Cardinality(tasks) + Cardinality(rm.inbox)
    + Cardinality(UNION {inbox[s] : s \in Services})

\* consensus_msg_filter and rpc_request_filter for what a peer sends.
Filtered == ~em.is_validator

\* process_different_epoch: an older message is dropped (a validator) or
\* answered with a proof the receiver filters out; a newer one makes the round
\* manager synchronize the current epoch.
process_different_epoch(p, e) ==
  /\ rm' = IF e > em.epoch
             THEN ToRoundManager(rm, em.round_manager_tx,
                    [peer |-> p, kind |-> "EpochChange", epoch |-> em.epoch])
             ELSE rm
  /\ UNCHANGED <<em, inbox, tasks>>

\* process_message, check_epoch, filter_quorum_store_events: a message of the
\* epoch is verified in a task of its own, with the channels of this moment.
ReceiveMessage(p, k, e) ==
  /\ Idle /\ ~Filtered
  /\ IF e # em.epoch THEN process_different_epoch(p, e)
     ELSE /\ InFlight < MaxInFlight
          /\ tasks' = tasks \union
               {[peer |-> p, kind |-> k, epoch |-> e,
                 round_manager_tx |-> em.round_manager_tx,
                 buffered_proposal_tx |-> em.buffered_proposal_tx,
                 quorum_store_msg_tx |-> em.quorum_store_msg_tx]}
          /\ UNCHANGED <<em, rm, inbox>>
  /\ UNCHANGED <<todo, proofs, pipe, reconfig, committed, faults>>

\* A mistake: the event goes to the channels of the epoch running now.
forward_event_Current(t) ==
  LET ev == [peer |-> t.peer, kind |-> t.kind, epoch |-> t.epoch]
  IN  CASE t.kind \in QuorumStoreKinds ->
             /\ inbox' = ToService(inbox, "qs", em.quorum_store_msg_tx, ev)
             /\ UNCHANGED <<em, rm>>
        [] t.kind = "proposal" ->
             /\ em' = [em EXCEPT !.pending_blocks = @ \union {t.epoch}]
             /\ rm' = ToRoundManager(rm, em.buffered_proposal_tx, ev)
             /\ UNCHANGED inbox
        [] OTHER -> /\ rm' = ToRoundManager(rm, em.round_manager_tx, ev)
                    /\ UNCHANGED <<em, inbox>>

\* forward_event
forward_event(t) ==
  LET ev == [peer |-> t.peer, kind |-> t.kind, epoch |-> t.epoch]
  IN  CASE t.kind \in QuorumStoreKinds ->
             /\ inbox' = ToService(inbox, "qs", t.quorum_store_msg_tx, ev)
             /\ UNCHANGED <<em, rm>>
        [] t.kind = "proposal" ->
             /\ em' = [em EXCEPT !.pending_blocks = @ \union {t.epoch}]
             /\ rm' = ToRoundManager(rm, t.buffered_proposal_tx, ev)
             /\ UNCHANGED inbox
        [] OTHER -> /\ rm' = ToRoundManager(rm, t.round_manager_tx, ev)
                    /\ UNCHANGED <<em, inbox>>

\* The signature check ends, whatever the epoch manager is doing.
Verified ==
  \E t \in tasks :
    /\ forward_event(t)
    /\ tasks' = tasks \ {t}
    /\ UNCHANGED <<todo, proofs, pipe, reconfig, committed, faults>>

\* process_rpc_request for the requests that carry an epoch.
ReceiveRpc(p, k, e) ==
  /\ Idle /\ ~Filtered
  /\ IF e # em.epoch THEN process_different_epoch(p, e)
     ELSE /\ InFlight < MaxInFlight
          /\ inbox' = ToService(inbox, k,
                        IF k = "rand" THEN em.rand_manager_msg_tx ELSE em.commit_tx,
                        [peer |-> p, kind |-> k, epoch |-> e])
          /\ UNCHANGED <<em, rm, tasks>>
  /\ UNCHANGED <<todo, proofs, pipe, reconfig, committed, faults>>

\* process_local_timeout.  A timer names a round and no epoch, and the channel
\* outlives the round state that armed it.
process_local_timeout ==
  /\ Idle
  /\ \E e \in em.timers :
       /\ em' = [em EXCEPT !.timers = @ \ {e}]
       /\ rm' = IF ~em.is_validator THEN rm
                ELSE ToRoundManager(rm, em.round_manager_tx,
                       [peer |-> "self", kind |-> "LocalTimeout", epoch |-> e])
  /\ UNCHANGED <<todo, inbox, tasks, proofs, pipe, reconfig, committed, faults>>

\* The managers read what waits for them.
Serve ==
  \E s \in Services : \E ev \in inbox[s] :
    /\ inbox' = [inbox EXCEPT ![s] = @ \ {ev}]
    /\ UNCHANGED <<em, todo, rm, tasks, proofs, pipe, reconfig, committed, faults>>

-----------------------------------------------------------------------------
(* A node outside the validator set polls its peers *)

\* request_sync_info: one request at a time.
request_sync_info ==
  /\ Idle /\ ~em.is_validator /\ ~em.inflight
  /\ em' = [em EXCEPT !.inflight = TRUE]
  /\ UNCHANGED <<todo, rm, inbox, tasks, proofs, pipe, reconfig, committed, faults>>

\* The answer (a peer's epoch), or a failure, reaches sync_info_rx.
SyncInfoAnswer ==
  /\ em.inflight /\ em.answer = {}
  /\ \E p \in Peer, e \in Epochs \union {0} :
       em' = [em EXCEPT !.answer = {[peer |-> p, epoch |-> e]}]
  /\ UNCHANGED <<todo, rm, inbox, tasks, proofs, pipe, reconfig, committed, faults>>

\* advance_block_sync; epoch 0 stands for the failed request.
advance_block_sync ==
  /\ Idle
  /\ \E a \in em.answer :
       /\ em' = [em EXCEPT !.inflight = FALSE, !.answer = {}]
       /\ rm' = IF em.is_validator \/ a.epoch < em.epoch THEN rm
                ELSE ToRoundManager(rm, em.round_manager_tx,
                       [peer |-> a.peer, epoch |-> em.epoch,
                        kind |-> IF a.epoch > em.epoch THEN "EpochChange"
                                 ELSE "UnverifiedSyncInfo"])
  /\ UNCHANGED <<todo, inbox, tasks, proofs, pipe, reconfig, committed, faults>>

-----------------------------------------------------------------------------
(* The round manager and the pipeline of the epoch *)

\* The boundary block of the epoch is committed: the ledger info is stored,
\* the NewEpoch event queued for the notifier, the logical time advanced.
\* With the state of the epoch gone the commit panics ("must be set within
\* an epoch").
commit(e) ==
  /\ committed' = e
  /\ pipe' = [pipe EXCEPT !.sending = {e}, !.logical = e,
                          !.notify = Append(@, e + 1)]

\* PersistingPhase::process, up to the end of the commit.
PersistBoundary ==
  /\ pipe.epoch # {} /\ pipe.sending = {}
  /\ \E e \in pipe.epoch \ {MaxEpoch} : pipe.logical < e /\ commit(e)
  /\ UNCHANGED <<em, todo, rm, inbox, tasks, proofs, reconfig, faults>>

\* ... and its last statement: the proof is sent to the node itself.
send_epoch_change ==
  \E e \in pipe.sending :
    /\ proofs' = PushProof(proofs, e)
    /\ pipe' = [pipe EXCEPT !.sending = {}]
    /\ UNCHANGED <<em, todo, rm, inbox, tasks, reconfig, committed, faults>>

\* ExecutionProxy's notifier task: notify_new_commit, then the handler's
\* notify_events, which replaces what the channel holds.
Notify ==
  /\ pipe.notify # <<>>
  /\ reconfig' = {Head(pipe.notify)}
  /\ pipe' = [pipe EXCEPT !.notify = Tail(@)]
  /\ UNCHANGED <<em, todo, rm, inbox, tasks, proofs, committed, faults>>

\* The round manager takes an event; an EpochChange starts the
\* synchronization of the epoch unless one succeeded before.
RoundManagerTakes ==
  /\ rm.epoch # {} /\ ~rm.busy
  /\ \E ev \in rm.inbox :
       rm' = [rm EXCEPT !.inbox = @ \ {ev},
                        !.busy = ev.kind = "EpochChange" /\ ~rm.waiting]
  /\ UNCHANGED <<em, todo, inbox, tasks, proofs, pipe, reconfig, committed, faults>>

\* fast_forward_sync_by_epoch ends: with the boundary committed (by the
\* replayed blocks or already before) and the proof sent again; with nothing
\* done because no peer has the ledger info; or with an error, which leaves
\* the flag unset.
SyncSucceeds ==
  /\ rm.busy /\ \E e \in rm.epoch : committed >= e
  /\ rm' = [rm EXCEPT !.busy = FALSE, !.waiting = TRUE]
  /\ \E e \in rm.epoch : proofs' = PushProof(proofs, e)
  /\ UNCHANGED <<em, todo, inbox, tasks, pipe, reconfig, committed, faults>>
SyncUseless ==
  /\ rm.busy /\ faults < MaxFaults
  /\ \E ok \in BOOLEAN : rm' = [rm EXCEPT !.busy = FALSE, !.waiting = ok]
  /\ faults' = faults + 1
  /\ UNCHANGED <<em, todo, inbox, tasks, proofs, pipe, reconfig, committed>>

-----------------------------------------------------------------------------
(* The end of an epoch *)

Shutdown == <<"round_manager", "end_epoch", "quorum_store", "sync_to", "await">>

\* check_epoch for a proof: only one of the current epoch ends it.
ReceiveProof ==
  /\ Idle /\ proofs # <<>>
  /\ proofs' = Tail(proofs)
  /\ todo' = IF Head(proofs) = em.epoch THEN Shutdown ELSE <<>>
  /\ UNCHANGED <<em, rm, inbox, tasks, pipe, reconfig, committed, faults>>

At(step) == todo # <<>> /\ Head(todo) = step

\* The round manager acknowledges between two events.
CloseRoundManager ==
  /\ At("round_manager") /\ ~rm.busy
  /\ rm' = Closed
  /\ em' = [em EXCEPT !.round_manager_tx = {}, !.rand_manager_msg_tx = {}]
  /\ todo' = Tail(todo)
  /\ UNCHANGED <<inbox, tasks, proofs, pipe, reconfig, committed, faults>>

\* ExecutionProxyClient::end_epoch: the rand and buffer managers stop (the
\* buffer manager once no request of its phases is left), then the state of
\* the epoch is dropped.
end_epoch ==
  /\ pipe.sending = {}
  /\ pipe' = [pipe EXCEPT !.epoch = {}]
  /\ inbox' = [inbox EXCEPT !["commit"] = {}, !["rand"] = {}]
  /\ em' = [em EXCEPT !.commit_tx = {}]

EndEpoch ==
  /\ At("end_epoch") /\ end_epoch
  /\ todo' = Tail(todo)
  /\ UNCHANGED <<rm, tasks, proofs, reconfig, committed, faults>>

\* The quorum store coordinator shuts its tasks down; then pending_blocks is
\* replaced.
StopQuorumStore ==
  /\ At("quorum_store")
  /\ inbox' = [inbox EXCEPT !["qs"] = {}]
  /\ em' = [em EXCEPT !.pending_blocks = {}]
  /\ pipe' = [pipe EXCEPT !.qs = {}]
  /\ todo' = Tail(todo)
  /\ UNCHANGED <<rm, tasks, proofs, reconfig, committed, faults>>

\* A mistake: the notification is sent although the commit sends one too.
sync_to_Always(e) ==
  /\ reconfig' = {e + 1}
  /\ pipe' = [pipe EXCEPT !.logical = e]

\* ExecutionProxy::sync_to, then the handler's SyncToTarget: nothing when the
\* epoch's end was committed here, else the configuration is read again.
sync_to(e) ==
  IF pipe.logical >= e THEN UNCHANGED <<reconfig, pipe>>
  ELSE /\ reconfig' = {e + 1}
       /\ pipe' = [pipe EXCEPT !.logical = e]

SyncTo ==
  /\ At("sync_to") /\ sync_to(em.epoch)
  /\ todo' = Tail(todo)
  /\ UNCHANGED <<em, rm, inbox, tasks, proofs, committed, faults>>

\* await_reconfig_notification, then start_new_epoch.
AwaitReconfig ==
  /\ At("await")
  /\ \E e \in reconfig :
       /\ em' = start_new_epoch(em, e)
       /\ rm' = NewRoundManager(e)
       /\ pipe' = StartPipeline(StartQuorumStore(pipe, e), e)
  /\ reconfig' = {} /\ todo' = <<>>
  /\ UNCHANGED <<inbox, tasks, proofs, committed, faults>>

\* The node stops anywhere and starts again: the execution layer has the
\* boundary block, or executes it again.
Crash ==
  /\ faults < MaxFaults /\ faults' = faults + 1
  /\ \E e \in {committed, committed + 1} \ {0} : Boot(e)
  /\ UNCHANGED committed

-----------------------------------------------------------------------------
Internal ==
  \/ Verified \/ Serve \/ process_local_timeout \/ advance_block_sync \/ SyncInfoAnswer
  \/ send_epoch_change \/ Notify \/ RoundManagerTakes \/ SyncSucceeds
  \/ ReceiveProof \/ CloseRoundManager \/ EndEpoch \/ StopQuorumStore
  \/ SyncTo \/ AwaitReconfig

Next ==
  \/ \E p \in Peer, k \in DirectKinds, e \in Epochs : ReceiveMessage(p, k, e)
  \/ \E p \in Peer, k \in RpcKinds, e \in Epochs : ReceiveRpc(p, k, e)
  \/ request_sync_info \/ PersistBoundary \/ SyncUseless \/ Crash
  \/ Internal

Spec == Init /\ [][Next]_vars

-----------------------------------------------------------------------------
\* What a component of an epoch receives is of that epoch, although checks of
\* signatures end at any time (forward_event uses the channels captured when
\* they began); a commit in progress still has the state of its epoch
\* (ExecutionProxy::commit expects it, end_epoch drops it); and the node runs
\* the epoch after the last boundary it committed, or that epoch again after
\* a restart.  Local timeouts are left out: they carry no epoch.
EpochsKeptApart ==
  /\ \A ev \in rm.inbox : ev.kind = "LocalTimeout" \/ {ev.epoch} = rm.epoch
  /\ \A s \in Services : \A ev \in inbox[s] : {ev.epoch} = Reader(s)
  /\ pipe.sending # {} => pipe.sending = pipe.epoch
  /\ em.epoch \in {committed, committed + 1}

\* The epoch manager is never left waiting in initiate_new_epoch, and an epoch
\* whose boundary was committed ends: when the node has nothing left to do by
\* itself, its event loop is free and it is past that epoch.  (The
\* notification start_new_epoch waits for comes from the commit or from
\* sync_to, exactly one of them.)
ChangeNotStuck ==
  ~(ENABLED Internal) => Idle /\ em.epoch > pipe.logical
=============================================================================
