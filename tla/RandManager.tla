---------------------------- MODULE RandManager ----------------------------
(***************************************************************************)
(* Randomness generation for ordered blocks in one epoch, as one validator *)
(* runs it: the RandManager's loop, its store of shares per round, on the  *)
(* slow and on the fast path, the queue of ordered blocks that wait for    *)
(* their randomness, and the task of each round that asks the peers for    *)
(* missing shares.                                                         *)
(*                                                                         *)
(* The environment orders blocks, resets the manager when the node syncs,  *)
(* and delivers the peers' shares in any order and any number of times.    *)
(* The randomness of a round is a function of the round, so its value is   *)
(* left out.  Every share has weight one.                                  *)
(***************************************************************************)
EXTENDS Integers, FiniteSets, FiniteSetsExt, Sequences

CONSTANTS
  Me, Peers,
  Path,                      \* {"slow"}, or {"slow", "fast"} with a fast_config
  Threshold, FastThreshold,  \* weight needed on the slow and on the fast path
  FUTURE_ROUNDS_TO_ACCEPT,
  MaxRound, MaxResets        \* bounds

VARIABLES
  my_certified,  \* my_certified_aug_data_exists
  rand_map,      \* path -> round -> RandItem
  known,         \* highest_known_round
  incoming,      \* ordered blocks not yet taken: batches [rounds, decided]
  queue,         \* BlockQueue: items [rounds, undecided]
  dequeued,      \* highest_dequeued_round, {} or {round}
  decisions,     \* channel of decided rounds, filled by blocking tasks
  task,          \* share request of a round: "none", "sleeping", "woken", "asking"
  ordered,       \* last round the environment ordered
  out,           \* last round sent on to execution since the last reset
  resets, stop, panic
vars == <<my_certified, rand_map, known, incoming, queue, dequeued, decisions, task,
          ordered, out, resets, stop, panic>>
env == <<my_certified, ordered, resets, stop>>

Round == 1 .. MaxRound
Author == {Me} \union Peers
ThresholdOf(path) == IF path = "slow" THEN Threshold ELSE FastThreshold

-----------------------------------------------------------------------------
(* RandStore *)

\* RandItem: no entry, PendingMetadata, PendingDecision or Decided; a decided
\* item keeps its own share only.
NewItem == [state |-> "none", shares |-> {}]

\* RandItem::try_aggregate
Decides(item, path) == item.state = "PendingDecision" /\ Cardinality(item.shares) >= ThresholdOf(path)
try_aggregate(item, path) ==
  IF Decides(item, path) THEN [state |-> "Decided", shares |-> {Me}] ELSE item

\* RandItem::add_share
add_share(item, author) ==
  IF item.state = "Decided" THEN item
  ELSE [state |-> IF item.state = "none" THEN "PendingMetadata" ELSE item.state,
        shares |-> item.shares \union {author}]

\* RandItem::add_metadata: a share is for the metadata of its round, so all stay.
add_metadata(item) ==
  IF item.state = "PendingMetadata" THEN [item EXCEPT !.state = "PendingDecision"] ELSE item

\* RandStore::get_self_share: only of a round the node knows.
get_self_share(round) == rand_map["slow"][round].shares \intersect {Me}

\* get_all_shares_authors: nothing to ask for when the round is decided or no
\* longer in the store, and unreachable before the block is added.
get_all_shares_authors(round) == rand_map["slow"][round].state

\* What RandStore::add_share makes of the map and of the decisions.
Added(map, path, round, author) ==
  LET item == add_share(map[path][round], author)
  IN [map |-> [map EXCEPT ![path][round] = try_aggregate(item, path)],
      decided |-> IF Decides(item, path) THEN {round} ELSE {}]

\* process_incoming_metadata: the node's own shares, then the metadata, on both
\* paths.
WithBlock(map, round) ==
  LET Item(path) == add_metadata(add_share(map[path][round], Me))
  IN [map |-> [path \in Path |-> [map[path] EXCEPT ![round] = try_aggregate(Item(path), path)]],
      decided |-> IF \E path \in Path : Decides(Item(path), path) THEN {round} ELSE {}]

reset_to_round_UpTo(target) ==
  [path \in Path |-> [r \in Round |-> IF r <= target + 1 THEN rand_map[path][r] ELSE NewItem]]

\* RandStore::reset_to_round: rounds from the target on are forgotten.
reset_to_round(target) ==
  [path \in Path |-> [r \in Round |-> IF r < target THEN rand_map[path][r] ELSE NewItem]]

-----------------------------------------------------------------------------
(* BlockQueue *)

\* QueueItem::new counts the blocks that have no randomness yet.
QueueItem(b) == [rounds |-> b.rounds, undecided |-> b.rounds \ b.decided]

First(item) == Min(item.rounds)

\* push_back drops blocks that have already left the queue.
Stale(item) == \E d \in dequeued : First(item) <= d

\* item_mut and set_randomness
set_randomness(q, r) == {[i EXCEPT !.undecided = @ \ {r}] : i \in q}

\* dequeue_rand_ready_prefix
ReadyPrefix(q) ==
  {i \in q : \A j \in q : First(j) <= First(i) => j.undecided = {}}

\* The end of every round of the loop: the prefix goes to execution and the
\* requests of its rounds end with it.  `live` are the tasks before it.
Loop(q, deq, live) ==
  LET ready == ReadyPrefix(q)
      rounds == UNION {i.rounds : i \in ready}
  IN /\ queue' = q \ ready
     /\ dequeued' = IF ready = {} THEN deq ELSE {Max(deq \union rounds)}
     /\ task' = [r \in Round |-> IF r \in rounds /\ live[r] # "woken" THEN "none" ELSE live[r]]
     /\ out' = IF ready = {} THEN out
               ELSE IF Min(rounds) <= out THEN MaxRound + 1 ELSE Max(rounds)

-----------------------------------------------------------------------------
(* The loop of RandManager::start *)

Running == ~stop /\ panic = {}

\* process_incoming_blocks, only once the node's own augmented data is certified.
ProcessIncomingBlocks ==
  /\ Running /\ my_certified /\ incoming # <<>>
  /\ LET b == Head(incoming)
         item == QueueItem(b)
         stale == Stale(item)
         With(r) == WithBlock(rand_map, r)
         started == [r \in Round |-> IF r \in b.rounds /\ ~stale THEN "sleeping" ELSE task[r]]
     IN /\ known' = Max({known} \union b.rounds)
        /\ rand_map' = [path \in Path |-> [r \in Round |->
                          IF r \in b.rounds THEN With(r).map[path][r] ELSE rand_map[path][r]]]
        /\ decisions' = decisions \union UNION {With(r).decided : r \in b.rounds}
        /\ panic' = IF ~stale /\ \E i \in queue : First(i) = First(item)
                    THEN {"block already queued"} ELSE {}
        /\ Loop(IF stale THEN queue ELSE queue \union {item}, dequeued, started)
  /\ incoming' = Tail(incoming)
  /\ UNCHANGED env

\* process_randomness: the block of the round, if it is still queued.
ProcessRandomness ==
  /\ Running
  /\ \E r \in decisions :
       /\ decisions' = decisions \ {r}
       /\ Loop(set_randomness(queue, r), dequeued, task)
  /\ UNCHANGED <<env, rand_map, known, incoming, panic>>

\* A Share or FastShare of a peer, unless it is of a round too far ahead.
ReceiveShare ==
  /\ Running
  /\ \E path \in Path, r \in Round, p \in Peers :
       /\ r <= known + FUTURE_ROUNDS_TO_ACCEPT
       /\ LET added == Added(rand_map, path, r, p)
          IN /\ added.map # rand_map
             /\ rand_map' = added.map
             /\ decisions' = decisions \union added.decided
  /\ UNCHANGED <<env, known, incoming, queue, dequeued, task, out, panic>>

\* RequestShare of a peer for a round the node knows: its share, made again when
\* it is not in the store.
ReceiveRequestShare ==
  /\ Running
  /\ \E r \in Round :
       /\ r <= known
       /\ get_self_share(r) = {}
       /\ LET added == Added(rand_map, "slow", r, Me)
          IN /\ rand_map' = added.map
             /\ decisions' = decisions \union added.decided
  /\ UNCHANGED <<env, known, incoming, queue, dequeued, task, out, panic>>

\* Certified augmented data of the node itself arrives.
CertifyMyData ==
  /\ Running /\ ~my_certified
  /\ my_certified' = TRUE
  /\ UNCHANGED <<rand_map, known, incoming, queue, dequeued, decisions, task, ordered,
                 out, resets, stop, panic>>

\* A reset drains the incoming blocks and, in process_reset, drops the queue and
\* with it the requests, except one that has just been woken and is about to
\* read the store.
Reset(target, stopping) ==
  /\ Running /\ resets < MaxResets
  /\ incoming' = <<>>
  /\ queue' = {} /\ dequeued' = {}
  /\ rand_map' = reset_to_round(target)
  /\ known' = Max({known, target})
  /\ task' = [r \in Round |-> IF task[r] = "woken" THEN "woken" ELSE "none"]
  /\ ordered' = target /\ out' = target
  /\ stop' = stopping
  /\ resets' = resets + 1
  /\ UNCHANGED <<my_certified, decisions, panic>>
ProcessReset == (\E target \in 0 .. MaxRound : Reset(target, FALSE)) \/ Reset(0, TRUE)

-----------------------------------------------------------------------------
(* The task of a round, spawn_aggregate_shares_task *)

\* The 300 ms are over.
TaskWakes ==
  /\ Running
  /\ \E r \in Round : task[r] = "sleeping" /\ task' = [task EXCEPT ![r] = "woken"]
  /\ UNCHANGED <<env, rand_map, known, incoming, queue, dequeued, decisions, out, panic>>

\* It asks the validators whose shares are missing.
TaskReads ==
  /\ Running
  /\ \E r \in Round :
       LET state == get_all_shares_authors(r)
       IN /\ task[r] = "woken"
          /\ task' = [task EXCEPT ![r] = IF state = "PendingDecision" THEN "asking" ELSE "none"]
          /\ panic' = IF state = "PendingMetadata" THEN {"called before the block is added"} ELSE {}
  /\ UNCHANGED <<env, rand_map, known, incoming, queue, dequeued, decisions, out>>

\* ShareAggregateState::add: an answer, on the slow path; the request ends with
\* the decision.
TaskAdds ==
  /\ Running
  /\ \E r \in Round, p \in Peers :
       LET added == Added(rand_map, "slow", r, p)
       IN /\ task[r] = "asking"
          /\ rand_map' = added.map
          /\ decisions' = decisions \union added.decided
          /\ task' = [task EXCEPT ![r] = IF added.map["slow"][r].state = "Decided" THEN "none" ELSE @]
  /\ UNCHANGED <<env, known, incoming, queue, dequeued, out, panic>>

-----------------------------------------------------------------------------
\* finalize_order sends one or two blocks; some may have been given their
\* randomness in an earlier life of the node.
Order ==
  /\ Running
  /\ \E n \in 1 .. 2 : \E decided \in SUBSET (ordered + 1 .. ordered + n) :
       /\ ordered + n <= MaxRound
       /\ ordered' = ordered + n
       /\ incoming' = Append(incoming, [rounds |-> ordered + 1 .. ordered + n, decided |-> decided])
  /\ UNCHANGED <<my_certified, rand_map, known, queue, dequeued, decisions, task, out,
                 resets, stop, panic>>

Init ==
  /\ my_certified \in BOOLEAN
  /\ rand_map = [path \in Path |-> [r \in Round |-> NewItem]]
  /\ known = 0 /\ incoming = <<>> /\ queue = {} /\ dequeued = {} /\ decisions = {}
  /\ task = [r \in Round |-> "none"]
  /\ ordered = 0 /\ out = 0 /\ resets = 0 /\ stop = FALSE /\ panic = {}

Next ==
  \/ Order \/ ProcessIncomingBlocks \/ ProcessRandomness \/ ReceiveShare
  \/ ReceiveRequestShare \/ CertifyMyData \/ ProcessReset
  \/ TaskWakes \/ TaskReads \/ TaskAdds

Spec == Init /\ [][Next]_vars

-----------------------------------------------------------------------------
(* Properties *)

\* Blocks leave the queue in the order they came, after a reset from its target
\* on, and none gets stuck: when the loop has nothing left to do and no request
\* for shares is on its way, no ordered block waits for randomness.  That is so
\* whatever shares came early, late or not at all, and whatever decisions a
\* reset left in the channel.
Quiet ==
  /\ Running /\ my_certified /\ incoming = <<>> /\ decisions = {}
  /\ \A r \in Round : task[r] = "none"
BlocksFlow == out <= MaxRound /\ "block already queued" \notin panic /\ (Quiet => queue = {})

\* "This should only be called after the block is added": the shares of a round
\* are only asked for while the round has its block.
AskedAfterBlock == "called before the block is added" \notin panic

=============================================================================
