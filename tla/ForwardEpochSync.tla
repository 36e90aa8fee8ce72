-------------------------- MODULE ForwardEpochSync --------------------------
(* Forward epoch synchronisation between a node that is behind and the      *)
(* peers that serve it (forward_epoch_sync.rs, epoch_manager.rs): the       *)
(* server's index of an epoch, pages anchored at a block, the bounded       *)
(* service with its Busy answer, and the client that probes, pages and      *)
(* verifies.  BlockStore has what the client does with a page.              *)
(*                                                                          *)
(* The epoch's path is blocks 1..len (block 0 is its root); the first       *)
(* `numbered` of them have block numbers, their own position.  The quorum   *)
(* certificate of block i commits i - 1 where i is in `commits`.  A ledger  *)
(* info is the block it commits; the one that ends the epoch commits        *)
(* len - 1 and names `target`, the block where the epoch changes.           *)
EXTENDS Integers, FiniteSets

CONSTANTS
  Peers,
  BatchSize,            \* batch_size_blocks
  Permits,              \* FORWARD_EPOCH_SYNC_MAX_CONCURRENT_REQUESTS
  NumRetries,           \* NUM_RETRIES
  MaxLen, MaxFaults     \* bounds: the epoch's path; failed calls

VARIABLES
  path,        \* [len, numbered, target, commits]
  db,          \* peer -> the ledger infos it has stored
  index,       \* peer -> at most one cached index, as the ledger infos it was built with
  load,        \* peer -> requests of others being served
  pc,          \* where the client is
  call,        \* the client's request: the peer, the attempts made, the peers left
  ordered, committed,   \* the client's ordered and commit roots
  anchor,      \* the fetch anchor
  start,       \* the ordered root the sync started from
  lis,         \* the ledger infos the client has stored
  faults

serverVars == <<path, db, index, load>>
vars == <<path, db, index, load, pc, call, ordered, committed, anchor, start, lis, faults>>

Ends(p) == p.len - 1
MayFail == faults < MaxFaults
Fail == faults' = faults + 1

----------------------------------------------------------------------------
(* The server. *)

Least(i, j) == IF i < j THEN i ELSE j

(* The entry of block i: a certifying suffix without numbers keeps the      *)
(* number before it as its anchor.                                          *)
AnchorNumber_OwnOnly(i) == IF i <= path.numbered THEN i ELSE 0
AnchorNumber(i) == Least(i, path.numbered)

(* forward_epoch_sync_index: cached once built; there is nothing to build   *)
(* before the epoch's last ledger info is stored.  The manifest is about    *)
(* the path and that ledger info only, so it stays the same when the index  *)
(* is built again.                                                          *)
Index(peer) == IF index[peer] # {} THEN index[peer]
               ELSE IF Ends(path) \in db[peer] THEN {db[peer]} ELSE {}

(* A boundary goes with the page of the block whose certificate commits it. *)
CertifyingPosition_OfTarget(li) == li
CertifyingPosition(li) == li + 1

(* validate_forward_anchor: the position after the anchor's. *)
ValidAnchor(number, id) == id <= path.len /\ number = AnchorNumber(id)

(* select_forward_batch_end *)
BatchEnd(from) == Least(from + BatchSize, path.len)

(* fetch_forward_epoch_sync: the answers to a request at an anchor. *)
Page(snapshot, number, id) ==
  [blocks |-> (id + 1)..BatchEnd(id),
   lis |-> {li \in snapshot : CertifyingPosition(li) \in (id + 1)..BatchEnd(id)},
   next |-> [number |-> AnchorNumber(BatchEnd(id)), id |-> BatchEnd(id)]]

(* spawn_forward_epoch_sync_task: without a permit the request is refused.  *)
Busy(peer) == load[peer] >= Permits

(* Other clients come and go. *)
Load(peer) ==
  /\ \E n \in 0..Permits : n # load[peer] /\ load' = [load EXCEPT ![peer] = n]
  /\ UNCHANGED <<path, db, index, pc, call, ordered, committed, anchor, start, lis, faults>>

(* The peer commits more of the epoch itself. *)
StoreLedgerInfo(peer) ==
  /\ \E i \in path.commits : i - 1 \notin db[peer] /\ db' = [db EXCEPT ![peer] = @ \union {i - 1}]
  /\ UNCHANGED <<path, index, load, pc, call, ordered, committed, anchor, start, lis, faults>>

(* The peer restarts, or serves another epoch in between: its index goes. *)
ClearIndex(peer) ==
  /\ index[peer] # {}
  /\ index' = [index EXCEPT ![peer] = {}]
  /\ UNCHANGED <<path, db, load, pc, call, ordered, committed, anchor, start, lis, faults>>

----------------------------------------------------------------------------
(* The client's calls. *)

Unchanged == UNCHANGED <<path, db, load, start>>

(* request_forward_epoch_sync: two attempts, at different peers; then, and  *)
(* on a peer's error, the legacy sync takes over.                           *)
PrepareAgain ==
  IF call.attempt >= 2 \/ call.left = {}
  THEN pc' = "legacy" /\ UNCHANGED call
  ELSE /\ \E q \in call.left : call' = [peer |-> q, attempt |-> call.attempt + 1, left |-> call.left \ {q}]
       /\ pc' = "prepare"

PrepareFails ==
  /\ pc = "prepare"
  /\ \/ Busy(call.peer) /\ UNCHANGED faults
     \/ MayFail /\ Fail
  /\ PrepareAgain
  /\ UNCHANGED <<index, ordered, committed, anchor, lis>> /\ Unchanged

(* The target is committed already: the epoch change is announced again.    *)
TargetCommitted == committed >= path.target

(* forward_epoch_sync_commit_proof_target_is_ordered *)
ProofTargetOrdered == ordered >= Ends(path)

(* try_prepare_forward_epoch_sync on an answer, and the first choices of    *)
(* fast_forward_sync_by_epoch_forward.                                      *)
Prepared ==
  /\ pc = "prepare" /\ ~ Busy(call.peer)
  /\ \E snapshots \in {Index(call.peer)} :
       /\ index' = [index EXCEPT ![call.peer] = snapshots]
       /\ IF snapshots = {} \/ ~ ValidAnchor(anchor.number, anchor.id)
          THEN pc' = "legacy" /\ UNCHANGED <<lis, call>>
          ELSE /\ call' = [call EXCEPT !.attempt = 1]
               /\ IF TargetCommitted THEN pc' = "done" /\ UNCHANGED lis
                  ELSE IF ProofTargetOrdered
                  THEN pc' = "wait" /\ lis' = lis \union {Ends(path)}
                  ELSE pc' = "fetch" /\ UNCHANGED lis
  /\ UNCHANGED <<ordered, committed, anchor, faults>> /\ Unchanged

(* request_forward_epoch_sync_from_peer: the same peer, NUM_RETRIES times. *)
FetchFails ==
  /\ pc = "fetch" /\ MayFail /\ Fail
  /\ IF call.attempt >= NumRetries THEN pc' = "failed" /\ UNCHANGED call
     ELSE call' = [call EXCEPT !.attempt = @ + 1] /\ UNCHANGED pc
  /\ UNCHANGED <<index, ordered, committed, anchor, lis>> /\ Unchanged

(* verify_forward_epoch_sync_batch *)
verify_forward_epoch_sync_batch(page) ==
  LET numbers == {i \in page.blocks : i <= path.numbered}
      tail == CHOOSE i \in page.blocks : \A j \in page.blocks : j <= i
      number == IF numbers = {} THEN anchor.number ELSE CHOOSE i \in numbers : \A j \in numbers : j <= i
  IN /\ page.blocks # {} /\ Cardinality(page.blocks) <= BatchSize
     \* the blocks are chained to the anchor, and so are their numbers
     /\ \A i \in page.blocks : i = anchor.id + 1 \/ i - 1 \in page.blocks
     /\ \A i \in numbers : i = anchor.number + 1 \/ i - 1 \in numbers
     /\ page.next = [number |-> number, id |-> tail]
     /\ \A li \in page.lis : \E i \in page.blocks : i \in path.commits /\ i - 1 = li

(* ensure_forward_epoch_sync_target_fetched *)
TargetFetched == ordered >= path.target /\ ordered >= Ends(path)

(* fetch_forward_epoch_sync_batch and the rest of the loop's turn.  At the  *)
(* end of the path the decision that ends the epoch is submitted again.     *)
Fetched ==
  /\ pc = "fetch"
  /\ IF Busy(call.peer)
     THEN /\ IF call.attempt >= NumRetries THEN pc' = "failed" /\ UNCHANGED call
             ELSE call' = [call EXCEPT !.attempt = @ + 1] /\ UNCHANGED pc
          /\ UNCHANGED <<index, ordered, anchor, lis>>
     ELSE /\ index' = [index EXCEPT ![call.peer] = Index(call.peer)]
          /\ IF ~ ValidAnchor(anchor.number, anchor.id)
             THEN pc' = "rejected" /\ UNCHANGED <<call, ordered, anchor, lis>>
             ELSE IF anchor.id >= path.len
             THEN /\ IF TargetCommitted THEN pc' = "done" /\ UNCHANGED lis
                     ELSE IF TargetFetched
                     THEN pc' = "wait" /\ lis' = lis \union {Ends(path)}
                     ELSE pc' = "rejected" /\ UNCHANGED lis
                  /\ UNCHANGED <<call, ordered, anchor>>
             ELSE \E snapshot \in Index(call.peer) :
                  \E page \in {Page(snapshot, anchor.number, anchor.id)} :
                    IF ~ verify_forward_epoch_sync_batch(page)
                    THEN pc' = "rejected" /\ UNCHANGED <<call, ordered, anchor, lis>>
                    ELSE /\ ordered' = page.next.id
                         /\ anchor' = page.next
                         /\ lis' = lis \union page.lis
                         /\ call' = [call EXCEPT !.attempt = 1]
                         /\ pc' = IF TargetCommitted THEN "done" ELSE "fetch"
  /\ UNCHANGED <<committed, faults>> /\ Unchanged

(* The pipeline commits up to a stored ledger info; the one that ends the   *)
(* epoch commits up to the epoch's target.                                  *)
CommitsTo(li) == IF li = Ends(path) THEN Least(li, path.target) ELSE li

CommitBlocks ==
  /\ \E li \in lis : li <= ordered /\ CommitsTo(li) > committed /\ committed' = CommitsTo(li)
  /\ UNCHANGED <<index, pc, call, ordered, anchor, lis, faults>> /\ Unchanged

(* wait_for_forward_epoch_sync_target: a bounded wait. *)
WaitTarget ==
  /\ pc = "wait"
  /\ \/ TargetCommitted /\ pc' = "done" /\ UNCHANGED faults
     \/ ~ TargetCommitted /\ MayFail /\ Fail /\ pc' = "legacy"
  /\ UNCHANGED <<index, call, ordered, committed, anchor, lis>> /\ Unchanged

----------------------------------------------------------------------------
(* The path of an epoch that has ended: its last certificate commits the    *)
(* block before, which follows or is the target.                            *)
Paths ==
  UNION {{[len |-> n, numbered |-> k, target |-> t, commits |-> c \union {n}] :
             k \in {n - 1, n}, t \in {n - 2, n - 1} \ {0}, c \in SUBSET (2..(n - 1))} : n \in 2..MaxLen}

Init ==
  /\ path \in {p \in Paths : p.target <= p.numbered}
  /\ db \in [Peers -> {{}, {Ends(path)}}]
  /\ index = [p \in Peers |-> {}]
  /\ load = [p \in Peers |-> 0]
  /\ \E root \in 0..path.numbered, p \in Peers :
       /\ ordered = root /\ start = root
       /\ anchor = [number |-> root, id |-> root]
       /\ call = [peer |-> p, attempt |-> 1, left |-> Peers \ {p}]
  /\ committed \in {c \in {0, 1} : c <= ordered}
  /\ pc = "prepare" /\ lis = {} /\ faults = 0

Next ==
  \/ PrepareFails \/ Prepared \/ FetchFails \/ Fetched \/ CommitBlocks \/ WaitTarget
  \/ \E p \in Peers : Load(p) \/ StoreLedgerInfo(p) \/ ClearIndex(p)

Spec == Init /\ [][Next]_vars

(* What an honest server pages out, whatever the shape of the epoch's path, *)
(* the ledger infos it has, and however often its index is rebuilt between  *)
(* two pages, the client accepts, and the pages leave no gap: a client at   *)
(* its end holds every block of the path up to the target's certificate and *)
(* the ledger info that ends the epoch, and reports success only once the   *)
(* target is committed.                                                     *)
SyncSound ==
  /\ pc # "rejected"
  /\ ordered = anchor.id
  /\ pc = "done" => committed >= path.target
  /\ pc = "wait" => TargetFetched /\ Ends(path) \in lis
  /\ pc \in {"fetch", "wait", "done"} /\ ordered >= path.len /\ start < path.len => Ends(path) \in lis

=============================================================================
