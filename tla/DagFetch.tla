------------------------------ MODULE DagFetch ------------------------------
(***************************************************************************)
(* How a validator that has fallen behind comes back into the DAG: the     *)
(* fetch of missing ancestors (dag/dag_fetcher.rs), the decision to sync   *)
(* and the sync (dag/dag_state_sync.rs), the switches between active and   *)
(* sync mode and the bootstrap from storage (dag/bootstrap.rs), and the    *)
(* dispatch of certified nodes (dag/dag_handler.rs).                       *)
(*                                                                         *)
(* A round of the DAG is one value: held or not.  The peers hold every     *)
(* round from three windows below the highest commit up to `net.top`, and  *)
(* still broadcast the nodes of the last window of rounds.                 *)
(***************************************************************************)
EXTENDS Integers, FiniteSets, FiniteSetsExt

CONSTANTS
    Window,      \* dag_ordering_causal_history_window
    MaxRound, MaxFaults,
    Lag,         \* how far the ledger info of a peer lags behind the highest commit
    Unchecked    \* TRUE: a node that cancels a sync may carry any peer's ledger info

Round == 1 .. MaxRound

FetchAssumption == Window \in Nat \ {0} /\ Lag \in Nat

VARIABLES
    net,       \* the peers: highest round, highest commit
    dag,       \* the active store: start_round, rounds held, highest ordered anchor
    commit,    \* highest committed anchor round of the ledger info provider
    disk,      \* rounds whose nodes are in DAGStorage
    mode,      \* active, or the sync: its target round and ledger info, and how far it is
    fetches,   \* DagFetcherService: nodes waiting for ancestors, keys of failed requests
    faults,
    panicked

vars == <<net, dag, commit, disk, mode, fetches, faults, panicked>>

Active == [kind |-> "active"]

MaxOr(S, d) == Max(S \cup {d})

highest_round(d) == MaxOr(d.have, d.start)

(* The first round that has to be asked for. *)
lowest_incomplete_round(d) == IF d.have = {} THEN d.start ELSE highest_round(d) + 1

is_empty(d) == d.start > 1 /\ d.have = {}

(* The first round the peers have not collected. *)
PeerStart == MaxOr({net.commit - 3 * Window}, 1)

(* The certified node messages that can arrive: round and ledger info. *)
Messages == [round : {r \in Round : r <= net.top /\ r > net.top - Window},
             li : {c \in 0 .. net.commit : c >= net.commit - Lag}]

(* commit_callback prunes the store. *)
Pruned(d, c) ==
    LET start == MaxOr({d.start}, c - 3 * Window)
    IN [d EXCEPT !.start = start, !.have = {r \in @ : r >= start}]

------------------------------------------------------------------------------
(* StateSyncTrigger *)

FastForwards(li) == commit < li /\ dag.ordered >= li

(* Mutant: only the distance of the commits counts, and six windows of it. *)
need_sync_for_ledger_info_Far(li, d, c) == li > c /\ (is_empty(d) \/ c + 6 * Window < li)

need_sync_for_ledger_info(li, d, c) ==
    /\ li > c
    /\ \/ is_empty(d)
       \/ highest_round(d) + 1 + Window < li
       \/ c + 2 * Window < li

(* StateSyncTrigger::check (the end of the epoch apart). *)
check(m, d, c) == IF need_sync_for_ledger_info(m.li, d, c) THEN "NeedsSync" ELSE "Synced"

(* DagStateSynchronizer::build_request: the assertion and the request. *)
SyncIsDue(m) == dag.ordered < m.li \/ commit + Window < m.li

build_request(m) == [kind |-> "sync", target |-> m.round, li |-> m.li,
                     start |-> MaxOr({m.li - Window}, 0), fetched |-> FALSE]

StartSync(m) ==
    /\ mode' = build_request(m)
    /\ panicked' = (panicked \/ ~SyncIsDue(m))

------------------------------------------------------------------------------
(* Mutant: what is above a gap is loaded too. *)
LoadedFrom_Gaps(start) == {r \in disk : r >= start}

(* The store after a start: rounds a window behind the commit and above,   *)
(* as far as each has its parents; what is above a gap is deleted.         *)
LoadedFrom(start) == {r \in disk : r >= start /\ start .. r \subseteq disk}

full_bootstrap(c) ==
    LET start == MaxOr({c - Window}, 1)
    IN /\ dag' = [start |-> start, have |-> LoadedFrom(start), ordered |-> c]
       /\ disk' = LoadedFrom(start)
       /\ commit' = c
       /\ mode' = Active
       /\ fetches' = [waiting |-> {}, failed |-> {}]

Init ==
    /\ net = [top |-> 2, commit |-> 0]
    /\ dag = [start |-> 1, have |-> {1}, ordered |-> 0]
    /\ commit = 0
    /\ disk = {1}
    /\ mode = Active
    /\ fetches = [waiting |-> {}, failed |-> {}]
    /\ faults = 0
    /\ panicked = FALSE

(* The peers go on without this validator. *)
PeersAdvance ==
    \/ /\ net.top < MaxRound
       /\ net' = [net EXCEPT !.top = @ + 1]
       /\ UNCHANGED <<dag, commit, disk, mode, fetches, faults, panicked>>
    \/ /\ net.commit + 2 <= net.top
       /\ net' = [net EXCEPT !.commit = @ + 1]
       /\ UNCHANGED <<dag, commit, disk, mode, fetches, faults, panicked>>

(* process_verified_message for a certified node: the trigger first, then  *)
(* DagDriver::process, which adds the node or asks for its ancestors.      *)
ReceiveCertifiedNode(m) ==
    /\ mode = Active
    /\ UNCHANGED <<net, faults>>
    /\ \E c \in {IF FastForwards(m.li) THEN m.li ELSE commit} :
         \E d \in {Pruned(dag, c)} :
            /\ commit' = c
            /\ IF check(m, d, c) = "NeedsSync"
               THEN /\ StartSync(m)
                    /\ fetches' = [waiting |-> {}, failed |-> {}]
                    /\ dag' = d
                    /\ UNCHANGED disk
               ELSE /\ UNCHANGED <<mode, panicked>>
                    /\ IF m.round \in d.have \/ m.round < d.start
                       THEN dag' = d /\ UNCHANGED <<disk, fetches>>
                       ELSE IF m.round = 1 \/ m.round - 1 \in d.have
                       THEN /\ dag' = [d EXCEPT !.have = @ \cup {m.round}]
                            /\ disk' = disk \cup {m.round}
                            /\ UNCHANGED fetches
                       ELSE /\ fetches' = [fetches EXCEPT !.waiting = @ \cup {m.round}]
                            /\ dag' = d
                            /\ UNCHANGED disk

(* The answer of a peer to the request of a node's ancestors: it holds the *)
(* first missing round, and the nodes are added from the lowest one up;    *)
(* then the node itself is processed again.                                *)
FetchServed(r) ==
    LET first == lowest_incomplete_round(dag)
    IN /\ r \in fetches.waiting
       /\ r - 1 \notin fetches.failed
       /\ PeerStart <= first
       /\ fetches' = [fetches EXCEPT !.waiting = @ \ {r}]
       /\ dag' = [dag EXCEPT !.have = @ \cup first .. r]
       /\ disk' = disk \cup first .. r
       /\ UNCHANGED <<net, commit, mode, faults, panicked>>

(* No responder answers, or none holds the first missing round.  The       *)
(* request stays among the inflight ones, so that its failure is the       *)
(* answer to every later request with the same target and bitmap.          *)
FetchFails(r) ==
    /\ r \in fetches.waiting
    /\ fetches' = [waiting |-> fetches.waiting \ {r}, failed |-> fetches.failed \cup {r - 1}]
    /\ \/ /\ r - 1 \in fetches.failed \/ PeerStart > lowest_incomplete_round(dag)
          /\ UNCHANGED faults
       \/ faults < MaxFaults /\ faults' = faults + 1
    /\ UNCHANGED <<net, dag, commit, disk, mode, panicked>>

(* The order rule and the pipeline behind it. *)
Order ==
    /\ mode = Active
    /\ dag.ordered + 2 <= highest_round(dag)
    /\ dag' = [dag EXCEPT !.ordered = highest_round(dag) - 1]
    /\ UNCHANGED <<net, commit, disk, mode, fetches, faults, panicked>>

Commit ==
    /\ commit < dag.ordered
    /\ commit' = dag.ordered
    /\ dag' = Pruned(dag, dag.ordered)
    /\ UNCHANGED <<net, disk, mode, fetches, faults, panicked>>

(* sync_dag_to: the fetch into a store of its own, over the same storage.  *)
SyncFetched ==
    /\ mode.kind = "sync"
    /\ ~mode.fetched
    /\ PeerStart <= MaxOr({mode.start}, 1)
    /\ mode' = [mode EXCEPT !.fetched = TRUE]
    /\ disk' = disk \cup (MaxOr({mode.start}, 1) .. mode.target)
    /\ UNCHANGED <<net, dag, commit, fetches, faults, panicked>>

(* execution_client.sync_to, then a bootstrap from storage.  The pipeline  *)
(* may have committed further on its own.                                  *)
SyncDone ==
    /\ mode.kind = "sync"
    /\ mode.fetched
    /\ full_bootstrap(MaxOr({mode.li}, commit))
    /\ UNCHANGED <<net, faults, panicked>>

(* A failed fetch or sync_to resumes with the current store. *)
SyncFails ==
    /\ mode.kind = "sync"
    /\ \/ faults < MaxFaults /\ faults' = faults + 1
       \/ ~mode.fetched /\ PeerStart > MaxOr({mode.start}, 1) /\ UNCHANGED faults
    /\ mode' = Active
    /\ UNCHANGED <<net, dag, commit, disk, fetches, panicked>>

(* SyncModeMessageHandler: a node far above the target starts a new sync.  *)
CancelSync(m) ==
    /\ mode.kind = "sync"
    /\ m.round > mode.target + 2 * Window
    /\ Unchecked \/ need_sync_for_ledger_info(m.li, dag, commit)
    /\ StartSync(m)
    /\ UNCHANGED <<net, dag, commit, disk, fetches, faults>>

Restart ==
    /\ faults < MaxFaults
    /\ faults' = faults + 1
    /\ full_bootstrap(commit)
    /\ UNCHANGED <<net, panicked>>

Next ==
    \/ PeersAdvance
    \/ \E m \in Messages : ReceiveCertifiedNode(m) \/ CancelSync(m)
    \/ \E r \in Round : FetchServed(r) \/ FetchFails(r)
    \/ Order
    \/ Commit
    \/ SyncFetched
    \/ SyncDone
    \/ SyncFails
    \/ Restart

Spec == Init /\ [][Next]_vars

------------------------------------------------------------------------------
(* A validator that is behind can come back: a node still broadcast fits   *)
(* on its store, or its ancestors are held by the peers, or a peer's       *)
(* ledger info makes it sync, and the peers hold what the sync asks for    *)
(* (the two conditions of need_sync_for_ledger_info and the three windows  *)
(* the store keeps leave no gap between them).                             *)
NeverStranded ==
    LET first == lowest_incomplete_round(dag)
    IN (mode = Active /\ highest_round(dag) < net.top) =>
           \/ first > net.top - Window
           \/ PeerStart <= first
           \/ /\ need_sync_for_ledger_info(net.commit, dag, commit)
              /\ PeerStart <= MaxOr({net.commit - Window}, 1)

(* The store never has a gap, and holds the committed anchor (LoadedFrom,  *)
(* the bootstrap after a crash or a sync; the sync writes to the storage   *)
(* of the active store).                                                   *)
StoreWhole ==
    /\ dag.have = dag.start .. highest_round(dag) \/ dag.have = {}
    /\ dag.have \subseteq disk
    /\ commit > 0 => commit \in dag.have

(* A sync is only asked for when it is due (build_request, which asserts   *)
(* it; sync_dag_to "Assumes that the sync checks have been done").         *)
SyncChecked == ~panicked

FetchSound == NeverStranded /\ StoreWhole /\ SyncChecked
=============================================================================
