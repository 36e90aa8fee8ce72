------------------------------ MODULE DagOrder ------------------------------
(***************************************************************************)
(* The local DAG of one validator and the rule that turns it into blocks:  *)
(* dag/dag_store.rs, dag/order_rule.rs, the weak votes of                  *)
(* dag/rb_handler.rs, the notifier and the storage of dag/adapter.rs, the  *)
(* anchor elections, and the bootstrap of dag/bootstrap.rs after a crash.  *)
(*                                                                         *)
(* A node is a pair <<round, author>>: two certificates for one pair would *)
(* need a validator that signs twice (DagDriver).  What a node links to is *)
(* fixed by `shape`, picked in Init: in every round one author's node is   *)
(* late, and the authors `by` of the next round do not link it.            *)
(***************************************************************************)
EXTENDS Integers, Sequences, FiniteSets, FiniteSetsExt, SequencesExt

CONSTANTS
    Validators,  \* the sequence of authors, in the order of their indices
    Faulty,      \* authors that may show this validator another node than the certified one
    Window,      \* dag_ordering_causal_history_window
    Events,      \* number of commit events the reputation looks at
    Reputation,  \* TRUE: AnchorElectionMode::LeaderReputation, FALSE: RoundRobin
    Shapes       \* the scenarios to explore: the late nodes of the DAG, the rounds whose
                 \* proposals reach this validator, and how often it may crash

Author == Range(Validators)
N == Len(Validators)
Quorum == (2 * N) \div 3 + 1
OneHonest == N - Quorum + 1

DagAssumption == /\ Window \in Nat \ {0}
                 /\ Cardinality(Faulty) < OneHonest
                 /\ \A s \in Shapes : \A r \in DOMAIN s.late : s.late[r].node \in Author

VARIABLES
    shape,     \* the DAG the validators build
    dag,       \* InMemDag: start_round, nodes with their status, the node being added
    rule,      \* OrderRule: lowest_unordered_anchor_round, the reputation's window;
               \* and whether a fetch completed since the last process_all
    log,       \* the blocks sent to execution since genesis
    disk,      \* certified nodes, votes and the number of committed blocks
    pool,      \* every certified node that reached this validator
    restarts

vars == <<shape, dag, rule, log, disk, pool, restarts>>

------------------------------------------------------------------------------
(* Nodes and links.                                                        *)

MaxRound == Len(shape.late) + 1
Node == (1 .. MaxRound) \X Author

(* The nodes of the previous round; the late one may be left out. *)
LinksTo(r, authors) == {r - 1} \X authors

Links(n) == IF n[1] = 1 THEN {}
            ELSE LET s == shape.late[n[1] - 1]
                 IN LinksTo(n[1], IF n[2] \in s.by THEN Author \ {s.node} ELSE Author)

(* What the author may have shown in its proposal. *)
Shown(n) == IF n[1] > 1 /\ n[2] \in Faulty
            THEN {LinksTo(n[1], Author), LinksTo(n[1], Author \ {shape.late[n[1] - 1].node})}
            ELSE {Links(n)}

------------------------------------------------------------------------------
(* InMemDag: a record d with the start round, the nodes of the store,      *)
(* those of them that are ordered, the weak votes counted since the start  *)
(* of the process, and the node whose slot is reserved while it is written *)
(* to disk.  The strong votes of a node are its children in the store.     *)

highest_round(d) == Max({d.start} \cup {n[1] : n \in d.nodes \cup {a.node : a \in d.adding}})

validate_new_node(d, n) ==
    /\ n \notin d.nodes
    /\ n[1] >= d.start
    /\ n[1] <= highest_round(d) + 1
    /\ n[1] > d.start => Links(n) \subseteq d.nodes

add_validated_node(d, n) == IF n[1] < d.start THEN d ELSE [d EXCEPT !.nodes = @ \cup {n}]

(* update_votes for a proposal. *)
update_votes(d, n, links) ==
    IF n[1] <= d.start THEN d ELSE [d EXCEPT !.weak = @ \cup {<<n, links>>}]

(* Mutant: a weak vote counts like a strong one. *)
check_votes_for_node_Weak(d, n) ==
    /\ n \in d.nodes
    /\ \/ n \in d.ordered
       \/ Cardinality({v \in d.weak : n \in v[2]}) >= OneHonest
       \/ Cardinality({m \in d.nodes : n \in Links(m)}) >= OneHonest

check_votes_for_node(d, n) ==
    /\ n \in d.nodes
    /\ \/ n \in d.ordered
       \/ Cardinality({v \in d.weak : n \in v[2]}) >= Quorum
       \/ Cardinality({m \in d.nodes : n \in Links(m)}) >= OneHonest

(* The nodes reachable from a node down to round `until`, through nodes    *)
(* that are not ordered yet.                                               *)
RECURSIVE Below(_, _, _)
Below(d, layer, until) ==
    IF layer = {} \/ \E n \in layer : n[1] <= until THEN layer
    ELSE LET links == UNION {Links(n) : n \in layer}
         IN layer \cup Below(d, (links \cap d.nodes) \ d.ordered, until)

reachable(d, from, until) == Below(d, {from}, until)

mark_as_ordered(d, nodes) == [d EXCEPT !.ordered = @ \cup nodes]

(* commit_callback and prune: three windows behind the commit are kept. *)
commit_callback(d, round) ==
    LET start == Max({d.start, round - 3 * Window})
    IN [start   |-> start,
        nodes   |-> {n \in d.nodes : n[1] >= start},
        ordered |-> {n \in d.ordered : n[1] >= start},
        weak    |-> {v \in d.weak : v[1][1] > start},
        adding  |-> d.adding]

(* DagStore::new: the nodes on disk, lowest round first; a node whose      *)
(* parents did not come back is dropped.                                   *)
RECURSIVE LoadFrom(_, _, _, _)
LoadFrom(nodes, start, r, loaded) ==
    LET layer == {n \in nodes : n[1] = r /\ (r > start => Links(n) \subseteq loaded)}
    IN IF r > start + 1 /\ ~\E n \in loaded : n[1] = r - 1 THEN loaded
       ELSE IF r = MaxRound THEN loaded \cup layer
       ELSE LoadFrom(nodes, start, r + 1, loaded \cup layer)

DagStoreNew(nodes, start) ==
    [start |-> start, nodes |-> LoadFrom(nodes, start, start, {}),
     ordered |-> {}, weak |-> {}, adding |-> {}]

------------------------------------------------------------------------------
(* AnchorElection.  RoundRobin turns every second round.  LeaderReputation *)
(* draws from the round and its window of commit events, and from nothing  *)
(* else; the draw here skips ahead with every failed anchor of the window. *)

RECURSIVE SumFailed(_)
SumFailed(window) == IF window = <<>> THEN 0
                     ELSE Cardinality(Head(window).failed) + SumFailed(Tail(window))

get_anchor(window, r) ==
    LET turn == (r \div 2) + (IF Reputation THEN SumFailed(window) ELSE 0)
    IN <<r, Validators[(turn % N) + 1]>>

(* MetadataBackendAdapter::push on a bounded deque. *)
update_reputation(window, event) ==
    IF Reputation THEN SubSeq(<<event>> \o window, 1, Min({Len(window) + 1, Events}))
    ELSE window

------------------------------------------------------------------------------
(* OrderRule, on a record s = [dag, lowest, window, log].                  *)

check_parity(r1, r2) == (r1 - r2) % 2 = 0

(* The rounds of the anchors between `start` and `target` with enough votes. *)
WithEnoughVotes(s, start, target) ==
    {r \in start .. target - 1 : /\ check_parity(r, start)
                                 /\ check_votes_for_node(s.dag, get_anchor(s.window, r))}

(* Mutant: the anchor with the votes is ordered at once. *)
find_first_anchor_to_order_Direct(s, direct) == direct

find_first_anchor_to_order(s, direct) ==
    LET Linked(r) == LET seen == reachable(s.dag, get_anchor(s.window, r), s.lowest)
                     IN {q \in s.lowest .. r - 1 : /\ check_parity(q, direct)
                                                   /\ get_anchor(s.window, q) \in seen}
        First[r \in s.lowest .. direct] ==
            IF Linked(r) = {} THEN r ELSE First[Max(Linked(r))]
    IN First[direct]

finalize_order(s, r) ==
    LET anchor == get_anchor(s.window, r)
        low    == Max({0, r - Window})
        from   == Max({s.lowest, IF check_parity(low, r) THEN low ELSE low + 1})
        nodes  == reachable(s.dag, anchor, low)
        failed == {get_anchor(s.window, q) : q \in {q \in from .. r - 1 : check_parity(q, r)}}
        block  == [anchor |-> anchor, nodes |-> nodes, failed |-> failed]
    IN [dag    |-> mark_as_ordered(s.dag, nodes),
        lowest |-> r + 1,
        window |-> update_reputation(s.window, block),
        log    |-> Append(s.log, block)]

RECURSIVE check_ordering_between(_, _, _)
check_ordering_between(s, start, round) ==
    LET direct == WithEnoughVotes(s, start, round)
    IN IF direct = {} THEN s
       ELSE LET t == finalize_order(s, find_first_anchor_to_order(s, Min(direct)))
            IN check_ordering_between(t, t.lowest, round)

process_new_node(s, n) ==
    IF n[1] <= s.lowest \/ check_parity(n[1], s.lowest) THEN s
    ELSE check_ordering_between(s, n[1] - 1, n[1])

process_all(s) == check_ordering_between(s, s.lowest, highest_round(s.dag))

(* OrderRule::new: the nodes of the committed anchors are marked from the  *)
(* commit events, where the election keeps some.                           *)
RECURSIVE Replay(_, _)
Replay(s, events) ==
    IF events = <<>> THEN s
    ELSE LET e == Head(events)
             d == IF e.anchor \in s.dag.nodes
                  THEN mark_as_ordered(s.dag, reachable(s.dag, e.anchor, s.dag.start))
                  ELSE s.dag
         IN Replay([s EXCEPT !.dag = d, !.window = update_reputation(@, e)], Tail(events))

(* StorageAdapter::get_latest_k_committed_events, oldest first. *)
CommitEvents(blocks) ==
    IF Reputation THEN SubSeq(blocks, Max({1, Len(blocks) - Events + 1}), Len(blocks))
    ELSE <<>>

CommitRound(blocks) == IF blocks = <<>> THEN 0 ELSE Last(blocks).anchor[1]

(* bootstrap_dag_store. *)
bootstrap_dag_store(nodes, committed) ==
    LET start == Max({1, CommitRound(committed) - Window})
        s     == [dag |-> DagStoreNew(nodes, start), lowest |-> CommitRound(committed) + 1,
                  window |-> <<>>, log |-> committed]
    IN process_all(Replay(s, CommitEvents(committed)))

------------------------------------------------------------------------------
State == [dag |-> dag, lowest |-> rule.lowest, window |-> rule.window, log |-> log]

Become(s) == /\ dag' = s.dag
             /\ rule' = [rule EXCEPT !.lowest = s.lowest, !.window = s.window]
             /\ log' = s.log

(* The first round is complete. *)
Init ==
    /\ shape \in Shapes
    /\ dag = DagStoreNew({1} \X Author, 1)
    /\ rule = [lowest |-> 1, window |-> <<>>, fetched |-> FALSE]
    /\ log = <<>>
    /\ disk = [nodes |-> {1} \X Author, votes |-> {}, committed |-> 0]
    /\ pool = {1} \X Author
    /\ restarts = 0

(* DagDriver::process (`driver`) and DagFetcher::fetch: the first half of  *)
(* DagStore::add_node, up to the write.                                    *)
SaveNode(n, driver) ==
    /\ dag.adding = {}
    /\ validate_new_node(dag, n)
    /\ driver => Links(n) \subseteq dag.nodes
    /\ dag' = [dag EXCEPT !.adding = {[node |-> n, driver |-> driver]}]
    /\ disk' = [disk EXCEPT !.nodes = @ \cup {n}]
    /\ pool' = pool \cup {n}
    /\ UNCHANGED <<shape, rule, log, restarts>>

(* The second half, and the ordering the driver asks for. *)
AddNode ==
    /\ \E a \in dag.adding :
         LET d == add_validated_node([dag EXCEPT !.adding = {}], a.node)
             s == [State EXCEPT !.dag = d]
             t == IF a.driver THEN process_new_node(s, a.node) ELSE s
         IN /\ dag' = t.dag
            /\ rule' = [lowest |-> t.lowest, window |-> t.window,
                        fetched |-> rule.fetched \/ ~a.driver]
            /\ log' = t.log
    /\ UNCHANGED <<shape, disk, pool, restarts>>

(* DagDriver::fetch_callback, once a fetch has completed. *)
FetchCallback ==
    /\ rule.fetched
    /\ \E s \in {process_all(State)} :
         /\ dag' = s.dag
         /\ rule' = [lowest |-> s.lowest, window |-> s.window, fetched |-> FALSE]
         /\ log' = s.log
    /\ UNCHANGED <<shape, disk, pool, restarts>>

(* NodeBroadcastHandler::process: a vote is a weak link. *)
VoteFor(n, links) ==
    /\ n[1] \in shape.votes
    /\ n \notin disk.votes
    /\ n[1] >= dag.start
    /\ n[1] > dag.start => links \subseteq dag.nodes
    /\ disk' = [disk EXCEPT !.votes = @ \cup {n}]
    /\ \E s \in {[State EXCEPT !.dag = update_votes(dag, n, links)]} :
         Become(process_new_node(s, n))
    /\ UNCHANGED <<shape, pool, restarts>>

(* Execution commits up to block i; the callback prunes the DAG. *)
Commit(i) ==
    /\ disk' = [disk EXCEPT !.committed = i,
                            !.nodes = @ \ {n \in dag.nodes :
                                n[1] < commit_callback(dag, log[i].anchor[1]).start}]
    /\ dag' = commit_callback(dag, log[i].anchor[1])
    /\ UNCHANGED <<shape, rule, log, pool, restarts>>

(* A crash, and full_bootstrap on what the disk holds. *)
Restart ==
    /\ restarts < shape.restarts
    /\ restarts' = restarts + 1
    /\ \E s \in {bootstrap_dag_store(disk.nodes, SubSeq(log, 1, disk.committed))} :
         /\ dag' = s.dag
         /\ rule' = [lowest |-> s.lowest, window |-> s.window, fetched |-> FALSE]
         /\ log' = s.log
         /\ disk' = [disk EXCEPT !.nodes = s.dag.nodes]
    /\ UNCHANGED <<shape, pool>>

Next ==
    \/ \E n \in Node, driver \in BOOLEAN : SaveNode(n, driver)
    \/ AddNode
    \/ FetchCallback
    \/ \E n \in Node : \E links \in Shown(n) : VoteFor(n, links)
    \/ \E i \in disk.committed + 1 .. Len(log) : Commit(i)
    \/ Restart

Spec == Init /\ [][Next]_vars

------------------------------------------------------------------------------
(* What the whole pool gives when it is ordered in one go. *)
Reference ==
    process_all([dag |-> [start |-> 1, nodes |-> pool, ordered |-> {}, weak |-> {}, adding |-> {}],
                 lowest |-> 1, window |-> <<>>, log |-> <<>>]).log

(* All validators order the same blocks (order_rule.rs, and what its       *)
(* proptest asserts of `process_all`): whatever the order in which nodes,  *)
(* proposals, fetched nodes, commits and restarts reach this validator,    *)
(* the blocks it sent are a prefix of what the nodes it knows of give from *)
(* scratch, or the other way round where proposals let it run ahead.       *)
OrderAgreed == log = <<>> \/ LET ref == Reference IN IsPrefix(log, ref) \/ IsPrefix(ref, log)

(* What the store must keep for that: a node above the start round has its *)
(* parents (the `unreachable!` of update_votes), no ordered node is at or  *)
(* above the lowest unordered anchor round (the `I "think" it's            *)
(* impossible` of find_first_anchor_with_enough_votes), and no node is in  *)
(* two blocks.                                                             *)
StoreSound ==
    /\ \A n \in dag.nodes : n[1] > dag.start => Links(n) \subseteq dag.nodes
    /\ \A n \in dag.ordered : n[1] < rule.lowest
    /\ \A i, j \in DOMAIN log : i # j => log[i].nodes \cap log[j].nodes = {}

DagOrderSound == OrderAgreed /\ StoreSound
=============================================================================
