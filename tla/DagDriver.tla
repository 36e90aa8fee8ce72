------------------------------ MODULE DagDriver -----------------------------
(***************************************************************************)
(* How one validator takes part in building the DAG: the rounds it enters  *)
(* and the nodes it makes (dag/dag_driver.rs, dag/round_state.rs), the     *)
(* votes it gives (dag/rb_handler.rs), the certificates it collects        *)
(* (dag/types.rs), and how all of it resumes after a crash or after a      *)
(* failed sync (dag/bootstrap.rs).                                         *)
(*                                                                         *)
(* The store is the number of certified nodes per round (who links whom is *)
(* the matter of DagOrder).  One peer may propose several versions of its  *)
(* node.                                                                   *)
(***************************************************************************)
EXTENDS Integers, Sequences, FiniteSets, FiniteSetsExt, SequencesExt

CONSTANTS
    N,           \* number of validators
    Window,      \* dag_ordering_causal_history_window
    BaseRound,   \* the rounds that are complete when the exploration starts
    MaxRound, MaxRestarts,  \* bounds
    VoteRounds,  \* the rounds the equivocating peer proposes in
    Racing       \* TRUE: votes are garbage collected while a vote is being cast

Quorum == (2 * N) \div 3 + 1
Round == 1 .. MaxRound
Version == {1, 2}

DriverAssumption == /\ Window \in Nat \ {0}
                    /\ BaseRound \in 2 .. MaxRound
                    /\ VoteRounds \subseteq Round

VARIABLES
    dag,       \* InMemDag: start_round and, per round, [others, own] nodes
    driver,    \* DagDriver and RoundState: current_round, the responsive check, the
               \* events and timers of new rounds, the round being entered, broadcasts
    votes,     \* votes_by_round_peer, and the votes being cast
    disk,      \* votes, pending node, committed anchor round
    restarts,
    signed,    \* every <<round, version>> of the peer this validator ever signed
    made,      \* every <<round, version>> this validator ever broadcast
    panicked   \* an expect or assert failed

vars == <<dag, driver, votes, disk, restarts, signed, made, panicked>>

------------------------------------------------------------------------------
(* InMemDag *)

Power(d, r) == d.nodes[r].others + (IF d.nodes[r].own THEN 1 ELSE 0)

highest_round(d) == Max({d.start} \cup {r \in Round : Power(d, r) > 0})

StrongLinks(d, r) == r \in Round /\ Power(d, r) >= Quorum

highest_strong_links_round(d) ==
    LET h == highest_round(d) IN IF StrongLinks(d, h) THEN h ELSE h - 1

is_empty(d) == d.start > 1 /\ \A r \in Round : Power(d, r) = 0

Forget(d, start) ==
    [start |-> start,
     nodes |-> [r \in Round |-> IF r < start THEN [others |-> 0, own |-> FALSE] ELSE d.nodes[r]]]

commit_callback(d, round) == Forget(d, Max({d.start, round - 3 * Window}))

------------------------------------------------------------------------------
(* RoundState, on the record v of the driver. *)

Send(v, r) == [v EXCEPT !.events = Append(@, r)]

(* Mutant: no timer when the round is not complete. *)
responsive_check_Untimed(v, d, r, wait) ==
    IF v.check # "Sent" /\ Power(d, r) = N /\ ~wait
    THEN [Send(v, r + 1) EXCEPT !.check = "Sent"]
    ELSE v

(* AdaptiveResponsive: `wait` is a health backoff that has not run out.    *)
responsive_check(v, d, r, wait) ==
    IF v.check = "Sent" THEN v
    ELSE IF Power(d, r) = N /\ ~wait
         THEN [Send(v, r + 1) EXCEPT !.check = "Sent", !.timers = @ \ {r + 1}]
    ELSE IF v.check = "Initial"
         THEN [v EXCEPT !.check = "Scheduled", !.timers = @ \cup {r + 1}]
    ELSE v

check_new_round(v, d, wait) ==
    LET r == highest_strong_links_round(d)
    IN IF v.round < r THEN Send(v, r + 1)
       ELSE IF v.round = r THEN responsive_check(v, d, r, wait)
       ELSE v

(* set_current_round resets the check; a timer that was set keeps running. *)
set_current_round(v, r) == [v EXCEPT !.round = r, !.check = "Initial"]

(* enter_new_round up to the pull of the payload. *)
enter_new_round(v, d, r) ==
    IF v.round >= r THEN v
    ELSE IF r <= highest_strong_links_round(d) THEN set_current_round(v, r)
    ELSE [set_current_round(v, r) EXCEPT !.entering = {r}]

(* broadcast_node: the bounded deque of handles aborts the oldest. *)
broadcast_node(v, n) ==
    LET all == Append(v.sending, [node |-> n, votes |-> 0, certified |-> FALSE])
    IN [v EXCEPT !.sending = IF Len(all) > Window THEN Tail(all) ELSE all]

(* Mutant: the saved node of an unfinished round is not resumed. *)
DriverNew_Fresh(d, pending) ==
    LET v == [round |-> 0, check |-> "Initial", events |-> <<>>, timers |-> {},
              entering |-> {}, sending |-> <<>>]
    IN IF is_empty(d) THEN v ELSE enter_new_round(v, d, highest_strong_links_round(d) + 1)

(* DagDriver::new. *)
DriverNew(d, pending) ==
    LET r == highest_strong_links_round(d) + 1
        v == [round |-> 0, check |-> "Initial", events |-> <<>>, timers |-> {},
              entering |-> {}, sending |-> <<>>]
    IN IF \E n \in pending : n[1] = r
       THEN broadcast_node(set_current_round(v, r), CHOOSE n \in pending : TRUE)
       ELSE IF is_empty(d) THEN v
       ELSE enter_new_round(v, d, r)

(* `Only expect empty strong links for round 1`. *)
LinksMissing(v, d) == \E r \in v.entering : r # 1 /\ ~StrongLinks(d, r - 1)

------------------------------------------------------------------------------
Init ==
    /\ dag = [start |-> 1, nodes |-> [r \in Round |->
                 [others |-> IF r <= BaseRound THEN N - 1 ELSE 0, own |-> r <= BaseRound]]]
    /\ driver = [round |-> BaseRound, check |-> "Sent", events |-> <<BaseRound + 1>>,
                 timers |-> {}, entering |-> {}, sending |-> <<>>]
    /\ votes = [known |-> {}, casting |-> {}, orphan |-> {}]
    /\ disk = [votes |-> {}, pending |-> {<<BaseRound, 1>>}, committed |-> BaseRound - 1]
    /\ restarts = 0
    /\ signed = {}
    /\ made = {<<BaseRound, 1>>}
    /\ panicked = FALSE

(* DagDriver::process for a certified node that is not in the store. *)
AddNode(r, own) ==
    /\ r >= dag.start
    /\ r = 1 \/ StrongLinks(dag, r - 1)
    /\ IF own THEN ~dag.nodes[r].own ELSE dag.nodes[r].others < N - 1
    /\ \E d \in {[dag EXCEPT !.nodes[r] = IF own THEN [@ EXCEPT !.own = TRUE]
                                          ELSE [@ EXCEPT !.others = @ + 1]]},
          wait \in BOOLEAN :
         /\ dag' = d
         /\ driver' = check_new_round(driver, d, wait)
    /\ UNCHANGED <<votes, disk, restarts, signed, made, panicked>>

(* The own certified node comes back through the broadcast to all. *)
OwnNodeDelivered ==
    \E i \in DOMAIN driver.sending :
        /\ driver.sending[i].certified
        /\ AddNode(driver.sending[i].node[1], TRUE)

(* Bound: the peers stop before MaxRound. *)
PeerNodeDelivered == \E r \in 1 .. MaxRound - 1 : AddNode(r, FALSE)

(* SignatureBuilder::add: the certificate is sent once a quorum signed. *)
VoteReceived(i) ==
    /\ driver.sending[i].votes < Quorum
    /\ driver' = [driver EXCEPT !.sending[i] =
                     [@ EXCEPT !.votes = @ + 1, !.certified = (driver.sending[i].votes + 1 = Quorum)]]
    /\ UNCHANGED <<dag, votes, disk, restarts, signed, made, panicked>>

TimerFires(r) ==
    /\ r \in driver.timers
    /\ driver' = [Send(driver, r) EXCEPT !.timers = @ \ {r}]
    /\ UNCHANGED <<dag, votes, disk, restarts, signed, made, panicked>>

(* NodeBroadcastHandler::gc, on disk and in memory; the entry of a vote    *)
(* that is being cast may go with its round.                               *)
Kept(vs) == {x \in vs : x[1] >= dag.start}
gc(t) == [t EXCEPT !.known = Kept(@), !.orphan = @ \cup (t.casting \ Kept(t.casting))]

(* The task that takes the new round events: a round that is not entered   *)
(* ends with the collection of old votes.                                  *)
NewRoundEvent ==
    /\ driver.entering = {}
    /\ driver.events # <<>>
    /\ \E v \in {enter_new_round([driver EXCEPT !.events = Tail(@)], dag, Head(driver.events))} :
         /\ driver' = v
         /\ panicked' = (panicked \/ LinksMissing(v, dag))
         /\ votes' = IF v.entering = {} THEN gc(votes) ELSE votes
         /\ disk' = IF v.entering = {} THEN [disk EXCEPT !.votes = Kept(@)] ELSE disk
    /\ UNCHANGED <<dag, restarts, signed, made>>

(* The payload is there: the node is made, saved and broadcast. *)
PayloadPulled ==
    \E r \in driver.entering :
        \E n \in {<<r, Cardinality({m \in made : m[1] = r}) + 1>>} :
            /\ driver' = [broadcast_node(driver, n) EXCEPT !.entering = {}]
            /\ disk' = [disk EXCEPT !.pending = {n}, !.votes = Kept(@)]
            /\ votes' = gc(votes)
            /\ made' = made \cup {n}
            /\ UNCHANGED <<dag, restarts, signed, panicked>>

(* NodeBroadcastHandler::process up to the look at the earlier votes: a    *)
(* vote that was given before is given again.                              *)
StartVote(x) ==
    /\ ~\E y \in votes.casting : y[1] = x[1]
    /\ x[1] >= dag.start
    /\ x[1] > dag.start => StrongLinks(dag, x[1] - 1)
    /\ ~\E y \in votes.known : y[1] = x[1]
    /\ votes' = [votes EXCEPT !.casting = @ \cup {x}]
    /\ UNCHANGED <<dag, driver, disk, restarts, signed, made, panicked>>

(* Mutant: the vote is kept in memory only. *)
CastVote_Unsaved(x) ==
    /\ x \in votes.casting
    /\ signed' = signed \cup {x}
    /\ votes' = [votes EXCEPT !.casting = @ \ {x}, !.known = @ \cup {x}]
    /\ UNCHANGED <<dag, driver, disk, restarts, made, panicked>>

(* The vote is signed, saved, and entered in the map of its round, which   *)
(* must still be there.                                                    *)
CastVote(x) ==
    /\ x \in votes.casting
    /\ signed' = signed \cup {x}
    /\ disk' = [disk EXCEPT !.votes = @ \cup {x}]
    /\ votes' = [votes EXCEPT !.casting = @ \ {x}, !.known = @ \cup {x}]
    /\ panicked' = (panicked \/ x \in votes.orphan)
    /\ UNCHANGED <<dag, driver, restarts, made>>

(* The callback of a committed block.  Without races no vote is being cast *)
(* in a round that is forgotten.                                           *)
Commit(r) ==
    /\ \E d \in {commit_callback(dag, r)} :
         /\ Racing \/ \A x \in votes.casting : x[1] >= d.start
         /\ dag' = d
    /\ disk' = [disk EXCEPT !.committed = r]
    /\ UNCHANGED <<driver, votes, restarts, signed, made, panicked>>

(* bootstrap_components: driver and handler start from the disk. *)
bootstrap_components(d) ==
    \E v \in {DriverNew(d, disk.pending)} :
        /\ dag' = d
        /\ driver' = v
        /\ panicked' = (panicked \/ LinksMissing(v, d))
        /\ votes' = [known |-> disk.votes, casting |-> {}, orphan |-> {}]
        /\ UNCHANGED <<disk, signed, made>>

(* A crash and full_bootstrap: the store starts a window behind the commit. *)
Restart ==
    /\ restarts < MaxRestarts
    /\ restarts' = restarts + 1
    /\ bootstrap_components(Forget(dag, Max({1, disk.committed - Window})))

(* SyncMode that failed: the components start again on the same store. *)
SyncFailed ==
    /\ restarts < MaxRestarts
    /\ restarts' = restarts + 1
    /\ bootstrap_components(dag)

Next ==
    \/ PeerNodeDelivered
    \/ OwnNodeDelivered
    \/ \E i \in DOMAIN driver.sending : VoteReceived(i)
    \/ \E r \in Round : TimerFires(r)
    \/ NewRoundEvent
    \/ PayloadPulled
    \/ \E x \in VoteRounds \X Version : StartVote(x) \/ CastVote(x)
    \/ \E r \in disk.committed + 1 .. highest_round(dag) - 1 : Commit(r)
    \/ Restart
    \/ SyncFailed

Spec == Init /\ [][Next]_vars

------------------------------------------------------------------------------
(* One vote per round and author (rb_handler.rs: a vote is saved before it *)
(* is sent, and only forgotten with rounds the store refuses) and one node *)
(* per round (dag_driver.rs: a node is saved before it is broadcast and    *)
(* resumed after a restart): a quorum of such validators certifies at most *)
(* one node for a round and author, which is what DagOrder builds on.      *)
NeverTwice ==
    /\ \A x, y \in signed : x[1] = y[1] => x = y
    /\ \A x, y \in made : x[1] = y[1] => x = y

(* A round with a quorum is never the last one (check_new_round): while    *)
(* the current round is not above the highest round with strong links, an  *)
(* event or a timer for a later round is outstanding.                      *)
NextRoundComes ==
    (driver.round <= highest_strong_links_round(dag) /\ ~is_empty(dag)) =>
        \E r \in driver.timers \cup Range(driver.events) : r > driver.round

DriverSound == NeverTwice /\ NextRoundComes /\ ~panicked

(* The map entry of the round a vote is cast in exists when the vote is    *)
(* entered (rb_handler.rs, `.expect("must exist")`).                       *)
VoteEntryKept == ~panicked
=============================================================================
