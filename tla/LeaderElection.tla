--------------------------- MODULE LeaderElection ---------------------------
(***************************************************************************)
(* Which validator proposes in a round (liveness/leader_reputation.rs,     *)
(* cached_proposer_election.rs, proposer_election.rs), computed by every   *)
(* validator from what it has committed: from the validator performance at *)
(* an anchor block (Liquent, ConsensusDB::get_reputation_anchor), or from  *)
(* a window of block events (the backend of the DAG and of Aptos).         *)
(*                                                                         *)
(* The chain is fixed; the validators commit it at their own pace.         *)
(***************************************************************************)
EXTENDS Integers, Sequences, FiniteSets, FiniteSetsExt

CONSTANTS
    Proposers,       \* the validators in their order
    Nodes,           \* the ones whose computations are compared
    Looking,         \* bound: the nodes whose caches are explored
    Chain,           \* [epoch, round, time, proposer, failed, voters, ends] per block
    Exclude,         \* exclude_round
    Window, Seek,    \* sizes of the event window and of the search behind it
    Threshold,       \* failure_threshold_percent
    Active, Inactive, Failed,  \* the weights
    AlphaTime,       \* activation of ConsensusAlpha, by the time of an anchor
    AlphaEpochs,     \* or by the epoch: the first one in which it is active
    Refresh,         \* LEGACY_PERFORMANCE_CACHE_REFRESH_CALLS
    CacheWindow,
    Batching,        \* TRUE: several blocks may be committed with one ledger info
    Hash(_, _)       \* of the seed: <<root hash, epoch>> and round

VARIABLES
    backend,    \* "anchor" or "events"
    alphaEpoch, \* chosen among AlphaEpochs
    committed,  \* number of the last committed block, per node
    ledger,     \* LedgerInfoSchema: the ledger infos a node holds
    events,     \* db_result: the newest event of the last read of the events
    legacy,     \* legacy_cached_weights: [calls, weights]
    cache,      \* recent_elections: [round, version, leader]
    lookup      \* the election a node is working on: its round and cache key

vars == <<backend, alphaEpoch, committed, ledger, events, legacy, cache, lookup>>

Number == 1 .. Len(Chain)
Authors == {Proposers[i] : i \in DOMAIN Proposers}
Round == 1 .. Max({Chain[i].round : i \in Number}) + 1

EpochAfter(n) == IF n = 0 THEN 1 ELSE Chain[n].epoch + (IF Chain[n].ends THEN 1 ELSE 0)
EpochOf(v) == EpochAfter(committed[v])

Count(S, P(_)) == Cardinality({i \in S : P(i)})

------------------------------------------------------------------------------
(* Performance of the validators in the state after block n: the counters  *)
(* of the epoch that the next block belongs to.                            *)
Since(n, e) == {i \in 1 .. n : Chain[i].epoch = e}
Successes(S, a) == Count(S, LAMBDA i : Chain[i].proposer = a)
Failures(S, a) == Count(S, LAMBDA i : a \in Chain[i].failed)
Votes(S, a) == Count(S, LAMBDA i : a \in Chain[i].voters)

TooManyFailures(S, a) ==
    Failures(S, a) * 100 > (Successes(S, a) + Failures(S, a)) * Threshold

fetch_and_compute_weights(n) ==
    LET S == Since(n, EpochAfter(n))
    IN [a \in Authors |-> IF Successes(S, a) + Failures(S, a) = 0 THEN Inactive
                          ELSE IF TooManyFailures(S, a) THEN Failed
                          ELSE Active]

(* get_weights_at_block: its cache of one entry is keyed by the block, whose state is fixed. *)
get_weights_at_block(n) == fetch_and_compute_weights(n)

get_fallback_weights == [a \in Authors |-> Active]

(* history_iter: the events of the epochs whose validators are known. *)
history_iter(window, e) == {i \in window : Chain[i].epoch = e}

(* The window of events, newest first, as a set of block numbers. *)
get_weights(S) ==
    [a \in Authors |-> IF TooManyFailures(S, a) THEN Failed
                       ELSE IF Successes(S, a) > 0 \/ Votes(S, a) > 0 THEN Active
                       ELSE Inactive]

(* next_in_range and choose_index: the first proposer whose cumulative     *)
(* weight is above the chosen one.                                         *)
CumulativeWeight(w, k) == MapThenSumSet(LAMBDA i : w[Proposers[i]], 1 .. k)

choose_index(w, root, e, r) ==
    LET chosen == Hash(<<root, e>>, r) % CumulativeWeight(w, Len(Proposers))
    IN Proposers[Min({k \in DOMAIN Proposers : CumulativeWeight(w, k) > chosen})]

------------------------------------------------------------------------------
(* put_ledger_info: the ledger info of blocks i..j.  One that ends the     *)
(* epoch carries the next epoch.                                           *)
LedgerInfo(j) == [number |-> j, epoch |-> Chain[j].epoch, round |-> Chain[j].round,
                  time |-> Chain[j].time, ends |-> Chain[j].ends]

(* Mutant: the newest block of the epoch, whatever its round. *)
get_reputation_anchor_Newest(v, e, target) ==
    LET fit == {l \in ledger[v] : \/ l.ends /\ l.epoch + 1 = e
                                  \/ ~l.ends /\ l.epoch = e}
    IN {l \in fit : \A k \in fit : k.number <= l.number}

get_reputation_anchor(v, e, target) ==
    LET fit == {l \in ledger[v] : \/ l.ends /\ l.epoch + 1 = e
                                  \/ ~l.ends /\ l.epoch = e /\ l.round <= target}
    IN {l \in fit : \A k \in fit : k.number <= l.number}

Target(r) == IF r > Exclude THEN r - Exclude ELSE 0

is_consensus_alpha_active(anchor, e) ==
    e >= alphaEpoch \/ \E l \in anchor : l.time >= AlphaTime

(* AptosDBBackend::get_block_metadata on events up to block n. *)
NotAfter(i, e, r) == Chain[i].epoch < e \/ (Chain[i].epoch = e /\ Chain[i].round <= r)

HasLarger(n, e, r) == n > 0 /\ (Chain[n].epoch > e \/ (Chain[n].epoch = e /\ Chain[n].round >= r))

WillRefresh(v, e, r) == ~HasLarger(events[v], e, r) /\ events[v] < committed[v]

(* refresh_db_result: the newest events, as many as the window and the search need. *)
refresh_db_result(n) == {i \in 1 .. n : i > n - (Window + Seek)}

get_from_db_result(n, e, r) ==
    LET fit == {i \in refresh_db_result(n) : NotAfter(i, e, r)}
    IN {i \in fit : Cardinality({k \in fit : k > i}) < Window}

get_block_metadata(v, e, r) ==
    get_from_db_result(IF WillRefresh(v, e, r) THEN committed[v] ELSE events[v], e, r)

(* get_legacy_weights: the cache is refreshed from the local latest state. *)
LegacyStale(v) == legacy[v].weights = {} \/ legacy[v].calls % Refresh = 0

get_legacy_weights(v) ==
    IF LegacyStale(v) THEN fetch_and_compute_weights(committed[v])
    ELSE CHOOSE w \in legacy[v].weights : TRUE

------------------------------------------------------------------------------
(* get_valid_proposer.                                                     *)
Anchor(v, r) ==
    IF backend = "events" THEN {} ELSE get_reputation_anchor(v, EpochOf(v), Target(r))

UsesLegacy(v, r) == ~is_consensus_alpha_active(Anchor(v, r), EpochOf(v))

Elect(v, r) ==
    LET e == EpochOf(v)
        anchor == Anchor(v, r)
        window == get_block_metadata(v, e, Target(r))
    IN IF UsesLegacy(v, r)
       THEN choose_index(get_legacy_weights(v), 0, e, r)
       ELSE IF anchor # {}
       THEN LET l == CHOOSE l \in anchor : TRUE
            IN choose_index(get_weights_at_block(l.number), l.number, e, r)
       ELSE IF backend = "anchor"
       THEN choose_index(get_fallback_weights, 0, e, r)
       ELSE choose_index(get_weights(history_iter(window, e)),
                         Max(window \cup {0}), e, r)

(* cache_key: no key, and no caching, without an anchor.  The election of  *)
(* the DAG is not cached.                                                  *)
cache_key(v, r) == {l.number : l \in Anchor(v, r)}

------------------------------------------------------------------------------
NewElection(v) ==
    /\ cache' = [cache EXCEPT ![v] = {}]
    /\ lookup' = [lookup EXCEPT ![v] = {}]
    /\ legacy' = [legacy EXCEPT ![v] = [calls |-> 0, weights |-> {}]]
    /\ events' = [events EXCEPT ![v] = 0]

Init ==
    /\ backend \in {"anchor", "events"}
    /\ alphaEpoch \in AlphaEpochs
    /\ committed = [v \in Nodes |-> 0]
    /\ ledger = [v \in Nodes |-> {}]
    /\ events = [v \in Nodes |-> 0]
    /\ legacy = [v \in Nodes |-> [calls |-> 0, weights |-> {}]]
    /\ cache = [v \in Nodes |-> {}]
    /\ lookup = [v \in Nodes |-> {}]

(* commit_ledger: one ledger info for the blocks of a persisting request.  *)
(* The end of an epoch replaces the election.                              *)
CommitLedger(v, j) ==
    /\ committed[v] < j
    /\ Batching \/ j = committed[v] + 1
    /\ \A i \in committed[v] + 1 .. j - 1 : ~Chain[i].ends
    /\ committed' = [committed EXCEPT ![v] = j]
    /\ ledger' = [ledger EXCEPT ![v] = @ \cup {LedgerInfo(j)}]
    /\ IF Chain[j].ends THEN NewElection(v) ELSE UNCHANGED <<cache, lookup, legacy, events>>
    /\ UNCHANGED <<backend, alphaEpoch>>

(* A round that is not over: above every block of the epoch committed here. *)
Asked(v, r) == \A i \in Since(committed[v], EpochOf(v)) : Chain[i].round < r

(* get_or_compute_entry reads the anchor for the key... *)
ReadKey(v, r) ==
    /\ lookup[v] = {}
    /\ Asked(v, r)
    /\ lookup' = [lookup EXCEPT ![v] = {[round |-> r, key |-> cache_key(v, r)]}]
    /\ UNCHANGED <<backend, alphaEpoch, committed, ledger, events, legacy, cache>>

Evict(entries, r) == {c \in entries : c.round >= r - CacheWindow}

(* Mutant: the cache is keyed by the round alone. *)
CachedEntry_ByRound(v, q) == {c \in cache[v] : q.key # {} /\ c.round = q.round}

CachedEntry(v, q) == {c \in cache[v] : q.key # {} /\ c.round = q.round /\ c.key = q.key}

(* ... and the election reads it again when there is no entry. *)
ComputeEntry(v) ==
    \E q \in lookup[v] :
        /\ lookup' = [lookup EXCEPT ![v] = {}]
        /\ IF CachedEntry(v, q) # {}
           THEN /\ cache' = [cache EXCEPT ![v] = Evict(@, q.round)]
                /\ UNCHANGED <<events, legacy>>
           ELSE /\ cache' = IF q.key = {} THEN cache
                            ELSE [cache EXCEPT ![v] = Evict(@, q.round) \cup
                                    {[round |-> q.round, key |-> q.key, leader |-> Elect(v, q.round)]}]
                /\ events' = IF backend = "events" /\ ~UsesLegacy(v, q.round)
                                /\ WillRefresh(v, EpochOf(v), Target(q.round))
                             THEN [events EXCEPT ![v] = committed[v]] ELSE events
                /\ legacy' = IF UsesLegacy(v, q.round)
                             THEN [legacy EXCEPT ![v] = [calls |-> (@.calls + 1) % Refresh,
                                                         weights |-> {get_legacy_weights(v)}]]
                             ELSE legacy
        /\ UNCHANGED <<backend, alphaEpoch, committed, ledger>>

Next ==
    \E v \in Nodes :
        \/ \E j \in Number : CommitLedger(v, j)
        \/ v \in Looking /\ \E r \in Round : ReadKey(v, r)
        \/ ComputeEntry(v)

Spec == Init /\ [][Next]_vars

------------------------------------------------------------------------------
(* The chain has reached the target of the round on this node. *)
Knows(v, r) == HasLarger(committed[v], EpochOf(v), Target(r)) \/ Target(r) = 0

Deterministic(v, r) == ~UsesLegacy(v, r)

(* Validators in the same epoch that have both committed up to the target  *)
(* of a round elect the same proposer for it (LeaderReputation; the        *)
(* performance is read at "a consensus-agreed block height").              *)
ProposersAgree ==
    \A v, w \in Nodes : (v # w /\ EpochOf(v) = EpochOf(w)) =>
        \A r \in Round :
            (/\ Asked(v, r) /\ Asked(w, r)
             /\ Knows(v, r) /\ Knows(w, r)
             /\ Deterministic(v, r) /\ Deterministic(w, r))
            => Elect(v, r) = Elect(w, r)

(* A cached proposer that would be served is the one the election would    *)
(* compute now, although the anchor may have moved between the read of the *)
(* key and the computation (cached_proposer_election.rs).                  *)
CacheFresh ==
    \A v \in Nodes : cache[v] # {} => \A r \in Round :
        (Asked(v, r) /\ Deterministic(v, r)) =>
        \A c \in CachedEntry(v, [round |-> r, key |-> cache_key(v, r)]) : c.leader = Elect(v, r)

ElectionSound == ProposersAgree /\ CacheFresh
=============================================================================
