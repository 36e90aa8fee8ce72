-------------------------- MODULE MCRandomnessDag ---------------------------
(***************************************************************************)
(* Randomness generation and the DAG, each component on a small instance.  *)
(* They share no state in these instances, so a behaviour is one of one    *)
(* component, chosen in the initial state.                                 *)
(***************************************************************************)
EXTENDS AugData, Integers, Sequences, FiniteSets

CONSTANTS
  Comps   \* the components to run

VARIABLES
  comp,   \* the component that runs
  my_certified, rand_map, known, incoming, queue, dequeued, decisions, task, ordered, out,
  resets, stop, panic, shape, dag, rule, log, disk, pool, restarts, driver, votes, signed,
  its_made, panicked, net, commit, mode, fetches, faults

\* DagOrder: in every round the late node is the round-robin anchor, left out by nobody, by
\* two or by three authors of the next round: its votes are all there, just enough, or too
\* few.  In the last kind of round it is the node of "a", its only voter if the round before
\* had too few.
DagValidators == <<"a", "b", "c", "d">>
Skips == << {}, {"b", "c"}, {"b", "c", "d"}, {"b", "c", "d"} >>
Shape(k, voted, crashed) ==
  [late |-> [r \in DOMAIN k |->
                [node |-> IF k[r] = 4 THEN "a" ELSE DagValidators[((r \div 2) % 4) + 1],
                 by |-> Skips[k[r]]]],
   votes |-> voted, restarts |-> crashed]
DagShapes ==
  {Shape(k, {}, 1) : k \in {<<3, 1, 1>>, <<2, 3, 1>>, <<3, 3, 2, 1>>}}
  \cup {Shape(k, {2}, 0) : k \in {<<3, 4, 1>>, <<2, 1, 1>>}}
  \cup {Shape(<<1, 1, 1, 1, 1>>, {}, 0)}

Rand == INSTANCE RandManager WITH
    Me <- "me", Peers <- {"p"}, Path <- {"slow", "fast"}, Threshold <- 2,
    FastThreshold <- 3, FUTURE_ROUNDS_TO_ACCEPT <- 2, MaxRound <- 2, MaxResets <- 1

Order == INSTANCE DagOrder WITH
    Validators <- DagValidators, Faulty <- {"d"}, Window <- 1, Events <- 2,
    Reputation <- TRUE, Shapes <- DagShapes

Driver == INSTANCE DagDriver WITH
    N <- 4, Window <- 1, BaseRound <- 4, MaxRound <- 7, MaxRestarts <- 1,
    VoteRounds <- {1, 5}, Racing <- FALSE, made <- its_made

Fetch == INSTANCE DagFetch WITH
    Window <- 1, MaxRound <- 8, MaxFaults <- 1, Lag <- 2, Unchecked <- FALSE

ASSUME DagConstants ==
  Order!DagAssumption /\ Driver!DriverAssumption /\ Fetch!FetchAssumption

RandStarts ==
  /\ comp = "rand" /\ Rand!Init
  /\ shape = 0 /\ dag = 0 /\ rule = 0 /\ log = 0 /\ disk = 0 /\ pool = 0 /\ restarts = 0
  /\ driver = 0 /\ votes = 0 /\ signed = 0 /\ its_made = 0 /\ panicked = 0 /\ net = 0
  /\ commit = 0 /\ mode = 0 /\ fetches = 0 /\ faults = 0

RandSteps ==
  /\ comp = "rand" /\ Rand!Next
  /\ UNCHANGED <<comp, shape, dag, rule, log, disk, pool, restarts, driver, votes, signed,
                its_made, panicked, net, commit, mode, fetches, faults, vars>>

OrderStarts ==
  /\ comp = "order" /\ Order!Init
  /\ my_certified = 0 /\ rand_map = 0 /\ known = 0 /\ incoming = 0 /\ queue = 0
  /\ dequeued = 0 /\ decisions = 0 /\ task = 0 /\ ordered = 0 /\ out = 0 /\ resets = 0
  /\ stop = 0 /\ panic = 0 /\ driver = 0 /\ votes = 0 /\ signed = 0 /\ its_made = 0
  /\ panicked = 0 /\ net = 0 /\ commit = 0 /\ mode = 0 /\ fetches = 0 /\ faults = 0

OrderSteps ==
  /\ comp = "order" /\ Order!Next
  /\ UNCHANGED <<comp, my_certified, rand_map, known, incoming, queue, dequeued, decisions,
                task, ordered, out, resets, stop, panic, driver, votes, signed, its_made,
                panicked, net, commit, mode, fetches, faults, vars>>

DriverStarts ==
  /\ comp = "driver" /\ Driver!Init
  /\ my_certified = 0 /\ rand_map = 0 /\ known = 0 /\ incoming = 0 /\ queue = 0
  /\ dequeued = 0 /\ decisions = 0 /\ task = 0 /\ ordered = 0 /\ out = 0 /\ resets = 0
  /\ stop = 0 /\ panic = 0 /\ shape = 0 /\ rule = 0 /\ log = 0 /\ pool = 0 /\ net = 0
  /\ commit = 0 /\ mode = 0 /\ fetches = 0 /\ faults = 0

DriverSteps ==
  /\ comp = "driver" /\ Driver!Next
  /\ UNCHANGED <<comp, my_certified, rand_map, known, incoming, queue, dequeued, decisions,
                task, ordered, out, resets, stop, panic, shape, rule, log, pool, net,
                commit, mode, fetches, faults, vars>>

FetchStarts ==
  /\ comp = "fetch" /\ Fetch!Init
  /\ my_certified = 0 /\ rand_map = 0 /\ known = 0 /\ incoming = 0 /\ queue = 0
  /\ dequeued = 0 /\ decisions = 0 /\ task = 0 /\ ordered = 0 /\ out = 0 /\ resets = 0
  /\ stop = 0 /\ panic = 0 /\ shape = 0 /\ rule = 0 /\ log = 0 /\ pool = 0 /\ restarts = 0
  /\ driver = 0 /\ votes = 0 /\ signed = 0 /\ its_made = 0

FetchSteps ==
  /\ comp = "fetch" /\ Fetch!Next
  /\ UNCHANGED <<comp, my_certified, rand_map, known, incoming, queue, dequeued, decisions,
                task, ordered, out, resets, stop, panic, shape, rule, log, pool, restarts,
                driver, votes, signed, its_made, vars>>

Rest == <<my_certified, rand_map, known, incoming, queue, dequeued, decisions, task, ordered, out,
            resets, stop, panic, shape, dag, rule, log, disk, pool, restarts, driver, votes,
            signed, its_made, panicked, net, commit, mode, fetches, faults>>

RandomnessDagAlone ==
  /\ comp = "aug"
  /\ my_certified = 0 /\ rand_map = 0 /\ known = 0 /\ incoming = 0 /\ queue = 0
  /\ dequeued = 0 /\ decisions = 0 /\ task = 0 /\ ordered = 0 /\ out = 0 /\ resets = 0
  /\ stop = 0 /\ panic = 0 /\ shape = 0 /\ dag = 0 /\ rule = 0 /\ log = 0 /\ disk = 0
  /\ pool = 0 /\ restarts = 0 /\ driver = 0 /\ votes = 0 /\ signed = 0 /\ its_made = 0
  /\ panicked = 0 /\ net = 0 /\ commit = 0 /\ mode = 0 /\ fetches = 0 /\ faults = 0

RandomnessDagInit ==
  /\ Init
  /\ \/ "rand" \in Comps /\ RandStarts
     \/ "order" \in Comps /\ OrderStarts
     \/ "driver" \in Comps /\ DriverStarts
     \/ "fetch" \in Comps /\ FetchStarts
     \/ "aug" \in Comps /\ RandomnessDagAlone

RandomnessDagNext ==
  \/ RandSteps
  \/ OrderSteps
  \/ DriverSteps
  \/ FetchSteps
  \/ comp = "aug" /\ Next /\ UNCHANGED <<comp, Rest>>

RandomnessDagVars == <<comp, Rest, vars>>

RandomnessDagSpec == RandomnessDagInit /\ [][RandomnessDagNext]_RandomnessDagVars

-----------------------------------------------------------------------------
(* Every block ordered leaves the randomness manager once, in order and     *)
(* with its own decision (rand/rand_gen: rand_manager.rs, block_queue.rs,   *)
(* rand_store.rs).                                                          *)
RandSound == comp = "rand" => Rand!BlocksFlow

(* A validator signs one node a round and keeps its votes over a restart,   *)
(* and fetching and state sync leave a DAG without holes (dag_driver.rs,    *)
(* rb_handler.rs, dag_fetcher.rs, dag_state_sync.rs).                       *)
DagSound ==
  /\ comp = "driver" => Driver!DriverSound
  /\ comp = "fetch" => Fetch!FetchSound

(* All validators order the same anchors and nodes, whatever order the      *)
(* nodes reach them in (dag/order_rule.rs, anchor_election).                *)
DagOrderSound == comp = "order" => Order!DagOrderSound

=============================================================================
