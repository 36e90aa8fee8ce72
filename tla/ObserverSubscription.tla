------------------------ MODULE ObserverSubscription ------------------------
(***************************************************************************)
(* Who subscribes to whom: the observer side of every node (check_progress,*)
(* create_new_observer_subscription, unsubscribe_from_peer in observer.rs, *)
(* subscription.rs) and the publisher side (publisher.rs), over RPCs that  *)
(* may be lost or answered after the caller gave up.                       *)
(*                                                                         *)
(* A node's loop waits inside create_new_observer_subscription for each    *)
(* answer, and the same loop answers the requests of others: two nodes     *)
(* that ask each other both wait until one of the requests times out.      *)
(***************************************************************************)
EXTENDS Integers, FiniteSets, FiniteSetsExt

CONSTANTS Observers,    \* nodes that may observe, and publish
          Publishers,   \* nodes that only publish
          None,
          Topologies,   \* [observers, far]: who observes, which pairs never connect
          MaxFaults

VARIABLES active,       \* node -> the peer it is subscribed to, or None
          heard,        \* node -> a message arrived since the last check
          trying,       \* node -> peers left to ask and the one being asked
          subscribers,  \* node -> active_subscribers of its publisher
          requests,     \* requests in flight: <<kind, from, to>>
          wire,         \* direct sends in flight: <<from, to>>
          net,          \* the topology
          down,         \* pairs that are not connected
          faults

vars == <<active, heard, trying, subscribers, requests, wire, net, down, faults>>

Node == Observers \cup Publishers
Idle == [left |-> {}, asked |-> None]

Connected(n) == {p \in Node \ {n} : {n, p} \notin down}

(* The loop of a node is blocked while it asks for a subscription.         *)
Listening(n) == trying[n] = Idle

sort_peers_for_subscription(n, previous) == Connected(n) \ ({previous} \cup subscribers[n])

(* Ask the next peer, in an order given by distance and latency.           *)
AskNext(n, left) ==
  IF left = {} THEN trying' = [trying EXCEPT ![n] = Idle] /\ UNCHANGED requests
  ELSE \E p \in left :
         /\ trying' = [trying EXCEPT ![n] = [left |-> left \ {p}, asked |-> p]]
         /\ requests' = requests \cup {<<"sub", n, p>>}

(* A healthy subscription is kept; a silent or disconnected one is ended   *)
(* and another peer is asked.                                              *)
Healthy(n) == active[n] # None /\ active[n] \in Connected(n) /\ heard[n]

check_active_subscription(n) ==
  /\ n \in net.observers /\ Listening(n) /\ Healthy(n)
  /\ heard' = [heard EXCEPT ![n] = FALSE]
  /\ UNCHANGED <<active, trying, subscribers, requests, wire, net, down, faults>>

unsubscribe_from_peer(n, p) == {<<"unsub", n, p>>}

check_progress(n) ==
  /\ n \in net.observers /\ Listening(n) /\ ~Healthy(n)
  /\ LET peers == sort_peers_for_subscription(n, active[n])
         gone  == IF active[n] = None THEN {} ELSE unsubscribe_from_peer(n, active[n])
     IN IF peers = {} THEN requests' = requests \cup gone /\ UNCHANGED trying
        ELSE \E p \in peers :
               /\ trying' = [trying EXCEPT ![n] = [left |-> peers \ {p}, asked |-> p]]
               /\ requests' = requests \cup gone \cup {<<"sub", n, p>>}
  /\ active' = [active EXCEPT ![n] = None]
  /\ UNCHANGED <<heard, subscribers, wire, net, down, faults>>

(* The request fails or times out; it may still reach the peer later.      *)
RequestTimesOut(n) ==
  /\ trying[n].asked # None
  /\ AskNext(n, trying[n].left)
  /\ UNCHANGED <<active, heard, subscribers, wire, net, down, faults>>

(* The publisher adds the peer and acknowledges; the answer counts when    *)
(* the peer still waits for it.                                            *)
handle_subscription_request(n, p) ==
  /\ Listening(p)
  /\ <<"sub", n, p>> \in requests
  /\ subscribers' = [subscribers EXCEPT ![p] = @ \cup {n}]
  /\ requests' = requests \ {<<"sub", n, p>>}
  /\ IF trying[n].asked = p
     THEN /\ active' = [active EXCEPT ![n] = p]
          /\ heard' = [heard EXCEPT ![n] = TRUE]
          /\ trying' = [trying EXCEPT ![n] = Idle]
     ELSE UNCHANGED <<active, heard, trying>>
  /\ UNCHANGED <<wire, net, down, faults>>

handle_unsubscription_request(n, p) ==
  /\ Listening(p)
  /\ <<"unsub", n, p>> \in requests
  /\ subscribers' = [subscribers EXCEPT ![p] = @ \ {n}]
  /\ requests' = requests \ {<<"unsub", n, p>>}
  /\ UNCHANGED <<active, heard, trying, wire, net, down, faults>>

publish_message(p) ==
  /\ wire' = wire \cup {<<p, n>> : n \in subscribers[p] \cap Connected(p)}
  /\ UNCHANGED <<active, heard, trying, subscribers, requests, net, down, faults>>

(* A message from the peer subscribed to keeps the subscription alive; one *)
(* from any other peer is answered by an unsubscription.                   *)
process_direct_send_message_Ignore(p, n) ==
  /\ Listening(n) /\ <<p, n>> \in wire
  /\ wire' = wire \ {<<p, n>>}
  /\ heard' = IF active[n] = p THEN [heard EXCEPT ![n] = TRUE] ELSE heard
  /\ UNCHANGED <<active, trying, subscribers, requests, net, down, faults>>

process_direct_send_message(p, n) ==
  /\ Listening(n) /\ <<p, n>> \in wire
  /\ wire' = wire \ {<<p, n>>}
  /\ IF active[n] = p
     THEN heard' = [heard EXCEPT ![n] = TRUE] /\ UNCHANGED requests
     ELSE requests' = requests \cup unsubscribe_from_peer(n, p) /\ UNCHANGED heard
  /\ UNCHANGED <<active, trying, subscribers, net, down, faults>>

garbage_collect_subscriptions(p) ==
  /\ ~(subscribers[p] \subseteq Connected(p))
  /\ subscribers' = [subscribers EXCEPT ![p] = @ \cap Connected(p)]
  /\ UNCHANGED <<active, heard, trying, requests, wire, net, down, faults>>

(* Faults: a request is lost, two nodes are disconnected or connect again. *)
Lose(r) ==
  /\ faults < MaxFaults /\ r \in requests
  /\ faults' = faults + 1 /\ requests' = requests \ {r}
  /\ UNCHANGED <<active, heard, trying, subscribers, wire, net, down>>

Disconnect(n, p) ==
  /\ faults < MaxFaults /\ p \in Connected(n)
  /\ faults' = faults + 1
  /\ down' = down \cup {{n, p}}
  /\ requests' = {r \in requests : {r[2], r[3]} # {n, p}}
  /\ wire' = {w \in wire : {w[1], w[2]} # {n, p}}
  /\ UNCHANGED <<active, heard, trying, subscribers, net>>

Reconnect ==
  /\ down # net.far /\ down' = net.far
  /\ UNCHANGED <<active, heard, trying, subscribers, requests, wire, net, faults>>

Init ==
  /\ active = [n \in Node |-> None]
  /\ heard = [n \in Node |-> FALSE]
  /\ trying = [n \in Node |-> Idle]
  /\ subscribers = [n \in Node |-> {}]
  /\ requests = {} /\ wire = {} /\ faults = 0
  /\ net \in Topologies /\ down = net.far

Loop(n) == check_active_subscription(n) \/ check_progress(n)

Next ==
  \/ \E n \in Observers : Loop(n) \/ RequestTimesOut(n)
  \/ \E n \in Observers, p \in Node :
       \/ handle_subscription_request(n, p) \/ handle_unsubscription_request(n, p)
       \/ process_direct_send_message(p, n) \/ Disconnect(n, p)
  \/ \E p \in Node : publish_message(p) \/ garbage_collect_subscriptions(p)
  \/ \E r \in requests : Lose(r)
  \/ Reconnect

(* Every loop keeps running, a request that is not answered times out, the *)
(* network keeps delivering, and every publisher keeps publishing, as long *)
(* as the chain grows.                                                     *)
Fairness ==
  /\ \A n \in Observers : WF_vars(Loop(n) \/ RequestTimesOut(n))
  /\ \A p \in Node : SF_vars(\E n \in Observers : process_direct_send_message(p, n))
  /\ \A p \in Node : SF_vars(\E n \in Observers : handle_unsubscription_request(n, p))
  /\ WF_vars(\E p \in Node : garbage_collect_subscriptions(p))
  /\ \A p \in Node : WF_vars(publish_message(p))

Spec == Init /\ [][Next]_vars

FairSpec == Spec /\ Fairness

-----------------------------------------------------------------------------
(* Both sides of a subscription come to agree.  A publisher does not serve *)
(* for ever a node that takes its messages elsewhere (a subscription that  *)
(* was answered too late, an unsubscription that was lost): the node's     *)
(* next unsubscription ends it.  And a node does not wait for ever on a    *)
(* peer that does not serve it (an old unsubscription that overtakes a new *)
(* subscription): the silence ends the subscription.                       *)
SubscriptionsSettle ==
  \A n \in Observers, p \in Node :
     ((n \in subscribers[p]) # (active[n] = p)) ~> ((n \in subscribers[p]) = (active[n] = p))
=============================================================================
