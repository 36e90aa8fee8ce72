--------------------------- MODULE Relayer_proofs ---------------------------
(***************************************************************************)
(* NoEventDropped for any number of events, failures and restarts.  The    *)
(* invariant relates the manager's cursor, which only moves forward, to    *)
(* the cached result of ProviderState: an event beyond the chain's nonce   *)
(* was handed out by the last poll, and that poll started at or below the  *)
(* chain's nonce of its time because should_block_poll let it through.     *)
(***************************************************************************)
EXTENDS Relayer, TLAPS

(* The provers for the steps that name none, in the order they are tried. *)
USE SMT, Zenon, SMTT(30), ZenonT(30)

Updates == [updated : BOOLEAN, nonce : SUBSET Nat, first : Nat]

States == [fetched_nonce : SUBSET Nat, last_had_update : BOOLEAN, last_result : SUBSET Updates]

(* The result r of a poll that handed out the events first .. n. *)
Batch(r, n, first) == r.updated /\ r.nonce = {n} /\ r.first = first

(* ProviderState caches exactly the batch it has handed out, up to n. *)
Caches(n, first) ==
  /\ tracker.last_had_update /\ tracker.fetched_nonce = {n}
  /\ \E r \in Updates : tracker.last_result = {r} /\ Batch(r, n, first)

(* The values of the fields of the relayer. *)
RelayerTypeOK ==
  /\ emitted \in Nat /\ onchain \in Nat /\ faults \in Nat
  /\ cursor \in SUBSET Nat
  /\ tracker \in States
  /\ call \in [Callers -> [pc : {"idle", "read", "poll"}, nonce : Nat, state : States]]
  /\ surfaced \in SUBSET [batch : Updates, read : Nat]

(* What a poll hands out, and what a caller has read. *)
IInv ==
  /\ RelayerTypeOK
  /\ tracker.last_had_update => \E n, first \in Nat : first <= n /\ Caches(n, first)
  /\ \A n \in cursor : n > onchain => \E first \in Nat : first <= onchain + 1 /\ Caches(n, first)
  /\ \A c \in Callers :
       /\ call[c].nonce <= onchain
       /\ call[c].pc = "poll" => ~should_block_poll(tracker, call[c].nonce)
  /\ \A s \in surfaced : \E n, first \in Nat :
       Batch(s.batch, n, first) /\ first <= n /\ n > s.read

-----------------------------------------------------------------------------
(* The records a relayer starts from. *)
LEMMA IdleType == NoState \in States /\ Idle \in [pc : {"idle", "read", "poll"}, nonce : Nat, state : States]
  BY DEF NoState, Idle, States

(* A nonce one past a smaller nonce is at most one past a larger one. *)
LEMMA NextBound == \A a, b, f \in Nat : a <= b /\ f <= a + 1 => f <= b + 1
  OBVIOUS

(* The invariant gives NoEventDropped. *)
LEMMA InvImplies == IInv => NoEventDropped
<1> SUFFICES ASSUME IInv PROVE NoEventDropped
  OBVIOUS
<1>1. ASSUME NEW n \in cursor, n > onchain
      PROVE  /\ should_block_poll(tracker, onchain)
             /\ \E r \in tracker.last_result : r.updated /\ r.nonce = {n} /\ r.first <= onchain + 1
  BY <1>1 DEF IInv, RelayerTypeOK, Caches, Batch, should_block_poll
<1>2. \A s \in surfaced : \A n \in s.batch.nonce : n > s.read
  BY DEF IInv, Batch
<1> QED
  BY <1>1, <1>2 DEF NoEventDropped

(* A relayer that starts has read nothing. *)
LEMMA InitInv == Init => IInv
  BY IdleType DEF Init, IInv, RelayerTypeOK, NoState, Idle, should_block_poll

(* What Polled returns when the cursor and the nonce read are at most the chain's nonce. *)
LEMMA PolledBatch ==
  ASSUME IInv, NEW c \in Callers, \A n \in cursor : n <= onchain,
         NEW result \in Polled(call[c].nonce)
  PROVE  \E to, from \in Nat :
           /\ result = [updated |-> to > from, nonce |-> {to}, first |-> from + 1]
           /\ from <= to /\ from <= onchain
<1>1. call[c].nonce \in Nat /\ call[c].nonce <= onchain /\ onchain \in Nat /\ emitted \in Nat
      /\ cursor \subseteq Nat
  BY DEF IInv, RelayerTypeOK
<1>2. PICK n \in cursor : \E from \in {n, Bigger(n, call[c].nonce)} :
         result \in {[updated |-> to > from, nonce |-> {to}, first |-> from + 1] :
                       to \in from..Bigger(from, emitted)}
  BY DEF Polled
<1>3. PICK from \in {n, Bigger(n, call[c].nonce)} :
         \E to \in from..Bigger(from, emitted) :
           result = [updated |-> to > from, nonce |-> {to}, first |-> from + 1]
  BY <1>2
<1>4. from \in Nat /\ from <= onchain
  BY <1>1, <1>3 DEF Bigger
<1>0. PICK to \in from..Bigger(from, emitted) :
         result = [updated |-> to > from, nonce |-> {to}, first |-> from + 1]
  BY <1>3
<1>5. to \in Nat /\ from <= to
  BY <1>0, <1>1, <1>4 DEF Bigger
<1> QED
  BY <1>0, <1>4, <1>5

(* Every step of the relayer, its observer and the chain keeps the invariant. *)
LEMMA NextInv == IInv /\ [Next]_vars => IInv'
<1> SUFFICES ASSUME IInv, [Next]_vars PROVE IInv'
  OBVIOUS
<1>1. CASE add_uri
  BY <1>1 DEF add_uri, IInv, RelayerTypeOK, Caches, should_block_poll
<1>2. CASE Emit
  BY <1>2 DEF Emit, IInv, RelayerTypeOK, Caches, should_block_poll
<1>3. CASE ExecuteUpdate
  <2>1. PICK s \in surfaced : process_jwk_update_util(s.batch) /\ surfaced' = surfaced \ {s}
    BY <1>3 DEF ExecuteUpdate
  <2>2. PICK n, first \in Nat : Batch(s.batch, n, first) /\ first <= n
    BY DEF IInv
  <2>3. (CHOOSE m \in s.batch.nonce : TRUE) = n
    BY <2>2 DEF Batch
  <2>4. onchain' \in Nat /\ onchain <= onchain'
    BY <2>1, <2>2, <2>3 DEF process_jwk_update_util, Batch, IInv, RelayerTypeOK
  <2>5. UNCHANGED <<emitted, cursor, tracker, call, faults>>
    BY <1>3 DEF ExecuteUpdate
  <2>6. RelayerTypeOK'
    BY <2>1, <2>4, <2>5 DEF IInv, RelayerTypeOK
  <2>7. \A m, f \in Nat : Caches(m, f) => Caches(m, f)'
    BY <2>5 DEF Caches
  <2>8. ASSUME NEW m \in Nat, m \in cursor', m > onchain'
        PROVE  \E f \in Nat : f <= onchain' + 1 /\ Caches(m, f)'
    <3>1. m \in cursor /\ m > onchain /\ onchain \in Nat
      BY <2>4, <2>5, <2>8 DEF IInv, RelayerTypeOK
    <3>2. PICK f \in Nat : f <= onchain + 1 /\ Caches(m, f)
      BY <3>1 DEF IInv
    <3>3. f <= onchain' + 1
      BY <2>4, <3>1, <3>2, NextBound
    <3>4. Caches(m, f)'
      BY <2>7, <3>2
    <3> QED
      BY <3>3, <3>4
  <2>9. \A c \in Callers : call[c]'.nonce <= onchain'
    BY <2>4, <2>5 DEF IInv, RelayerTypeOK
  <2> QED
    BY <2>1, <2>5, <2>6, <2>7, <2>8, <2>9 DEF IInv, RelayerTypeOK, should_block_poll
<1>4. CASE ExecuteOthers
  <2>1. onchain' \in Nat /\ onchain <= onchain'
    BY <1>4 DEF ExecuteOthers, IInv, RelayerTypeOK
  <2> QED
    BY <1>4, <2>1 DEF ExecuteOthers, IInv, RelayerTypeOK, Caches, should_block_poll
<1>5. CASE Restart
  BY <1>5, IdleType DEF Restart, Fail, IInv, RelayerTypeOK, NoState, Idle
<1>6. ASSUME NEW c \in Callers, get_oracle_source_states(c) PROVE IInv'
  BY <1>6, IdleType DEF get_oracle_source_states, IInv, RelayerTypeOK, Caches, should_block_poll
<1>7. ASSUME NEW c \in Callers, TrackerGetState(c) PROVE IInv'
  <2>1. CASE should_block_poll(tracker, call[c].nonce)
    <3>1. PICK r \in tracker.last_result : Surface(r, call[c].nonce)
      BY <1>7, <2>1 DEF TrackerGetState
    <3>2. PICK n, first \in Nat : first <= n /\ Caches(n, first)
      BY <2>1 DEF IInv, should_block_poll
    <3>3. r \in Updates /\ Batch(r, n, first) /\ n > call[c].nonce
      BY <2>1, <3>1, <3>2 DEF Caches, should_block_poll
    <3>4. surfaced' = surfaced \cup {[batch |-> r, read |-> call[c].nonce]}
      BY <3>1, <3>3 DEF Surface, Batch
    <3>5. call' = [call EXCEPT ![c] = Idle] /\ UNCHANGED <<emitted, onchain, cursor, tracker, faults>>
      BY <1>7, <2>1 DEF TrackerGetState
    <3>6. RelayerTypeOK'
      BY <3>3, <3>4, <3>5, IdleType DEF IInv, RelayerTypeOK
    <3>7. \A m, f \in Nat : Caches(m, f) => Caches(m, f)'
      BY <3>5 DEF Caches
    <3>8. \A d \in Callers : call'[d] = call[d] \/ (call'[d].pc = "idle" /\ call'[d].nonce = 0)
      BY <3>5 DEF Idle, IInv, RelayerTypeOK
    <3>9. \A s \in surfaced' : \E m, f \in Nat : Batch(s.batch, m, f) /\ f <= m /\ m > s.read
      BY <3>2, <3>3, <3>4 DEF IInv
    <3> QED
      BY <3>5, <3>6, <3>7, <3>8, <3>9 DEF IInv, RelayerTypeOK
  <2>2. CASE ~should_block_poll(tracker, call[c].nonce)
    BY <1>7, <2>2 DEF TrackerGetState, IInv, RelayerTypeOK, Caches, should_block_poll
  <2> QED
    BY <2>1, <2>2
<1>8. ASSUME NEW c \in Callers, poll_and_update_state(c) PROVE IInv'
  <2>1. PICK result \in Polled(call[c].nonce) :
          /\ cursor' = result.nonce
          /\ tracker' = update_state(result)
          /\ Surface(guard_already_committed(result, call[c].nonce), call[c].nonce)
    BY <1>8 DEF poll_and_update_state
  <2>2. \A n \in cursor : n <= onchain
    BY <1>8 DEF poll_and_update_state, IInv, RelayerTypeOK, Caches, should_block_poll
  <2>3. PICK to, from \in Nat :
           /\ result = [updated |-> to > from, nonce |-> {to}, first |-> from + 1]
           /\ from <= to /\ from <= onchain
    BY <2>1, <2>2, PolledBatch
  <2>4. result \in Updates /\ result.nonce = {to} /\ result.first = from + 1
        /\ (result.updated <=> to > from)
    <3>1. (to > from) \in BOOLEAN /\ {to} \in SUBSET Nat /\ from + 1 \in Nat
      OBVIOUS
    <3> QED
      BY <2>3, <3>1 DEF Updates
  <2>5. /\ tracker' \in States
        /\ tracker'.last_had_update => Caches(to, from + 1)'
        /\ tracker'.last_had_update = result.updated
    <3>1. result.updated \in BOOLEAN /\ result.nonce \in SUBSET Nat
      BY <2>4 DEF Updates
    <3>2. tracker' = [fetched_nonce |-> result.nonce, last_had_update |-> result.updated,
                      last_result |-> {result}]
      BY <2>1 DEF update_state
    <3>3. tracker' \in States
      BY <2>4, <3>1, <3>2 DEF States
    <3> QED
      BY <2>4, <3>2, <3>3 DEF Caches, Batch
  <2>6. \A s \in surfaced' : s \in surfaced \/
          /\ s.batch \in Updates /\ s.read = call[c].nonce
          /\ Batch(s.batch, to, from + 1) /\ to > s.read /\ to > from
    <3> DEFINE g == guard_already_committed(result, call[c].nonce)
    <3>1. /\ g \in Updates /\ g.nonce = {to} /\ g.first = from + 1
          /\ g.updated => to > from /\ ~(to <= call[c].nonce)
      BY <2>4 DEF guard_already_committed, Updates
    <3>2. surfaced' = IF g.updated THEN surfaced \union {[batch |-> g, read |-> call[c].nonce]}
                      ELSE surfaced
      BY <2>1 DEF Surface
    <3>3. call[c].nonce \in Nat
      BY DEF IInv, RelayerTypeOK
    <3> HIDE DEF g
    <3> QED
      BY <3>1, <3>2, <3>3 DEF Batch
  <2>7. call' = [d \in Callers |-> Idle]
    BY <1>8, RelayerAssumption DEF poll_and_update_state, IInv, RelayerTypeOK
  <2>8. RelayerTypeOK'
    <3>1. guard_already_committed(result, call[c].nonce) \in Updates /\ call[c].nonce \in Nat
      BY <2>4 DEF guard_already_committed, Updates, IInv, RelayerTypeOK
    <3>2. surfaced' \subseteq [batch : Updates, read : Nat]
      BY <2>1, <3>1 DEF Surface, IInv, RelayerTypeOK
    <3> QED
      BY <1>8, <2>1, <2>4, <2>5, <2>7, <3>2, IdleType
      DEF poll_and_update_state, IInv, RelayerTypeOK
  <2>9. tracker'.last_had_update => from + 1 \in Nat /\ from + 1 <= to /\ Caches(to, from + 1)'
    BY <2>4, <2>5
  <2>10. \A n \in cursor' : n > onchain' => from + 1 <= onchain' + 1 /\ Caches(n, from + 1)'
    BY <1>8, <2>1, <2>3, <2>4, <2>5 DEF poll_and_update_state, IInv, RelayerTypeOK
  <2>11. \A s \in surfaced' : \E n, first \in Nat :
           Batch(s.batch, n, first) /\ first <= n /\ n > s.read
    BY <2>6 DEF IInv
  <2> QED
    BY <1>8, <2>7, <2>8, <2>9, <2>10, <2>11
    DEF poll_and_update_state, IInv, RelayerTypeOK, Idle
<1>9. ASSUME NEW c \in Callers, PollFails(c) PROVE IInv'
  BY <1>9, IdleType DEF PollFails, Fail, IInv, RelayerTypeOK, Caches, should_block_poll, Idle
<1>10. CASE UNCHANGED vars
  BY <1>10 DEF vars, IInv, RelayerTypeOK, Caches, should_block_poll
<1> QED
  BY <1>1, <1>2, <1>3, <1>4, <1>5, <1>6, <1>7, <1>8, <1>9, <1>10 DEF Next

(* No event the manager has handed out is lost, and nothing the chain has is surfaced     *)
(* again, for any number of events, failed polls, restarts and batches of the others      *)
(* (relayer.rs get_last_state, should_block_poll, update_state).                          *)
THEOREM EventsKept == Spec => []NoEventDropped
  BY InitInv, NextInv, InvImplies, PTL DEF Spec
=============================================================================
