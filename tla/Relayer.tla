------------------------------ MODULE Relayer -------------------------------
(* The oracle relayer of the node (bin/liquent_node/src/relayer.rs) for one *)
(* source: a provider emits numbered events, validators observe them in     *)
(* batches, and a certified batch is recorded on chain as a validator       *)
(* transaction (state_computer.rs).                                         *)
(*                                                                          *)
(* External, modelled from how this code uses it: the provider manager,     *)
(* which hands out each event once, past the on-chain nonce it is told; the *)
(* observer, which asks for the last state and proposes what is updated;    *)
(* and the contract, which records a batch only if it continues its nonce.  *)
EXTENDS Integers, FiniteSets

CONSTANTS
  Callers,                    \* tasks that may ask for the state of the source
  MaxNonce, MaxFaults         \* bounds: events emitted; failures and restarts

\* One observer asks for the state of a source, one question at a time.
ASSUME RelayerAssumption ==
  MaxNonce \in Nat /\ MaxFaults \in Nat /\ \A c, d \in Callers : c = d

VARIABLES
  emitted,     \* events the provider has emitted
  onchain,     \* latest_nonce in the oracle state of the latest committed block
  cursor,      \* the manager: the last event handed out, once the source is added
  tracker,     \* ProviderState
  call,        \* caller -> what it has read
  surfaced,    \* batches handed to the observer as updates and not yet executed
  faults

vars == <<emitted, onchain, cursor, tracker, call, surfaced, faults>>

NoState == [fetched_nonce |-> {}, last_had_update |-> FALSE, last_result |-> {}]
Idle == [pc |-> "idle", nonce |-> 0, state |-> NoState]

MayFail == faults < MaxFaults
Fail == faults' = faults + 1

Bigger(a, b) == IF a > b THEN a ELSE b

(* add_uri: the local endpoint and the oracle state must be there; the      *)
(* manager starts at the chain's progress.                                  *)
add_uri ==
  /\ cursor = {}
  /\ cursor' = {onchain}
  /\ UNCHANGED <<emitted, onchain, tracker, call, surfaced, faults>>

(* get_oracle_source_states and require_oracle_state_for_uri, at the start  *)
(* of get_last_state; on an error the caller asks again later.              *)
get_oracle_source_states(c) ==
  /\ call[c].pc = "idle" /\ cursor # {}
  /\ call' = [call EXCEPT ![c] = [pc |-> "read", nonce |-> onchain, state |-> NoState]]
  /\ UNCHANGED <<emitted, onchain, cursor, tracker, surfaced, faults>>

(* should_block_poll: what was handed out is not on chain yet. *)
should_block_poll_Never(state, nonce) == FALSE

should_block_poll(state, nonce) ==
  state.last_had_update /\ \E f \in state.fetched_nonce : f > nonce

(* guard_already_committed: an observation the chain already has is no update. *)
guard_already_committed_Strict(result, nonce) ==
  [result EXCEPT !.updated = @ /\ ~ \E n \in result.nonce : n < nonce]

guard_already_committed(result, nonce) ==
  [result EXCEPT !.updated = @ /\ ~ \E n \in result.nonce : n <= nonce]

(* The observer drops what is not an update; nonce is what the caller read. *)
Surface(result, nonce) ==
  surfaced' = IF result.updated THEN surfaced \union {[batch |-> result, read |-> nonce]} ELSE surfaced

(* get_last_state, once the oracle state is read: resend or go and poll. *)
TrackerGetState(c) ==
  /\ call[c].pc = "read"
  /\ IF should_block_poll(tracker, call[c].nonce)
     THEN /\ \E r \in tracker.last_result : Surface(r, call[c].nonce)
          /\ call' = [call EXCEPT ![c] = Idle]
     ELSE /\ call' = [call EXCEPT ![c].pc = "poll", ![c].state = tracker]
          /\ UNCHANGED surfaced
  /\ UNCHANGED <<emitted, onchain, cursor, tracker, faults>>

(* The manager's answers: the events past its cursor, up to any of them,    *)
(* whether or not it has reconciled with the nonce it is given.             *)
Polled(nonce) ==
  UNION {{[updated |-> to > from, nonce |-> {to}, first |-> from + 1] : to \in from..Bigger(from, emitted)} :
         from \in UNION {{n, Bigger(n, nonce)} : n \in cursor}}

(* update_state: the answer replaces what was known, update or not. *)
update_state_Uncached(result) ==
  [fetched_nonce |-> result.nonce, last_had_update |-> result.updated, last_result |-> {}]

update_state(result) ==
  [fetched_nonce |-> result.nonce, last_had_update |-> result.updated, last_result |-> {result}]

poll_and_update_state(c) ==
  /\ call[c].pc = "poll" /\ cursor # {}
  /\ \E result \in Polled(call[c].nonce) :
       /\ cursor' = result.nonce
       /\ tracker' = update_state(result)
       /\ Surface(guard_already_committed(result, call[c].nonce), call[c].nonce)
  /\ call' = [call EXCEPT ![c] = Idle]
  /\ UNCHANGED <<emitted, onchain, faults>>

PollFails(c) ==
  /\ call[c].pc # "idle" /\ MayFail
  /\ Fail
  /\ call' = [call EXCEPT ![c] = Idle]
  /\ UNCHANGED <<emitted, onchain, cursor, tracker, surfaced>>

----------------------------------------------------------------------------
Emit ==
  /\ emitted < MaxNonce
  /\ emitted' = emitted + 1
  /\ UNCHANGED <<onchain, cursor, tracker, call, surfaced, faults>>

(* A certified batch in a block: process_validator_transactions_util hands  *)
(* it to execution, which records it if it continues the chain's nonce.     *)
process_jwk_update_util(batch) ==
  onchain' = IF batch.first = onchain + 1 THEN CHOOSE n \in batch.nonce : TRUE ELSE onchain

ExecuteUpdate ==
  /\ \E s \in surfaced :
       /\ process_jwk_update_util(s.batch)
       /\ surfaced' = surfaced \ {s}
  /\ UNCHANGED <<emitted, cursor, tracker, call, faults>>

(* The other validators certify a batch this one has not seen. *)
ExecuteOthers ==
  /\ \E n \in (onchain + 1)..emitted : onchain' = n
  /\ UNCHANGED <<emitted, cursor, tracker, call, surfaced, faults>>

(* RelayerWrapper::new: nothing of the tracker survives a restart. *)
Restart ==
  /\ MayFail /\ Fail
  /\ cursor' = {} /\ tracker' = NoState
  /\ call' = [c \in Callers |-> Idle]
  /\ surfaced' = {}
  /\ UNCHANGED <<emitted, onchain>>

Init ==
  /\ emitted = 0 /\ onchain = 0
  /\ cursor = {} /\ tracker = NoState
  /\ call = [c \in Callers |-> Idle]
  /\ surfaced = {} /\ faults = 0

Next ==
  \/ add_uri \/ Emit \/ ExecuteUpdate \/ ExecuteOthers \/ Restart
  \/ \E c \in Callers : \/ get_oracle_source_states(c) \/ TrackerGetState(c)
                        \/ poll_and_update_state(c) \/ PollFails(c)

Spec == Init /\ [][Next]_vars

(* No event falls between the manager, which hands it out once, and the     *)
(* chain: events handed out and not recorded are in the cached result that  *)
(* get_last_state resends until they are, together with everything between  *)
(* them and the chain, through failed polls, restarts and batches the other *)
(* validators record.  And no update is surfaced that the chain had already *)
(* recorded when the oracle state was read.                                 *)
NoEventDropped ==
  /\ \A n \in cursor : n > onchain =>
       /\ should_block_poll(tracker, onchain)
       /\ \E r \in tracker.last_result : r.updated /\ r.nonce = {n} /\ r.first <= onchain + 1
  /\ \A s \in surfaced : \A n \in s.batch.nonce : n > s.read

=============================================================================
