----------------------------- MODULE SafetyRules -----------------------------
(***************************************************************************)
(* SafetyRules (aptos-core/consensus/safety-rules): what a validator may   *)
(* sign.  Each validator keeps its SafetyData in a PersistentSafetyStorage *)
(* (a stored copy and a cached one); the votes, timeouts and order votes   *)
(* it signs are collected by its peers into quorum certificates, timeout   *)
(* certificates and ordering certificates.                                 *)
(*                                                                         *)
(* SafetyRules is called under a mutex and trusts no caller, so an action  *)
(* is one call with any arguments that pass its checks.  A call may fail   *)
(* to write its SafetyData, and the process may die between the write and  *)
(* the sending of what was signed.                                         *)
(*                                                                         *)
(* Validators are those that run this code.  The others in a quorum may    *)
(* sign anything at any time: a certificate only needs the signatures of   *)
(* its members in Validators.                                              *)
(***************************************************************************)
EXTENDS Integers, FiniteSets

CONSTANTS Validators,   \* the validators that run this code
          Epochs,
          Rounds,
          Quorums,      \* [Epochs -> sets of validators with quorum_voting_power]
          Blocks,       \* every block that anyone may propose
          Epoch, Round, \* [Blocks -> epoch], [Blocks -> round]
          Parent,       \* [Blocks -> the block certified by its quorum_cert]
          Ancestors,    \* [Blocks -> the block and everything it extends]
          None,
          TimeoutRounds, \* the rounds for which timeouts are requested; fewer than Rounds bounds a run
          Faults        \* pairs of a validator and "write", "lost" or "restart": what may happen to it

ASSUME ConstantTypes ==
    /\ Epochs \subseteq Nat /\ 1 \in Epochs
    /\ Rounds \subseteq Nat /\ 0 \in Rounds /\ TimeoutRounds \subseteq Rounds
    /\ Epoch \in [Blocks -> Epochs] /\ Round \in [Blocks -> Rounds]
    /\ Parent \in [Blocks -> Blocks] /\ Ancestors \in [Blocks -> SUBSET Blocks]
    /\ None \notin Blocks \cup Epochs

(* A block's id commits to its quorum certificate, and so to its parent.  Round 0 is the   *)
(* genesis of the epoch; BlockStore takes no other block at that round.                    *)
ASSUME BlocksAssumption ==
    /\ \A b \in Blocks : Round[b] # 0 => Ancestors[b] = Ancestors[Parent[b]] \cup {b}
    /\ \A b \in Blocks : Round[b] = 0 => Ancestors[b] = {b} /\ Parent[b] = b
    /\ \A b, c \in Blocks : Round[b] = 0 /\ Round[c] = 0 /\ Epoch[b] = Epoch[c] => b = c

(* quorum_voting_power is more than two thirds, and less than a third is outside Validators. *)
ASSUME QuorumAssumption ==
    \A e \in Epochs : \A P, Q \in Quorums[e] : P \cap Q \cap Validators # {}

VARIABLES stored,        \* internal_store: the SafetyData on disk
          cached,        \* cached_safety_data, None when dropped
          signer,        \* is validator_signer set?
          epoch_state,   \* epoch of the validator set in use, None before initialize
          waypoint,      \* epoch of the waypoint
          votes,         \* blocks voted for, in messages that left the validator
          timeouts,      \* [epoch, round, hqc] signed
          order_votes    \* blocks order-voted for

vars == <<stored, cached, signer, epoch_state, waypoint, votes, timeouts, order_votes>>

SafetyData ==
    [epoch : Epochs, last_voted_round : Rounds, preferred_round : Rounds,
     one_chain_round : Rounds, last_vote : Blocks \cup {None}, highest_timeout_round : Rounds]

NewSafetyData(e) ==
    [epoch |-> e, last_voted_round |-> 0, preferred_round |-> 0, one_chain_round |-> 0,
     last_vote |-> None, highest_timeout_round |-> 0]

Timeouts == [epoch : Epochs, round : Rounds, hqc : Rounds]

(* PersistentSafetyStorage::initialize *)
Init ==
    /\ stored = [v \in Validators |-> NewSafetyData(1)]
    /\ cached = [v \in Validators |-> NewSafetyData(1)]
    /\ signer = [v \in Validators |-> FALSE]
    /\ epoch_state = [v \in Validators |-> None]
    /\ waypoint = [v \in Validators |-> 1]
    /\ votes = [v \in Validators |-> {}]
    /\ timeouts = [v \in Validators |-> {}]
    /\ order_votes = [v \in Validators |-> {}]

-----------------------------------------------------------------------------
(* QuorumCert::verify under the validator set of epoch e.  Genesis needs no signatures. *)
Certified(b, e) ==
    Round[b] = 0 \/ \E Q \in Quorums[e] : \A v \in Q \cap Validators : b \in votes[v]

(* TwoChainTimeoutCertificate::verify: the round of its quorum cert is the highest round *)
(* signed by any member.                                                                  *)
ValidTC(e, r, hqc) ==
    /\ hqc < r
    /\ \E Q \in Quorums[e] :
          /\ \A v \in Q \cap Validators :
                \E t \in timeouts[v] : t.epoch = e /\ t.round = r /\ t.hqc <= hqc
          /\ Q \subseteq Validators =>
                \E v \in Q : [epoch |-> e, round |-> r, hqc |-> hqc] \in timeouts[v]
    /\ \E b \in Blocks : Round[b] = hqc /\ Certified(b, e)

(* Block::verify_well_formed, as far as the chain is concerned. *)
WellFormed(b) ==
    /\ Round[b] # 0
    /\ Round[Parent[b]] < Round[b]
    /\ Epoch[Parent[b]] = Epoch[b]

-----------------------------------------------------------------------------
(* PersistentSafetyStorage::safety_data; reading fills the cache. *)
CurrentData(v) == IF cached[v] # None THEN cached[v] ELSE stored[v]

\* Mutants of Persist: the message is sent although the write failed, and the cache is kept.
Persist_SendsUnwritten(v, sd, Send, Unsent) ==
    \/ /\ stored' = [stored EXCEPT ![v] = sd]
       /\ cached' = [cached EXCEPT ![v] = sd]
       /\ Send \/ (<<v, "lost">> \in Faults /\ Unsent)
    \/ /\ <<v, "write">> \in Faults
       /\ cached' = [cached EXCEPT ![v] = None]
       /\ UNCHANGED stored
       /\ Send

Persist_KeepsCache(v, sd, Send, Unsent) ==
    \/ /\ stored' = [stored EXCEPT ![v] = sd]
       /\ cached' = [cached EXCEPT ![v] = sd]
       /\ Send \/ (<<v, "lost">> \in Faults /\ Unsent)
    \/ /\ <<v, "write">> \in Faults
       /\ cached' = [cached EXCEPT ![v] = sd]
       /\ UNCHANGED stored
       /\ Unsent

(* set_safety_data succeeds, and the message leaves the validator or is lost with it; or    *)
(* the write fails, the cache is dropped and the caller gets an error instead of a message. *)
Persist(v, sd, Send, Unsent) ==
    \/ /\ stored' = [stored EXCEPT ![v] = sd]
       /\ cached' = [cached EXCEPT ![v] = sd]
       /\ Send \/ (<<v, "lost">> \in Faults /\ Unsent)
    \/ /\ <<v, "write">> \in Faults
       /\ cached' = [cached EXCEPT ![v] = None]
       /\ UNCHANGED stored
       /\ Unsent

MaxOf(a, b) == IF a >= b THEN a ELSE b

\* Mutant of ObserveQc: the round after the certified one.
ObserveQc_NextRound(sd, b) ==
    [sd EXCEPT !.one_chain_round = MaxOf(@, Round[b] + 1),
               !.preferred_round = MaxOf(@, Round[Parent[b]])]

(* observe_qc, of the certificate for block b *)
ObserveQc(sd, b) ==
    [sd EXCEPT !.one_chain_round = MaxOf(@, Round[b]),
               !.preferred_round = MaxOf(@, Round[Parent[b]])]

(* safe_to_vote, the 2-chain voting rule; the caller may pass any timeout certificate.  *)
(* Without one tc_round is 0, and round 1 passes by the first disjunct anyway.           *)
SafeToVote(b, e) ==
    \/ Round[b] = Round[Parent[b]] + 1
    \/ \E hqc \in Rounds : ValidTC(e, Round[b] - 1, hqc) /\ Round[Parent[b]] >= hqc

VotedInRound(sd, r) == sd.last_vote # None /\ Round[sd.last_vote] = r

(* guarded_construct_and_sign_vote_two_chain: a vote already given in this round is sent again. *)
ResendLastVote(v, b) ==
    LET sd == CurrentData(v)
    IN  /\ signer[v] /\ sd.epoch = Epoch[b]
        /\ WellFormed(b) /\ VotedInRound(sd, Round[b])
        /\ Certified(Parent[b], epoch_state[v])
        /\ votes' = [votes EXCEPT ![v] = @ \cup {sd.last_vote}]
        /\ cached' = [cached EXCEPT ![v] = sd]
        /\ UNCHANGED <<stored, signer, epoch_state, waypoint, timeouts, order_votes>>

ConstructAndSignVote(v, b) ==
    LET sd == CurrentData(v)
    IN  /\ signer[v] /\ sd.epoch = Epoch[b]
        /\ WellFormed(b)
        /\ ~VotedInRound(sd, Round[b])
        /\ Round[b] > sd.last_voted_round
        /\ Certified(Parent[b], epoch_state[v])
        /\ SafeToVote(b, epoch_state[v])
        /\ Persist(v, [ObserveQc(sd, Parent[b]) EXCEPT !.last_voted_round = Round[b],
                                                       !.last_vote = b],
                   votes' = [votes EXCEPT ![v] = @ \cup {b}], UNCHANGED votes)
        /\ UNCHANGED <<signer, epoch_state, waypoint, timeouts, order_votes>>

\* Mutant of SafeToTimeout: a timeout may carry a certificate below one_chain_round.
SafeToTimeout_AnyQc(r, hqc, sd, e) ==
    r = hqc + 1 \/ \E h \in Rounds : ValidTC(e, r - 1, h)

(* safe_to_timeout, the 2-chain timeout rule *)
SafeToTimeout(r, hqc, sd, e) ==
    /\ hqc >= sd.one_chain_round
    /\ \/ r = hqc + 1
       \/ \E h \in Rounds : ValidTC(e, r - 1, h)

(* guarded_sign_timeout_with_qc, for a timeout of round r that carries the certificate of qb. *)
SignTimeoutWithQc(v, r, qb) ==
    LET sd == CurrentData(v)
        hqc == Round[qb]
    IN  /\ signer[v] /\ sd.epoch = Epoch[qb]
        /\ hqc < r /\ r >= sd.last_voted_round
        /\ SafeToTimeout(r, hqc, sd, epoch_state[v])
        /\ Certified(qb, epoch_state[v])
        /\ Persist(v, [sd EXCEPT !.last_voted_round = r,
                                 !.highest_timeout_round = MaxOf(@, r)],
                   timeouts' = [timeouts EXCEPT ![v] =
                                  @ \cup {[epoch |-> sd.epoch, round |-> r, hqc |-> hqc]}],
                   UNCHANGED timeouts)
        /\ UNCHANGED <<signer, epoch_state, waypoint, votes, order_votes>>

\* Mutant of SafeForOrderVote: a round that was timed out may still be order-voted.
SafeForOrderVote_Always(b, sd) == TRUE

(* safe_for_order_vote *)
SafeForOrderVote(b, sd) == Round[b] > sd.highest_timeout_round

(* guarded_construct_and_sign_order_vote: the block comes with its own certificate. *)
ConstructAndSignOrderVote(v, b) ==
    LET sd == ObserveQc(CurrentData(v), b)
    IN  /\ signer[v] /\ sd.epoch = Epoch[b]
        /\ Certified(b, epoch_state[v])
        /\ SafeForOrderVote(b, sd)
        /\ Persist(v, sd, order_votes' = [order_votes EXCEPT ![v] = @ \cup {b}],
                   UNCHANGED order_votes)
        /\ UNCHANGED <<signer, epoch_state, waypoint, votes, timeouts>>

(* guarded_initialize with a proof that leads to epoch e.  The proof verifies against a      *)
(* waypoint no later than itself; the waypoint moves even if the safety data is ahead of the *)
(* proof (WaypointOutOfDate) or cannot be written.  Outside the validator set of e the       *)
(* signer is dropped.                                                                        *)
InitializeRefused(v, e) ==
    /\ e < CurrentData(v).epoch
    /\ cached' = [cached EXCEPT ![v] = CurrentData(v)]
    /\ UNCHANGED <<stored, signer, epoch_state>>

InitializeFailed(v, e) ==
    /\ <<v, "write">> \in Faults
    /\ e > CurrentData(v).epoch
    /\ cached' = [cached EXCEPT ![v] = None]
    /\ UNCHANGED <<stored, signer, epoch_state>>

\* Mutant of InitializeDone: the SafetyData of the same epoch is reset too.
InitializeDone_Resets(v, e) ==
    /\ e >= CurrentData(v).epoch
    /\ stored' = [stored EXCEPT ![v] = NewSafetyData(e)]
    /\ cached' = [cached EXCEPT ![v] = NewSafetyData(e)]
    /\ epoch_state' = [epoch_state EXCEPT ![v] = e]
    /\ signer' = [signer EXCEPT ![v] = v \in UNION Quorums[e]]

InitializeDone(v, e) ==
    /\ e >= CurrentData(v).epoch
    /\ LET sd == IF e > CurrentData(v).epoch THEN NewSafetyData(e) ELSE CurrentData(v)
       IN  /\ stored' = [stored EXCEPT ![v] = sd]
           /\ cached' = [cached EXCEPT ![v] = sd]
    /\ epoch_state' = [epoch_state EXCEPT ![v] = e]
    /\ signer' = [signer EXCEPT ![v] = v \in UNION Quorums[e]]

Initialize(v, e) ==
    /\ e >= waypoint[v]
    /\ waypoint' = [waypoint EXCEPT ![v] = e]
    /\ InitializeRefused(v, e) \/ InitializeFailed(v, e) \/ InitializeDone(v, e)
    /\ UNCHANGED <<votes, timeouts, order_votes>>

(* The process dies; PersistentSafetyStorage::new and SafetyRules::new start from the disk. *)
Restart(v) ==
    /\ <<v, "restart">> \in Faults
    /\ cached' = [cached EXCEPT ![v] = None]
    /\ signer' = [signer EXCEPT ![v] = FALSE]
    /\ epoch_state' = [epoch_state EXCEPT ![v] = None]
    /\ UNCHANGED <<stored, waypoint, votes, timeouts, order_votes>>

ValidatorNext(v) ==
    \/ \E b \in Blocks : \/ ResendLastVote(v, b)
                         \/ ConstructAndSignVote(v, b)
                         \/ ConstructAndSignOrderVote(v, b)
                         \/ \E r \in TimeoutRounds : SignTimeoutWithQc(v, r, b)
    \/ \E e \in Epochs : Initialize(v, e)
    \/ Restart(v)

Next == \E v \in Validators : ValidatorNext(v)

Spec == Init /\ [][Next]_vars

-----------------------------------------------------------------------------
TypeOK ==
    /\ stored \in [Validators -> SafetyData]
    /\ cached \in [Validators -> SafetyData \cup {None}]
    /\ signer \in [Validators -> BOOLEAN]
    /\ epoch_state \in [Validators -> Epochs \cup {None}]
    /\ waypoint \in [Validators -> Epochs]
    /\ votes \in [Validators -> SUBSET Blocks]
    /\ timeouts \in [Validators -> SUBSET Timeouts]
    /\ order_votes \in [Validators -> SUBSET Blocks]

(* A block is ordered by a quorum of order votes (insert_ordered_cert), or by the certificate *)
(* of a child in the next round (insert_quorum_cert and construct_ledger_info_2chain).        *)
OrderCert(b) ==
    \E Q \in Quorums[Epoch[b]] : \A v \in Q \cap Validators : b \in order_votes[v]

TwoChainCommit(b) ==
    \E c \in Blocks : /\ WellFormed(c) /\ Parent[c] = b
                      /\ Round[c] = Round[b] + 1
                      /\ Certified(c, Epoch[c])

Ordered == {b \in Blocks : OrderCert(b) \/ TwoChainCommit(b)}

(* Two blocks ordered in one epoch lie on one chain, whichever of the two rules ordered     *)
(* each, and whatever was lost, timed out, written or restarted in between.                 *)
Agreement ==
    \A b, c \in Ordered : Epoch[b] = Epoch[c] => b \in Ancestors[c] \/ c \in Ancestors[b]

(* A validator never votes for two blocks of one round: not after a restart, not after a    *)
(* failed write, not when a lost vote is sent again.                                        *)
OneVotePerRound ==
    \A v \in Validators : \A b, c \in votes[v] :
        Epoch[b] = Epoch[c] /\ Round[b] = Round[c] => b = c

(* Once a validator has order-voted for a block, every timeout it signs for that round or   *)
(* later carries a certificate at least as high: before or after, in whichever order the    *)
(* two calls came.                                                                          *)
TimeoutsKeepOrderVotes ==
    \A v \in Validators : \A b \in order_votes[v], t \in timeouts[v] :
        t.epoch = Epoch[b] /\ t.round >= Round[b] => t.hqc >= Round[b]

(* What safety_data() answers from memory is what is on disk, and the validator set in use  *)
(* is that of the epoch on disk.                                                            *)
MemoryMatchesDisk ==
    \A v \in Validators :
        /\ cached[v] # None => cached[v] = stored[v]
        /\ signer[v] => epoch_state[v] = stored[v].epoch

Keeps(old, new) ==
    \/ new.epoch > old.epoch
    \/ /\ new.epoch = old.epoch
       /\ new.last_voted_round >= old.last_voted_round
       /\ new.preferred_round >= old.preferred_round
       /\ new.one_chain_round >= old.one_chain_round
       /\ new.highest_timeout_round >= old.highest_timeout_round

(* What is on disk never goes back: an epoch is left only for a later one, and within an    *)
(* epoch no round that binds the validator (its last vote, the highest certificate it has   *)
(* acted on, its highest timeout) is lowered, whichever call writes and whatever was lost.  *)
NeverForgets == [][\A v \in Validators : Keeps(stored[v], stored'[v])]_vars
=============================================================================
