------------------------------- MODULE MCVoting -------------------------------
(***************************************************************************)
(* The rules a validator votes by, and the certificates made of the votes. *)
(*                                                                         *)
(* For SafetyRules: chains of blocks over MaxRound rounds, with Payloads   *)
(* competing proposals for a round on one parent.  A block is its whole    *)
(* chain, as a hash would fix it, written as a number: in base             *)
(* Payloads + 1, digit r is the payload of round r, or 0 when the chain    *)
(* skips the round.  Certificates runs on an instance of its own; a        *)
(* behaviour is one of one of the two, chosen in the initial state.        *)
(***************************************************************************)
EXTENDS SafetyRules, TLC

CONSTANTS MaxEpoch, MaxRound, Payloads, Byzantine

MCEpochs == 1..MaxEpoch
MCRounds == 0..MaxRound

Pow(r) == (Payloads + 1)^r
RoundOf(chain) == CHOOSE r \in MCRounds : chain < Pow(r) /\ \A q \in MCRounds : q < r => chain >= Pow(q)

(* The first epoch has MaxRound rounds, each later one a single round. *)
FirstOf(e) == IF e = 1 THEN 0 ELSE Pow(MaxRound) + (e - 2) * Pow(1)
MCBlocks == 0..(FirstOf(MaxEpoch + 1) - 1)
MCEpoch == [b \in MCBlocks |-> CHOOSE e \in MCEpochs : b \in FirstOf(e)..(FirstOf(e + 1) - 1)]
Chain(b) == b - FirstOf(MCEpoch[b])
MCRound == [b \in MCBlocks |-> RoundOf(Chain(b))]
MCParent == [b \in MCBlocks |->
               IF MCRound[b] = 0 THEN b
               ELSE FirstOf(MCEpoch[b]) + (Chain(b) % Pow(MCRound[b] - 1))]
MCAncestors == [b \in MCBlocks |->
                  {FirstOf(MCEpoch[b]) + (Chain(b) % Pow(r)) : r \in MCRounds}]

(* Every validator weighs the same.  Fewer signatures of Validators are never enough, so   *)
(* the quorums that hold all of Byzantine give every certificate.                          *)
All == Validators \cup Byzantine
QuorumSize == (2 * Cardinality(All)) \div 3 + 1
MCQuorums == [e \in MCEpochs |->
                {Q \in SUBSET All : Cardinality(Q) = QuorumSize /\ Byzantine \subseteq Q}]

(* What may happen to whom: nothing, or everything to the validators of FaultyStores. *)
CONSTANT FaultyStores
MCFaults == FaultyStores \X {"write", "lost", "restart"}

Symmetry == Permutations(Validators \ FaultyStores)

-----------------------------------------------------------------------------
VARIABLES comp,   \* the component that runs
          round, blocks, qcs, tcs, author_to_vote, partial_tc, hcc

Certs == INSTANCE Certificates WITH
    N <- 4, Quorum <- 3, MaxFailedAuthors <- 1, MaxRound <- 2

certVars == <<round, blocks, qcs, tcs, author_to_vote, partial_tc, hcc>>

VotingInit == Init /\ Certs!Init /\ comp \in {"rounds", "epochs", "certs"}

(* Two rounds of the first epoch; one round of two epochs, in which a validator without    *)
(* faults never starts (the others and those of Byzantine make a quorum); or certificates. *)
VotingNext ==
    /\ UNCHANGED comp
    /\ \/ comp = "rounds" /\ Next /\ UNCHANGED <<waypoint, certVars>>
       \/ comp = "epochs" /\ Next /\ UNCHANGED certVars
          /\ (\E v \in Validators \ FaultyStores : epoch_state'[v] = None)
          /\ \A v \in Validators : \A b \in votes'[v] \cup order_votes'[v] : Round[b] <= 1
       \/ comp = "certs" /\ Certs!Next /\ UNCHANGED vars

VotingSpec == VotingInit /\ [][VotingNext]_<<vars, certVars, comp>>

(* What a validator builds of the votes it collects, its peers verify (see Certificates). *)
BuiltVerifies == comp = "certs" => Certs!BuiltVerifies
=============================================================================
