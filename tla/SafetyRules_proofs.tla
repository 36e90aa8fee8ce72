------------------------- MODULE SafetyRules_proofs -------------------------
(***************************************************************************)
(* Agreement of the blocks ordered under the SafetyRules, for any number   *)
(* of validators, blocks, rounds and epochs.                               *)
(*                                                                         *)
(* The inductive invariant has two parts.  Bounded says of one validator   *)
(* how what it has signed relates to the SafetyData on its disk; it gives  *)
(* one vote per round, and timeouts that keep the votes and order votes.   *)
(* Justified says that what it signed for was certified.  Agreement        *)
(* follows from the two by taking the lowest round that contradicts it.    *)
(***************************************************************************)
EXTENDS SafetyRules, WellFoundedInduction, TLAPS

(* The provers for the steps that name none, in the order they are tried. *)
USE SMT, Zenon, SMTT(30), ZenonT(30)

USE ConstantTypes

(* The votes of a validator, including one that was written but not sent. *)
Signed(v) == votes[v] \cup ({stored[v].last_vote} \ {None})

Bounded(v) ==
    LET sd == stored[v]
    IN  /\ cached[v] # None => cached[v] = sd
        /\ signer[v] => epoch_state[v] = sd.epoch
        /\ \A b \in Signed(v) :
              /\ WellFormed(b) /\ Epoch[b] <= sd.epoch
              /\ Epoch[b] = sd.epoch => /\ Round[b] <= sd.last_voted_round
                                        /\ Round[Parent[b]] <= sd.one_chain_round
        /\ \A t \in timeouts[v] :
              /\ t.epoch <= sd.epoch
              /\ t.epoch = sd.epoch => /\ t.round <= sd.last_voted_round
                                       /\ t.round <= sd.highest_timeout_round
        /\ \A b \in order_votes[v] :
              /\ Epoch[b] <= sd.epoch
              /\ Epoch[b] = sd.epoch => Round[b] <= sd.one_chain_round
        /\ \A b, c \in Signed(v) : Epoch[b] = Epoch[c] /\ Round[b] = Round[c] => b = c
        /\ \A b \in Signed(v), t \in timeouts[v] :
              t.epoch = Epoch[b] /\ t.round >= Round[b] => t.hqc >= Round[Parent[b]]
        /\ \A b \in order_votes[v], t \in timeouts[v] :
              t.epoch = Epoch[b] /\ t.round >= Round[b] => t.hqc >= Round[b]

Justified(v) ==
    /\ \A b \in Signed(v) : Certified(Parent[b], Epoch[b]) /\ SafeToVote(b, Epoch[b])
    /\ \A b \in order_votes[v] : Certified(b, Epoch[b])

Inv == TypeOK /\ \A v \in Validators : Bounded(v) /\ Justified(v)

-----------------------------------------------------------------------------
(* MaxOf returns a round, no lower than either argument. *)
LEMMA MaxOfFacts ==
    ASSUME NEW a \in Rounds, NEW b \in Rounds
    PROVE  MaxOf(a, b) \in Rounds /\ MaxOf(a, b) >= a /\ MaxOf(a, b) >= b
  BY DEF MaxOf

(* observe_qc only raises one_chain_round and preferred_round. *)
LEMMA ObserveQcFacts ==
    ASSUME NEW sd \in SafetyData, NEW b \in Blocks
    PROVE  LET new == ObserveQc(sd, b)
           IN  /\ new \in SafetyData
               /\ new.one_chain_round >= sd.one_chain_round
               /\ new.one_chain_round >= Round[b]
               /\ new.preferred_round >= sd.preferred_round
               /\ new.epoch = sd.epoch
               /\ new.last_voted_round = sd.last_voted_round
               /\ new.last_vote = sd.last_vote
               /\ new.highest_timeout_round = sd.highest_timeout_round
<1>1. /\ Round[b] \in Rounds /\ Round[Parent[b]] \in Rounds
      /\ sd.one_chain_round \in Rounds /\ sd.preferred_round \in Rounds
  BY DEF SafetyData
<1>2. /\ MaxOf(sd.one_chain_round, Round[b]) \in Rounds
      /\ MaxOf(sd.one_chain_round, Round[b]) >= sd.one_chain_round
      /\ MaxOf(sd.one_chain_round, Round[b]) >= Round[b]
      /\ MaxOf(sd.preferred_round, Round[Parent[b]]) \in Rounds
      /\ MaxOf(sd.preferred_round, Round[Parent[b]]) >= sd.preferred_round
  BY <1>1, MaxOfFacts
<1> QED BY <1>2 DEF ObserveQc, SafetyData

(* What safety_data() returns is what is on disk. *)
LEMMA CurrentIsStored ==
    ASSUME TypeOK, NEW v \in Validators, Bounded(v)
    PROVE  CurrentData(v) = stored[v] /\ stored[v] \in SafetyData
  BY DEF TypeOK, Bounded, CurrentData

(* PersistentSafetyStorage::initialize writes a well-typed SafetyData. *)
LEMMA TypeInit == Init => TypeOK
<1> SUFFICES ASSUME Init PROVE TypeOK
  OBVIOUS
<1>1. NewSafetyData(1) \in SafetyData
  BY DEF NewSafetyData, SafetyData
<1> QED BY <1>1 DEF Init, TypeOK

(* A validator that has signed nothing satisfies the invariant. *)
LEMMA InvInit == Init => Inv
<1> SUFFICES ASSUME Init, NEW v \in Validators PROVE Bounded(v) /\ Justified(v)
  BY TypeInit DEF Inv
<1>1. Signed(v) = {}
  BY DEF Init, Signed, NewSafetyData
<1>2. timeouts[v] = {} /\ order_votes[v] = {} /\ signer[v] = FALSE /\ cached[v] = stored[v]
  BY DEF Init
<1> QED BY <1>1, <1>2 DEF Bounded, Justified

-----------------------------------------------------------------------------
(* The calls, one by one: the types, and the invariant of the validator that is called. *)

(* Resending last_vote sends a vote that Signed already counts. *)
LEMMA ResendStep ==
    ASSUME TypeOK, NEW u \in Validators, Bounded(u), NEW b \in Blocks, ResendLastVote(u, b)
    PROVE  TypeOK' /\ Bounded(u)' /\ Signed(u)' = Signed(u)
<1> DEFINE sd == stored[u]
<1>1. CurrentData(u) = sd /\ sd \in SafetyData
  BY CurrentIsStored
<1>2. /\ sd.last_vote \in Blocks
      /\ stored' = stored
      /\ cached' = [cached EXCEPT ![u] = sd]
      /\ votes' = [votes EXCEPT ![u] = votes[u] \cup {sd.last_vote}]
      /\ UNCHANGED <<signer, epoch_state, waypoint, timeouts, order_votes>>
  BY <1>1 DEF ResendLastVote, VotedInRound, SafetyData
<1>3. TypeOK'
  BY <1>1, <1>2 DEF TypeOK
<1>4. Signed(u)' = Signed(u)
  BY <1>2 DEF Signed, TypeOK
<1>5. cached'[u] = stored'[u]
  BY <1>2 DEF TypeOK
<1>6. Bounded(u)'
  BY <1>2, <1>4, <1>5 DEF Bounded, WellFormed
<1> QED BY <1>3, <1>4, <1>6

(* A vote raises last_voted_round to its round, so the bounds hold of it too. *)
LEMMA VoteStep ==
    ASSUME TypeOK, NEW u \in Validators, Bounded(u), NEW b \in Blocks, ConstructAndSignVote(u, b)
    PROVE  /\ TypeOK' /\ Bounded(u)'
           /\ Signed(u)' \subseteq Signed(u) \cup {b}
           /\ Certified(Parent[b], Epoch[b]) /\ SafeToVote(b, Epoch[b])
<1> DEFINE sd == stored[u]
           new == [ObserveQc(sd, Parent[b]) EXCEPT !.last_voted_round = Round[b],
                                                   !.last_vote = b]
<1>1. CurrentData(u) = sd /\ sd \in SafetyData
  BY CurrentIsStored
<1>2. /\ new \in SafetyData /\ new.epoch = sd.epoch
      /\ new.last_voted_round = Round[b] /\ new.last_vote = b
      /\ new.one_chain_round >= sd.one_chain_round
      /\ new.one_chain_round >= Round[Parent[b]]
      /\ new.highest_timeout_round = sd.highest_timeout_round
  <2> DEFINE obs == ObserveQc(sd, Parent[b])
  <2>1. Parent[b] \in Blocks /\ Round[b] \in Rounds
    OBVIOUS
  <2>2. /\ obs \in SafetyData /\ obs.epoch = sd.epoch
        /\ obs.one_chain_round >= sd.one_chain_round
        /\ obs.one_chain_round >= Round[Parent[b]]
        /\ obs.highest_timeout_round = sd.highest_timeout_round
    BY <1>1, <2>1, ObserveQcFacts
  <2>3. new = [obs EXCEPT !.last_voted_round = Round[b], !.last_vote = b]
    OBVIOUS
  <2> HIDE DEF obs, new
  <2>4. new \in SafetyData
    BY <2>1, <2>2, <2>3 DEF SafetyData
  <2>5. /\ new.last_voted_round = Round[b] /\ new.last_vote = b
        /\ new.epoch = obs.epoch /\ new.one_chain_round = obs.one_chain_round
        /\ new.highest_timeout_round = obs.highest_timeout_round
    BY <2>1, <2>2, <2>3 DEF SafetyData
  <2> QED BY <2>2, <2>4, <2>5
<1>3. /\ epoch_state[u] = sd.epoch /\ sd.epoch = Epoch[b]
      /\ WellFormed(b) /\ Certified(Parent[b], Epoch[b]) /\ SafeToVote(b, Epoch[b])
      /\ Round[b] > sd.last_voted_round
  BY <1>1 DEF ConstructAndSignVote, Bounded
<1>4. UNCHANGED <<signer, epoch_state, waypoint, timeouts, order_votes>>
  BY DEF ConstructAndSignVote
<1> HIDE DEF new
<1>5. \/ /\ stored' = [stored EXCEPT ![u] = new] /\ cached' = [cached EXCEPT ![u] = new]
         /\ votes' = [votes EXCEPT ![u] = votes[u] \cup {b}] \/ votes' = votes
      \/ stored' = stored /\ cached' = [cached EXCEPT ![u] = None] /\ votes' = votes
  BY <1>1 DEF ConstructAndSignVote, Persist, new
<1>6. TypeOK'
  BY <1>2, <1>4, <1>5 DEF TypeOK
<1>7. CASE stored' = stored /\ cached' = [cached EXCEPT ![u] = None] /\ votes' = votes
  <2>1. Signed(u)' = Signed(u) /\ cached'[u] = None
    BY <1>7 DEF Signed, TypeOK
  <2>2. Bounded(u)'
    BY <1>4, <1>7, <2>1 DEF Bounded, WellFormed
  <2> QED BY <1>3, <1>6, <2>1, <2>2
<1>8. CASE /\ stored' = [stored EXCEPT ![u] = new] /\ cached' = [cached EXCEPT ![u] = new]
           /\ votes' = [votes EXCEPT ![u] = votes[u] \cup {b}] \/ votes' = votes
  <2>1. stored'[u] = new /\ cached'[u] = new
    BY <1>8 DEF TypeOK
  <2>2. votes'[u] \subseteq votes[u] \cup {b}
    BY <1>8 DEF TypeOK
  <2>3. Signed(u)' \subseteq Signed(u) \cup {b}
    BY <1>2, <2>1, <2>2 DEF Signed
  <2>4. Signed(u) \subseteq Blocks /\ timeouts[u] \subseteq Timeouts /\ order_votes[u] \subseteq Blocks
    BY <1>1 DEF Signed, TypeOK, SafetyData
  <2>5. \A c \in Signed(u) : Epoch[c] = sd.epoch => Round[c] < Round[b]
    <3> SUFFICES ASSUME NEW c \in Signed(u), Epoch[c] = sd.epoch PROVE Round[c] < Round[b]
      OBVIOUS
    <3>1. Round[c] <= sd.last_voted_round
      BY DEF Bounded
    <3>2. Round[c] \in Nat /\ Round[b] \in Nat /\ sd.last_voted_round \in Nat
      BY <1>1, <2>4 DEF SafetyData
    <3> QED BY <1>3, <3>1, <3>2
  <2>6. \A t \in timeouts[u] : t.epoch = sd.epoch => t.round < Round[b]
    <3> SUFFICES ASSUME NEW t \in timeouts[u], t.epoch = sd.epoch PROVE t.round < Round[b]
      OBVIOUS
    <3>1. t.round <= sd.last_voted_round
      BY DEF Bounded
    <3>2. t.round \in Nat /\ Round[b] \in Nat /\ sd.last_voted_round \in Nat
      BY <1>1, <2>4 DEF SafetyData, Timeouts
    <3> QED BY <1>3, <3>1, <3>2
  <2>7. Bounded(u)'
    <3>1. \A c \in Signed(u)' :
             /\ WellFormed(c) /\ Epoch[c] <= new.epoch
             /\ Epoch[c] = new.epoch => /\ Round[c] <= new.last_voted_round
                                        /\ Round[Parent[c]] <= new.one_chain_round
      <4> SUFFICES ASSUME NEW c \in Signed(u)'
                   PROVE /\ WellFormed(c) /\ Epoch[c] <= new.epoch
                         /\ Epoch[c] = new.epoch => /\ Round[c] <= new.last_voted_round
                                                    /\ Round[Parent[c]] <= new.one_chain_round
        OBVIOUS
      <4>1. CASE c = b
        <5>1. Epoch[b] \in Nat /\ Round[b] \in Nat /\ Round[Parent[b]] \in Nat
          OBVIOUS
        <5>2. new.one_chain_round \in Nat
          BY <1>2 DEF SafetyData
        <5> QED BY <1>2, <1>3, <4>1, <5>1, <5>2
      <4>2. CASE c \in Signed(u)
        <5>1. /\ WellFormed(c) /\ Epoch[c] <= sd.epoch
              /\ Epoch[c] = sd.epoch => Round[Parent[c]] <= sd.one_chain_round
          BY <4>2 DEF Bounded
        <5>2. c \in Blocks /\ Parent[c] \in Blocks
          BY <2>4, <4>2
        <5>3. /\ Round[c] \in Nat /\ Round[b] \in Nat /\ Round[Parent[c]] \in Nat
              /\ new.one_chain_round \in Nat /\ sd.one_chain_round \in Nat
          BY <1>1, <1>2, <5>2 DEF SafetyData
        <5>4. Epoch[c] = sd.epoch => Round[c] < Round[b]
          BY <2>5, <4>2
        <5> QED BY <1>2, <5>1, <5>3, <5>4
      <4> QED BY <2>3, <4>1, <4>2
    <3>2. \A t \in timeouts[u] :
             /\ t.epoch <= new.epoch
             /\ t.epoch = new.epoch => /\ t.round <= new.last_voted_round
                                       /\ t.round <= new.highest_timeout_round
      <4> SUFFICES ASSUME NEW t \in timeouts[u], t.epoch = new.epoch
                   PROVE  t.round <= Round[b]
        BY <1>2 DEF Bounded
      <4>1. t.round < Round[b] /\ t.round \in Nat /\ Round[b] \in Nat
        BY <1>2, <2>4, <2>6 DEF Timeouts
      <4> QED BY <4>1
    <3>3. \A c \in order_votes[u] :
             /\ Epoch[c] <= new.epoch
             /\ Epoch[c] = new.epoch => Round[c] <= new.one_chain_round
      <4> SUFFICES ASSUME NEW c \in order_votes[u], Epoch[c] = new.epoch
                   PROVE  Round[c] <= new.one_chain_round
        BY <1>2 DEF Bounded
      <4>1. Round[c] <= sd.one_chain_round
        BY <1>2 DEF Bounded
      <4>2. Round[c] \in Nat /\ sd.one_chain_round \in Nat /\ new.one_chain_round \in Nat
        BY <1>1, <1>2, <2>4 DEF SafetyData
      <4> QED BY <1>2, <4>1, <4>2
    <3>4. \A c, d \in Signed(u)' : Epoch[c] = Epoch[d] /\ Round[c] = Round[d] => c = d
      <4> SUFFICES ASSUME NEW c \in Signed(u) \cup {b}, NEW d \in Signed(u) \cup {b},
                          Epoch[c] = Epoch[d], Round[c] = Round[d]
                   PROVE  c = d
        BY <2>3
      <4>1. CASE c \in Signed(u) /\ d \in Signed(u)
        BY <4>1 DEF Bounded
      <4>2. CASE c = b \/ d = b
        <5>1. Round[b] \in Nat /\ Epoch[b] = sd.epoch
          BY <1>3
        <5> QED BY <2>5, <4>2, <5>1
      <4> QED BY <4>1, <4>2
    <3>5. \A c \in Signed(u)', t \in timeouts[u] :
             t.epoch = Epoch[c] /\ t.round >= Round[c] => t.hqc >= Round[Parent[c]]
      <4> SUFFICES ASSUME NEW c \in Signed(u) \cup {b}, NEW t \in timeouts[u],
                          t.epoch = Epoch[c], t.round >= Round[c]
                   PROVE  t.hqc >= Round[Parent[c]]
        BY <2>3
      <4>1. CASE c \in Signed(u)
        BY <4>1 DEF Bounded
      <4>2. CASE c = b
        <5>1. t.round < Round[b] /\ t.round \in Nat /\ Round[b] \in Nat
          BY <1>3, <2>4, <2>6, <4>2 DEF Timeouts
        <5> QED BY <4>2, <5>1
      <4> QED BY <4>1, <4>2
    <3> QED BY <1>2, <1>4, <2>1, <3>1, <3>2, <3>3, <3>4, <3>5 DEF Bounded, WellFormed
  <2> QED BY <1>3, <1>6, <2>3, <2>7
<1> QED BY <1>5, <1>7, <1>8

(* The timeout carries a certificate no lower than any the validator has voted or  *)
(* order-voted on, and raises last_voted_round and highest_timeout_round.            *)
LEMMA TimeoutStep ==
    ASSUME TypeOK, NEW u \in Validators, Bounded(u), NEW r \in Rounds, NEW qb \in Blocks,
           SignTimeoutWithQc(u, r, qb)
    PROVE  TypeOK' /\ Bounded(u)' /\ Signed(u)' = Signed(u)
<1> DEFINE sd == stored[u]
           hqc == Round[qb]
           new == [sd EXCEPT !.last_voted_round = r, !.highest_timeout_round = MaxOf(@, r)]
           tmo == [epoch |-> sd.epoch, round |-> r, hqc |-> hqc]
<1>1. CurrentData(u) = sd /\ sd \in SafetyData
  BY CurrentIsStored
<1>2. /\ new \in SafetyData /\ new.epoch = sd.epoch
      /\ new.last_voted_round = r /\ new.last_vote = sd.last_vote
      /\ new.one_chain_round = sd.one_chain_round
      /\ new.highest_timeout_round >= sd.highest_timeout_round
      /\ new.highest_timeout_round >= r
  <2>1. /\ MaxOf(sd.highest_timeout_round, r) \in Rounds
        /\ MaxOf(sd.highest_timeout_round, r) >= sd.highest_timeout_round
        /\ MaxOf(sd.highest_timeout_round, r) >= r
    BY <1>1, MaxOfFacts DEF SafetyData
  <2> QED BY <1>1, <2>1 DEF SafetyData
<1>3. r >= sd.last_voted_round /\ hqc >= sd.one_chain_round
  BY <1>1 DEF SignTimeoutWithQc, SafeToTimeout
<1>4. UNCHANGED <<signer, epoch_state, waypoint, votes, order_votes>>
  BY DEF SignTimeoutWithQc
<1>5. tmo \in Timeouts /\ tmo.epoch = sd.epoch /\ tmo.round = r /\ tmo.hqc = hqc
  BY <1>1 DEF Timeouts, SafetyData
<1>6. Persist(u, new, timeouts' = [timeouts EXCEPT ![u] = timeouts[u] \cup {tmo}],
              UNCHANGED timeouts)
  BY <1>1 DEF SignTimeoutWithQc
<1> HIDE DEF new, tmo
<1>7. \/ /\ stored' = [stored EXCEPT ![u] = new] /\ cached' = [cached EXCEPT ![u] = new]
         /\ timeouts' = [timeouts EXCEPT ![u] = timeouts[u] \cup {tmo}] \/ timeouts' = timeouts
      \/ stored' = stored /\ cached' = [cached EXCEPT ![u] = None] /\ timeouts' = timeouts
  BY <1>6 DEF Persist
<1>8. TypeOK'
  BY <1>2, <1>4, <1>5, <1>7 DEF TypeOK
<1>9. CASE stored' = stored /\ cached' = [cached EXCEPT ![u] = None] /\ timeouts' = timeouts
  <2>1. Signed(u)' = Signed(u) /\ cached'[u] = None
    BY <1>4, <1>9 DEF Signed, TypeOK
  <2>2. Bounded(u)'
    BY <1>4, <1>9, <2>1 DEF Bounded, WellFormed
  <2> QED BY <1>8, <2>1, <2>2
<1>10. CASE /\ stored' = [stored EXCEPT ![u] = new] /\ cached' = [cached EXCEPT ![u] = new]
            /\ timeouts' = [timeouts EXCEPT ![u] = timeouts[u] \cup {tmo}] \/ timeouts' = timeouts
  <2>1. stored'[u] = new /\ cached'[u] = new /\ timeouts'[u] \subseteq timeouts[u] \cup {tmo}
    BY <1>10 DEF TypeOK
  <2>2. Signed(u)' = Signed(u)
    BY <1>2, <1>4, <2>1 DEF Signed
  <2>3. Signed(u) \subseteq Blocks /\ timeouts[u] \subseteq Timeouts /\ order_votes[u] \subseteq Blocks
    BY <1>1 DEF Signed, TypeOK, SafetyData
  <2>4. /\ sd.last_voted_round \in Nat /\ sd.one_chain_round \in Nat
        /\ sd.highest_timeout_round \in Nat /\ new.highest_timeout_round \in Nat
        /\ r \in Nat /\ hqc \in Nat /\ sd.epoch \in Nat
    BY <1>1, <1>2 DEF SafetyData
  <2>5. \A c \in Signed(u) :
           /\ WellFormed(c) /\ Epoch[c] <= new.epoch
           /\ Epoch[c] = new.epoch => /\ Round[c] <= new.last_voted_round
                                      /\ Round[Parent[c]] <= new.one_chain_round
    <3> SUFFICES ASSUME NEW c \in Signed(u), Epoch[c] = new.epoch
                 PROVE  Round[c] <= r
      BY <1>2 DEF Bounded
    <3>1. Round[c] <= sd.last_voted_round /\ Round[c] \in Nat
      BY <1>2, <2>3 DEF Bounded
    <3> QED BY <1>3, <2>4, <3>1
  <2>6. \A t \in timeouts'[u] :
           /\ t.epoch <= new.epoch
           /\ t.epoch = new.epoch => /\ t.round <= new.last_voted_round
                                     /\ t.round <= new.highest_timeout_round
    <3> SUFFICES ASSUME NEW t \in timeouts[u] \cup {tmo}
                 PROVE  /\ t.epoch <= new.epoch
                        /\ t.epoch = new.epoch => /\ t.round <= new.last_voted_round
                                                  /\ t.round <= new.highest_timeout_round
      BY <2>1
    <3>1. CASE t = tmo
      BY <1>2, <1>5, <2>4, <3>1
    <3>2. CASE t \in timeouts[u]
      <4>1. /\ t.epoch <= sd.epoch /\ t.round \in Nat
            /\ t.epoch = sd.epoch => /\ t.round <= sd.last_voted_round
                                     /\ t.round <= sd.highest_timeout_round
        BY <2>3, <3>2 DEF Bounded, Timeouts
      <4> QED BY <1>2, <1>3, <2>4, <4>1
    <3> QED BY <3>1, <3>2
  <2>7. \A c \in Signed(u), t \in timeouts'[u] :
           t.epoch = Epoch[c] /\ t.round >= Round[c] => t.hqc >= Round[Parent[c]]
    <3> SUFFICES ASSUME NEW c \in Signed(u), NEW t \in timeouts[u] \cup {tmo},
                        t.epoch = Epoch[c], t.round >= Round[c]
                 PROVE  t.hqc >= Round[Parent[c]]
      BY <2>1
    <3>1. CASE t \in timeouts[u]
      BY <3>1 DEF Bounded
    <3>2. CASE t = tmo
      <4>1. Round[Parent[c]] <= sd.one_chain_round /\ Round[Parent[c]] \in Nat
        BY <1>5, <2>3, <3>2 DEF Bounded
      <4> QED BY <1>3, <1>5, <2>4, <3>2, <4>1
    <3> QED BY <3>1, <3>2
  <2>8. \A c \in order_votes[u], t \in timeouts'[u] :
           t.epoch = Epoch[c] /\ t.round >= Round[c] => t.hqc >= Round[c]
    <3> SUFFICES ASSUME NEW c \in order_votes[u], NEW t \in timeouts[u] \cup {tmo},
                        t.epoch = Epoch[c], t.round >= Round[c]
                 PROVE  t.hqc >= Round[c]
      BY <2>1
    <3>1. CASE t \in timeouts[u]
      BY <3>1 DEF Bounded
    <3>2. CASE t = tmo
      <4>1. Round[c] <= sd.one_chain_round /\ Round[c] \in Nat
        BY <1>5, <2>3, <3>2 DEF Bounded
      <4> QED BY <1>3, <1>5, <2>4, <3>2, <4>1
    <3> QED BY <3>1, <3>2
  <2>9. Bounded(u)'
    BY <1>2, <1>4, <2>1, <2>2, <2>5, <2>6, <2>7, <2>8 DEF Bounded, WellFormed
  <2> QED BY <1>8, <2>2, <2>9
<1> QED BY <1>7, <1>9, <1>10

(* The order vote is for a round above every timeout the validator has signed. *)
LEMMA OrderVoteStep ==
    ASSUME TypeOK, NEW u \in Validators, Bounded(u), NEW b \in Blocks,
           ConstructAndSignOrderVote(u, b)
    PROVE  /\ TypeOK' /\ Bounded(u)' /\ Signed(u)' = Signed(u)
           /\ Certified(b, Epoch[b]) /\ order_votes'[u] \subseteq order_votes[u] \cup {b}
<1> DEFINE sd == stored[u]
           new == ObserveQc(sd, b)
<1>1. CurrentData(u) = sd /\ sd \in SafetyData
  BY CurrentIsStored
<1>2. /\ new \in SafetyData /\ new.epoch = sd.epoch
      /\ new.last_voted_round = sd.last_voted_round /\ new.last_vote = sd.last_vote
      /\ new.one_chain_round >= sd.one_chain_round
      /\ new.one_chain_round >= Round[b]
      /\ new.highest_timeout_round = sd.highest_timeout_round
  BY <1>1, ObserveQcFacts
<1>3. /\ Epoch[b] = sd.epoch /\ Round[b] > sd.highest_timeout_round
      /\ Certified(b, Epoch[b])
  BY <1>1, <1>2 DEF ConstructAndSignOrderVote, SafeForOrderVote, Bounded
<1>4. UNCHANGED <<signer, epoch_state, waypoint, votes, timeouts>>
  BY DEF ConstructAndSignOrderVote
<1>5. Persist(u, new, order_votes' = [order_votes EXCEPT ![u] = order_votes[u] \cup {b}],
              UNCHANGED order_votes)
  BY <1>1 DEF ConstructAndSignOrderVote
<1> HIDE DEF new
<1>6. \/ /\ stored' = [stored EXCEPT ![u] = new] /\ cached' = [cached EXCEPT ![u] = new]
         /\ \/ order_votes' = [order_votes EXCEPT ![u] = order_votes[u] \cup {b}]
            \/ order_votes' = order_votes
      \/ stored' = stored /\ cached' = [cached EXCEPT ![u] = None] /\ order_votes' = order_votes
  BY <1>5 DEF Persist
<1>7. TypeOK'
  BY <1>2, <1>4, <1>6 DEF TypeOK
<1>8. order_votes'[u] \subseteq order_votes[u] \cup {b}
  BY <1>6 DEF TypeOK
<1>9. CASE stored' = stored /\ cached' = [cached EXCEPT ![u] = None] /\ order_votes' = order_votes
  <2>1. Signed(u)' = Signed(u) /\ cached'[u] = None
    BY <1>4, <1>9 DEF Signed, TypeOK
  <2>2. Bounded(u)'
    BY <1>4, <1>9, <2>1 DEF Bounded, WellFormed
  <2> QED BY <1>3, <1>7, <1>8, <2>1, <2>2
<1>10. CASE stored' = [stored EXCEPT ![u] = new] /\ cached' = [cached EXCEPT ![u] = new]
  <2>1. stored'[u] = new /\ cached'[u] = new
    BY <1>10 DEF TypeOK
  <2>2. Signed(u)' = Signed(u)
    BY <1>2, <1>4, <2>1 DEF Signed
  <2>3. Signed(u) \subseteq Blocks /\ timeouts[u] \subseteq Timeouts /\ order_votes[u] \subseteq Blocks
    BY <1>1 DEF Signed, TypeOK, SafetyData
  <2>4. /\ sd.one_chain_round \in Nat /\ new.one_chain_round \in Nat
        /\ sd.highest_timeout_round \in Nat /\ Round[b] \in Nat /\ Epoch[b] \in Nat
    BY <1>1, <1>2 DEF SafetyData
  <2>5. \A c \in Signed(u) :
           /\ WellFormed(c) /\ Epoch[c] <= new.epoch
           /\ Epoch[c] = new.epoch => /\ Round[c] <= new.last_voted_round
                                      /\ Round[Parent[c]] <= new.one_chain_round
    <3> SUFFICES ASSUME NEW c \in Signed(u), Epoch[c] = new.epoch
                 PROVE  Round[Parent[c]] <= new.one_chain_round
      BY <1>2 DEF Bounded
    <3>1. Round[Parent[c]] <= sd.one_chain_round /\ Round[Parent[c]] \in Nat
      BY <1>2, <2>3 DEF Bounded
    <3> QED BY <1>2, <2>4, <3>1
  <2>6. \A c \in order_votes'[u] :
           /\ Epoch[c] <= new.epoch
           /\ Epoch[c] = new.epoch => Round[c] <= new.one_chain_round
    <3> SUFFICES ASSUME NEW c \in order_votes[u] \cup {b}
                 PROVE  /\ Epoch[c] <= new.epoch
                        /\ Epoch[c] = new.epoch => Round[c] <= new.one_chain_round
      BY <1>8
    <3>1. CASE c = b
      BY <1>2, <1>3, <2>4, <3>1
    <3>2. CASE c \in order_votes[u]
      <4>1. /\ Epoch[c] <= sd.epoch /\ Round[c] \in Nat
            /\ Epoch[c] = sd.epoch => Round[c] <= sd.one_chain_round
        BY <2>3, <3>2 DEF Bounded
      <4> QED BY <1>2, <2>4, <4>1
    <3> QED BY <3>1, <3>2
  <2>7. \A c \in order_votes'[u], t \in timeouts[u] :
           t.epoch = Epoch[c] /\ t.round >= Round[c] => t.hqc >= Round[c]
    <3> SUFFICES ASSUME NEW c \in order_votes[u] \cup {b}, NEW t \in timeouts[u],
                        t.epoch = Epoch[c], t.round >= Round[c]
                 PROVE  t.hqc >= Round[c]
      BY <1>8
    <3>1. CASE c \in order_votes[u]
      BY <3>1 DEF Bounded
    <3>2. CASE c = b
      <4>1. t.round <= sd.highest_timeout_round /\ t.round \in Nat
        BY <1>3, <2>3, <3>2 DEF Bounded, Timeouts
      <4> QED BY <1>3, <2>4, <3>2, <4>1
    <3> QED BY <3>1, <3>2
  <2>8. Bounded(u)'
    BY <1>2, <1>4, <2>1, <2>2, <2>5, <2>6, <2>7 DEF Bounded, WellFormed
  <2> QED BY <1>3, <1>7, <1>8, <2>2, <2>8
<1> QED BY <1>6, <1>9, <1>10

(* A new epoch starts above everything signed so far. *)
LEMMA InitializeStep ==
    ASSUME TypeOK, NEW u \in Validators, Bounded(u), NEW e \in Epochs, Initialize(u, e)
    PROVE  TypeOK' /\ Bounded(u)' /\ Signed(u)' \subseteq Signed(u)
<1> DEFINE sd == stored[u]
<1>1. CurrentData(u) = sd /\ sd \in SafetyData
  BY CurrentIsStored
<1>2. /\ UNCHANGED <<votes, timeouts, order_votes>>
      /\ waypoint' = [waypoint EXCEPT ![u] = e]
  BY DEF Initialize
<1>3. CASE InitializeRefused(u, e) \/ InitializeFailed(u, e)
  <2>1. /\ UNCHANGED <<stored, signer, epoch_state>>
        /\ cached' = [cached EXCEPT ![u] = sd] \/ cached' = [cached EXCEPT ![u] = None]
    BY <1>1, <1>3 DEF InitializeRefused, InitializeFailed
  <2>2. TypeOK'
    BY <1>1, <1>2, <2>1 DEF TypeOK
  <2>3. Signed(u)' = Signed(u) /\ (cached'[u] = sd \/ cached'[u] = None)
    BY <1>2, <2>1 DEF Signed, TypeOK
  <2>4. Bounded(u)'
    BY <1>2, <2>1, <2>3 DEF Bounded, WellFormed
  <2> QED BY <2>2, <2>3, <2>4
<1>4. CASE InitializeDone(u, e)
  <2> DEFINE new == IF e > sd.epoch THEN NewSafetyData(e) ELSE sd
  <2>1. e >= sd.epoch /\ e \in Nat /\ sd.epoch \in Nat
    BY <1>1, <1>4 DEF InitializeDone, SafetyData
  <2>2. new \in SafetyData /\ new.epoch = e
    BY <1>1, <2>1 DEF NewSafetyData, SafetyData
  <2>3. /\ stored' = [stored EXCEPT ![u] = new] /\ cached' = [cached EXCEPT ![u] = new]
        /\ epoch_state' = [epoch_state EXCEPT ![u] = e]
        /\ signer' = [signer EXCEPT ![u] = u \in UNION Quorums[e]]
    BY <1>1, <1>4 DEF InitializeDone
  <2>4. new = sd \/ (e > sd.epoch /\ new.last_vote = None)
    BY DEF NewSafetyData
  <2> HIDE DEF new
  <2>5. TypeOK'
    BY <1>2, <2>2, <2>3 DEF TypeOK
  <2>6. stored'[u] = new /\ cached'[u] = new /\ epoch_state'[u] = e
    BY <2>3 DEF TypeOK
  <2>7. Signed(u)' \subseteq Signed(u)
    BY <1>2, <2>4, <2>6 DEF Signed
  <2>8. CASE new = sd
    <3>1. Signed(u)' = Signed(u)
      BY <1>2, <2>6, <2>8 DEF Signed
    <3> QED BY <1>2, <2>2, <2>5, <2>6, <2>7, <2>8, <3>1 DEF Bounded, WellFormed
  <2>9. CASE e > sd.epoch
    <3>1. Signed(u) \subseteq Blocks /\ timeouts[u] \subseteq Timeouts /\ order_votes[u] \subseteq Blocks
      BY <1>1 DEF Signed, TypeOK, SafetyData
    <3>2. \A c \in Signed(u) : WellFormed(c) /\ Epoch[c] < e
      <4> SUFFICES ASSUME NEW c \in Signed(u) PROVE WellFormed(c) /\ Epoch[c] < e
        OBVIOUS
      <4>1. WellFormed(c) /\ Epoch[c] <= sd.epoch /\ Epoch[c] \in Nat
        BY <3>1 DEF Bounded
      <4> QED BY <2>1, <2>9, <4>1
    <3>3. \A t \in timeouts[u] : t.epoch < e
      <4> SUFFICES ASSUME NEW t \in timeouts[u] PROVE t.epoch < e
        OBVIOUS
      <4>1. t.epoch <= sd.epoch /\ t.epoch \in Nat
        BY <3>1 DEF Bounded, Timeouts
      <4> QED BY <2>1, <2>9, <4>1
    <3>4. \A c \in order_votes[u] : Epoch[c] < e
      <4> SUFFICES ASSUME NEW c \in order_votes[u] PROVE Epoch[c] < e
        OBVIOUS
      <4>1. Epoch[c] <= sd.epoch /\ Epoch[c] \in Nat
        BY <3>1 DEF Bounded
      <4> QED BY <2>1, <2>9, <4>1
    <3>5. /\ \A c \in Signed(u)' : WellFormed(c) /\ Epoch[c] <= e /\ Epoch[c] # e
          /\ \A t \in timeouts[u] : t.epoch <= e /\ t.epoch # e
          /\ \A c \in order_votes[u] : Epoch[c] <= e /\ Epoch[c] # e
      <4>1. \A c \in Signed(u) : Epoch[c] \in Nat
        BY <3>1
      <4>2. \A t \in timeouts[u] : t.epoch \in Nat
        BY <3>1 DEF Timeouts
      <4>3. \A c \in order_votes[u] : Epoch[c] \in Nat
        BY <3>1
      <4>4. \A n \in Nat : n < e => n <= e /\ n # e
        BY <2>1
      <4> QED BY <2>7, <3>2, <3>3, <3>4, <4>1, <4>2, <4>3, <4>4
    <3>6. /\ \A b, c \in Signed(u)' : Epoch[b] = Epoch[c] /\ Round[b] = Round[c] => b = c
          /\ \A b \in Signed(u)', t \in timeouts[u] :
                t.epoch = Epoch[b] /\ t.round >= Round[b] => t.hqc >= Round[Parent[b]]
          /\ \A b \in order_votes[u], t \in timeouts[u] :
                t.epoch = Epoch[b] /\ t.round >= Round[b] => t.hqc >= Round[b]
      BY <2>7 DEF Bounded
    <3>7. Bounded(u)'
      BY <1>2, <2>2, <2>6, <3>5, <3>6 DEF Bounded, WellFormed
    <3> QED BY <2>5, <2>7, <3>7
  <2> QED BY <2>4, <2>8, <2>9
<1> QED BY <1>3, <1>4 DEF Initialize

(* After a restart the memory is empty and the disk is as it was. *)
LEMMA RestartStep ==
    ASSUME TypeOK, NEW u \in Validators, Bounded(u), Restart(u)
    PROVE  TypeOK' /\ Bounded(u)' /\ Signed(u)' = Signed(u)
<1>1. /\ UNCHANGED <<stored, waypoint, votes, timeouts, order_votes>>
      /\ cached' = [cached EXCEPT ![u] = None]
      /\ signer' = [signer EXCEPT ![u] = FALSE]
      /\ epoch_state' = [epoch_state EXCEPT ![u] = None]
  BY DEF Restart
<1>2. TypeOK'
  BY <1>1 DEF TypeOK
<1>3. Signed(u)' = Signed(u) /\ cached'[u] = None /\ ~signer'[u]
  BY <1>1 DEF Signed, TypeOK
<1>4. Bounded(u)'
  BY <1>1, <1>3 DEF Bounded, WellFormed
<1> QED BY <1>2, <1>3, <1>4

-----------------------------------------------------------------------------
(* Nothing signed is ever taken back, and a call touches one validator. *)
Grows ==
    \A v \in Validators : /\ votes[v] \subseteq votes'[v]
                          /\ timeouts[v] \subseteq timeouts'[v]
                          /\ order_votes[v] \subseteq order_votes'[v]

Others(u) ==
    \A v \in Validators \ {u} :
        /\ stored'[v] = stored[v] /\ cached'[v] = cached[v] /\ signer'[v] = signer[v]
        /\ epoch_state'[v] = epoch_state[v]
        /\ votes'[v] = votes[v] /\ timeouts'[v] = timeouts[v] /\ order_votes'[v] = order_votes[v]

(* A step of u leaves the other validators alone, and signed messages are never unsigned. *)
LEMMA StepGrows ==
    ASSUME TypeOK, NEW u \in Validators, ValidatorNext(u)
    PROVE  Grows /\ Others(u)
<1>1. ASSUME NEW b \in Blocks, ResendLastVote(u, b) PROVE Grows /\ Others(u)
  BY <1>1 DEF ResendLastVote, Grows, Others, TypeOK
<1>2. ASSUME NEW b \in Blocks, ConstructAndSignVote(u, b) PROVE Grows /\ Others(u)
  BY <1>2 DEF ConstructAndSignVote, Persist, Grows, Others, TypeOK
<1>3. ASSUME NEW b \in Blocks, ConstructAndSignOrderVote(u, b) PROVE Grows /\ Others(u)
  <2>1. UNCHANGED <<signer, epoch_state, votes, timeouts>>
    BY <1>3 DEF ConstructAndSignOrderVote
  <2>2. /\ \A v \in Validators \ {u} : stored'[v] = stored[v] /\ cached'[v] = cached[v]
        /\ \A v \in Validators \ {u} : order_votes'[v] = order_votes[v]
        /\ order_votes[u] \subseteq order_votes'[u]
    BY <1>3 DEF ConstructAndSignOrderVote, Persist, TypeOK
  <2>3. Grows
    BY <2>1, <2>2 DEF Grows
  <2> QED BY <2>1, <2>2, <2>3 DEF Others
<1>4. ASSUME NEW b \in Blocks, NEW r \in TimeoutRounds, SignTimeoutWithQc(u, r, b)
      PROVE  Grows /\ Others(u)
  BY <1>4 DEF SignTimeoutWithQc, Persist, Grows, Others, TypeOK
<1>5. ASSUME NEW e \in Epochs, Initialize(u, e) PROVE Grows /\ Others(u)
  BY <1>5 DEF Initialize, InitializeRefused, InitializeFailed, InitializeDone,
              Grows, Others, TypeOK
<1>6. ASSUME Restart(u) PROVE Grows /\ Others(u)
  BY <1>6 DEF Restart, Grows, Others, TypeOK
<1> QED BY <1>1, <1>2, <1>3, <1>4, <1>5, <1>6 DEF ValidatorNext

(* A certificate, once it can be formed, can always be formed. *)
LEMMA CertifiedGrows ==
    ASSUME Grows, NEW b, NEW e, Certified(b, e)
    PROVE  Certified(b, e)'
  BY DEF Grows, Certified

(* So can a timeout certificate, and a proposal safe to vote for stays so. *)
LEMMA SafeToVoteGrows ==
    ASSUME Grows, NEW b \in Blocks, NEW e, SafeToVote(b, e)
    PROVE  SafeToVote(b, e)'
<1>1. ASSUME NEW r, NEW h, ValidTC(e, r, h) PROVE ValidTC(e, r, h)'
  <2>1. PICK Q \in Quorums[e] :
          /\ \A v \in Q \cap Validators :
                \E t \in timeouts[v] : t.epoch = e /\ t.round = r /\ t.hqc <= h
          /\ Q \subseteq Validators =>
                \E v \in Q : [epoch |-> e, round |-> r, hqc |-> h] \in timeouts[v]
    BY <1>1 DEF ValidTC
  <2>2. /\ \A v \in Q \cap Validators :
              \E t \in timeouts'[v] : t.epoch = e /\ t.round = r /\ t.hqc <= h
        /\ Q \subseteq Validators =>
              \E v \in Q : [epoch |-> e, round |-> r, hqc |-> h] \in timeouts'[v]
    BY <2>1 DEF Grows
  <2>3. \E c \in Blocks : Round[c] = h /\ Certified(c, e)'
    BY <1>1, CertifiedGrows DEF ValidTC
  <2> QED BY <1>1, <2>2, <2>3 DEF ValidTC
<1> QED BY <1>1 DEF SafeToVote

(* Every call preserves the invariant, for its validator and for the others. *)
LEMMA InvStep == Inv /\ [Next]_vars => Inv'
<1> SUFFICES ASSUME Inv, [Next]_vars PROVE Inv'
  OBVIOUS
<1>1. CASE UNCHANGED vars
  <2>1. TypeOK'
    BY <1>1 DEF vars, Inv, TypeOK
  <2>2. ASSUME NEW v \in Validators PROVE Bounded(v)' /\ Justified(v)'
    <3>1. Bounded(v)' <=> Bounded(v)
      BY <1>1 DEF vars, Bounded, Signed, WellFormed
    <3>2. \A b, e : Certified(b, e)' <=> Certified(b, e)
      BY <1>1 DEF vars, Certified
    <3>3. \A e, r, h : ValidTC(e, r, h)' <=> ValidTC(e, r, h)
      <4>1. timeouts' = timeouts
        BY <1>1 DEF vars
      <4> SUFFICES ASSUME NEW e, NEW r, NEW h PROVE ValidTC(e, r, h)' <=> ValidTC(e, r, h)
        OBVIOUS
      <4>2. (\E b \in Blocks : Round[b] = h /\ Certified(b, e)')
              <=> \E b \in Blocks : Round[b] = h /\ Certified(b, e)
        BY <3>2
      <4> QED BY <4>1, <4>2 DEF ValidTC
    <3>4. \A b, e : SafeToVote(b, e)' <=> SafeToVote(b, e)
      BY <3>3 DEF SafeToVote
    <3>5. Justified(v)' <=> Justified(v)
      BY <1>1, <3>2, <3>4 DEF vars, Justified, Signed
    <3> QED BY <3>1, <3>5 DEF Inv
  <2> QED BY <2>1, <2>2 DEF Inv
<1>2. ASSUME NEW u \in Validators, ValidatorNext(u) PROVE Inv'
  <2>1. TypeOK /\ \A v \in Validators : Bounded(v) /\ Justified(v)
    BY DEF Inv
  <2>2. Grows /\ Others(u)
    BY <1>2, <2>1, StepGrows
  <2>3. /\ TypeOK' /\ Bounded(u)'
        /\ \A c \in Signed(u)' : c \in Signed(u)
                                 \/ (Certified(Parent[c], Epoch[c]) /\ SafeToVote(c, Epoch[c]))
        /\ \A c \in order_votes'[u] : c \in order_votes[u] \/ Certified(c, Epoch[c])
    <3>1. ASSUME NEW b \in Blocks, ResendLastVote(u, b) PROVE <2>3
      BY <2>1, <3>1, ResendStep DEF ResendLastVote
    <3>2. ASSUME NEW b \in Blocks, ConstructAndSignVote(u, b) PROVE <2>3
      <4>1. order_votes' = order_votes
        BY <3>2 DEF ConstructAndSignVote
      <4>2. /\ TypeOK' /\ Bounded(u)' /\ Signed(u)' \subseteq Signed(u) \cup {b}
            /\ Certified(Parent[b], Epoch[b]) /\ SafeToVote(b, Epoch[b])
        BY <2>1, <3>2, VoteStep
      <4> QED BY <4>1, <4>2
    <3>3. ASSUME NEW b \in Blocks, ConstructAndSignOrderVote(u, b) PROVE <2>3
      BY <2>1, <3>3, OrderVoteStep
    <3>4. ASSUME NEW b \in Blocks, NEW r \in TimeoutRounds, SignTimeoutWithQc(u, r, b) PROVE <2>3
      <4>1. r \in Rounds
        OBVIOUS
      <4> QED BY <2>1, <3>4, <4>1, TimeoutStep DEF SignTimeoutWithQc
    <3>5. ASSUME NEW e \in Epochs, Initialize(u, e) PROVE <2>3
      BY <2>1, <3>5, InitializeStep DEF Initialize
    <3>6. ASSUME Restart(u) PROVE <2>3
      BY <2>1, <3>6, RestartStep DEF Restart
    <3> QED BY <1>2, <3>1, <3>2, <3>3, <3>4, <3>5, <3>6 DEF ValidatorNext
  <2>4. ASSUME NEW v \in Validators PROVE Bounded(v)'
    <3>1. CASE v = u
      BY <2>3, <3>1
    <3>2. CASE v # u
      <4>1. /\ stored'[v] = stored[v] /\ cached'[v] = cached[v] /\ signer'[v] = signer[v]
            /\ epoch_state'[v] = epoch_state[v] /\ votes'[v] = votes[v]
            /\ timeouts'[v] = timeouts[v] /\ order_votes'[v] = order_votes[v]
        BY <2>2, <3>2 DEF Others
      <4>2. Signed(v)' = Signed(v)
        BY <4>1 DEF Signed
      <4>3. Bounded(v)' <=> Bounded(v)
        BY <4>1, <4>2 DEF Bounded, WellFormed
      <4> QED BY <2>1, <4>3
    <3> QED BY <3>1, <3>2
  <2>5. ASSUME NEW v \in Validators PROVE Justified(v)'
    <3>1. /\ \A c \in Signed(v)' : c \in Signed(v)
                                   \/ (Certified(Parent[c], Epoch[c]) /\ SafeToVote(c, Epoch[c]))
          /\ \A c \in order_votes'[v] : c \in order_votes[v] \/ Certified(c, Epoch[c])
      BY <2>2, <2>3 DEF Others, Signed
    <3>2. Signed(v)' \subseteq Blocks
      BY <2>3 DEF Signed, TypeOK, SafetyData
    <3>3. \A c \in Signed(v)' : Certified(Parent[c], Epoch[c]) /\ SafeToVote(c, Epoch[c])
      BY <2>1, <3>1 DEF Justified
    <3>4. \A c \in Signed(v)' : Certified(Parent[c], Epoch[c])' /\ SafeToVote(c, Epoch[c])'
      BY <2>2, <3>2, <3>3, CertifiedGrows, SafeToVoteGrows
    <3>5. \A c \in order_votes'[v] : Certified(c, Epoch[c])
      BY <2>1, <3>1 DEF Justified
    <3>6. \A c \in order_votes'[v] : Certified(c, Epoch[c])'
      BY <2>2, <3>5, CertifiedGrows
    <3> QED BY <3>4, <3>6 DEF Justified
  <2> QED BY <2>3, <2>4, <2>5 DEF Inv
<1> QED BY <1>1, <1>2 DEF Next

-----------------------------------------------------------------------------
(* Every nonempty set of numbers has a least one. *)
LEMMA LeastNat ==
    ASSUME NEW T \in SUBSET Nat, T # {}
    PROVE  \E m \in T : \A n \in T : m <= n
<1> DEFINE R == {p \in Nat \X Nat : p[1] < p[2]}
<1>1. IsWellFoundedOn(R, Nat)
  BY NatLessThanWellFounded DEF OpToRel
<1>2. \E x \in T : \A y \in T : <<y, x>> \notin R
  BY <1>1, WFMin
<1>3. PICK x \in T : \A y \in T : <<y, x>> \notin R
  BY <1>2
<1>4. ASSUME NEW y \in T PROVE x <= y
  <2>1. x \in Nat /\ y \in Nat
    OBVIOUS
  <2>2. ~(y < x)
    BY <1>3, <2>1
  <2> QED BY <2>1, <2>2
<1> QED BY <1>4

(* Two quorums of an epoch share a validator that runs this code. *)
LEMMA QuorumsMeet ==
    ASSUME NEW e \in Epochs, NEW P \in Quorums[e], NEW Q \in Quorums[e]
    PROVE  \E v \in Validators : v \in P /\ v \in Q
<1>1. P \cap Q \cap Validators # {}
  BY QuorumAssumption
<1> QED BY <1>1

(* Quorum intersection and one vote per round: one certified block per round of an epoch. *)
LEMMA OneCertificate ==
    ASSUME Inv, NEW b \in Blocks, NEW c \in Blocks, Epoch[b] = Epoch[c], Round[b] = Round[c],
           Certified(b, Epoch[b]), Certified(c, Epoch[c])
    PROVE  b = c
<1>1. CASE Round[b] = 0
  BY <1>1, BlocksAssumption
<1>2. CASE Round[b] # 0
  <2>1. PICK P \in Quorums[Epoch[b]] : \A v \in P \cap Validators : b \in votes[v]
    BY <1>2 DEF Certified
  <2>2. PICK Q \in Quorums[Epoch[b]] : \A v \in Q \cap Validators : c \in votes[v]
    BY <1>2 DEF Certified
  <2>3. PICK v \in Validators : v \in P /\ v \in Q
    <3>1. Epoch[b] \in Epochs
      OBVIOUS
    <3> QED BY <3>1, QuorumsMeet
  <2>4. b \in Signed(v) /\ c \in Signed(v)
    BY <2>1, <2>2, <2>3 DEF Signed
  <2> QED BY <2>3, <2>4 DEF Inv, Bounded
<1> QED BY <1>1, <1>2

(* A certified block past genesis was voted for under the rules by some validator. *)
LEMMA CertifiedWasSafe ==
    ASSUME Inv, NEW c \in Blocks, Certified(c, Epoch[c]), Round[c] # 0
    PROVE  WellFormed(c) /\ Certified(Parent[c], Epoch[c]) /\ SafeToVote(c, Epoch[c])
<1>1. PICK Q \in Quorums[Epoch[c]] : \A v \in Q \cap Validators : c \in votes[v]
  BY DEF Certified
<1>2. PICK v \in Validators : v \in Q
  <2>1. Epoch[c] \in Epochs
    OBVIOUS
  <2> QED BY <2>1, QuorumsMeet
<1>3. c \in Signed(v)
  BY <1>1, <1>2 DEF Signed
<1> QED BY <1>2, <1>3 DEF Inv, Bounded, Justified

(* An ordered block is certified itself. *)
LEMMA OrderedIsCertified ==
    ASSUME Inv, NEW b \in Ordered
    PROVE  b \in Blocks /\ Certified(b, Epoch[b])
<1>1. b \in Blocks /\ (OrderCert(b) \/ TwoChainCommit(b))
  BY DEF Ordered
<1>2. CASE OrderCert(b)
  <2>1. PICK Q \in Quorums[Epoch[b]] : \A v \in Q \cap Validators : b \in order_votes[v]
    BY <1>2 DEF OrderCert
  <2>2. PICK v \in Validators : v \in Q
    <3> DEFINE e == Epoch[b]
    <3>1. e \in Epochs /\ Q \in Quorums[e]
      BY <1>1
    <3> HIDE DEF e
    <3> QED BY <3>1, QuorumsMeet
  <2>3. b \in order_votes[v] /\ Justified(v)
    BY <2>1, <2>2 DEF Inv
  <2> QED BY <1>1, <2>3 DEF Justified
<1>3. CASE TwoChainCommit(b)
  <2>1. PICK c \in Blocks : /\ WellFormed(c) /\ Parent[c] = b
                            /\ Certified(c, Epoch[c])
    BY <1>3 DEF TwoChainCommit
  <2> QED BY <1>1, <2>1, CertifiedWasSafe DEF WellFormed
<1> QED BY <1>1, <1>2, <1>3

(* No timeout certificate forgets a block with an ordering certificate. *)
LEMMA TCKeepsOrderCert ==
    ASSUME Inv, NEW b \in Blocks, OrderCert(b), NEW t \in Int, NEW h \in Rounds,
           ValidTC(Epoch[b], t, h), t >= Round[b]
    PROVE  h >= Round[b]
<1>1. PICK P \in Quorums[Epoch[b]] : \A v \in P \cap Validators : b \in order_votes[v]
  BY DEF OrderCert
<1>2. PICK Q \in Quorums[Epoch[b]] :
        \A v \in Q \cap Validators :
           \E m \in timeouts[v] : m.epoch = Epoch[b] /\ m.round = t /\ m.hqc <= h
  BY DEF ValidTC
<1>3. PICK v \in Validators : v \in P /\ v \in Q
  <2>1. Epoch[b] \in Epochs
    OBVIOUS
  <2> QED BY <2>1, QuorumsMeet
<1>4. PICK m \in timeouts[v] : m.epoch = Epoch[b] /\ m.round = t /\ m.hqc <= h
  BY <1>2, <1>3
<1>5. m.hqc >= Round[b]
  BY <1>1, <1>3, <1>4 DEF Inv, Bounded
<1>6. m.hqc \in Nat /\ Round[b] \in Nat /\ h \in Nat
  <2>1. m \in Timeouts
    BY <1>3, <1>4 DEF Inv, TypeOK
  <2>2. m.hqc \in Rounds
    BY <2>1 DEF Timeouts
  <2>3. \A x \in Blocks : Parent[x] \in Blocks /\ Round[x] \in Rounds
    OBVIOUS
  <2>4. \A r \in Rounds : r \in Nat
    OBVIOUS
  <2> QED BY <2>2, <2>3, <2>4
<1> QED BY <1>4, <1>5, <1>6

(* Nor the parent of a certified block of an earlier round. *)
LEMMA TCKeepsTwoChain ==
    ASSUME Inv, NEW c \in Blocks, Certified(c, Epoch[c]), Round[c] # 0,
           NEW t \in Int, NEW h \in Rounds,
           ValidTC(Epoch[c], t, h), t >= Round[c]
    PROVE  h >= Round[Parent[c]]
<1>1. PICK P \in Quorums[Epoch[c]] : \A v \in P \cap Validators : c \in votes[v]
  BY DEF Certified
<1>2. PICK Q \in Quorums[Epoch[c]] :
        \A v \in Q \cap Validators :
           \E m \in timeouts[v] : m.epoch = Epoch[c] /\ m.round = t /\ m.hqc <= h
  BY DEF ValidTC
<1>3. PICK v \in Validators : v \in P /\ v \in Q
  <2>1. Epoch[c] \in Epochs
    OBVIOUS
  <2> QED BY <2>1, QuorumsMeet
<1>4. PICK m \in timeouts[v] : m.epoch = Epoch[c] /\ m.round = t /\ m.hqc <= h
  BY <1>2, <1>3
<1>5. m.hqc >= Round[Parent[c]]
  BY <1>1, <1>3, <1>4 DEF Inv, Bounded, Signed
<1>6. m.hqc \in Nat /\ Round[Parent[c]] \in Nat /\ h \in Nat
  <2>1. m \in Timeouts
    BY <1>3, <1>4 DEF Inv, TypeOK
  <2>2. m.hqc \in Rounds
    BY <2>1 DEF Timeouts
  <2>3. \A x \in Blocks : Parent[x] \in Blocks /\ Round[x] \in Rounds
    OBVIOUS
  <2>4. \A r \in Rounds : r \in Nat
    OBVIOUS
  <2> QED BY <2>2, <2>3, <2>4
<1> QED BY <1>4, <1>5, <1>6

(* A block certified above an ordered one has a certified parent no lower than it. *)
LEMMA ParentNotBelow ==
    ASSUME Inv, NEW b \in Ordered, NEW c \in Blocks, Epoch[c] = Epoch[b],
           Certified(c, Epoch[c]), Round[c] > Round[b]
    PROVE  Round[Parent[c]] >= Round[b]
<1>1. /\ b \in Blocks /\ (OrderCert(b) \/ TwoChainCommit(b))
      /\ Round[b] \in Nat /\ Round[c] \in Nat /\ Round[Parent[c]] \in Nat
  BY DEF Ordered
<1>2. Round[c] # 0
  BY <1>1
<1>3. SafeToVote(c, Epoch[c])
  BY <1>2, CertifiedWasSafe
<1>4. CASE Round[c] = Round[Parent[c]] + 1
  BY <1>1, <1>4
<1>5. ASSUME NEW h \in Rounds, ValidTC(Epoch[c], Round[c] - 1, h), Round[Parent[c]] >= h
      PROVE  Round[Parent[c]] >= Round[b]
  <2>1. h \in Nat /\ Round[c] - 1 \in Int /\ Round[c] - 1 >= Round[b]
    BY <1>1
  <2>2. CASE OrderCert(b)
    <3>1. h >= Round[b]
      BY <1>1, <1>5, <2>1, <2>2, TCKeepsOrderCert
    <3> QED BY <1>1, <1>5, <2>1, <3>1
  <2>3. CASE TwoChainCommit(b)
    <3>1. PICK d \in Blocks : /\ WellFormed(d) /\ Parent[d] = b
                              /\ Round[d] = Round[b] + 1 /\ Certified(d, Epoch[d])
      BY <2>3 DEF TwoChainCommit
    <3>2. Epoch[d] = Epoch[c] /\ Round[d] # 0 /\ Round[d] \in Nat
      BY <3>1 DEF WellFormed
    <3>3. CASE Round[c] = Round[d]
      BY <1>1, <3>1, <3>2, <3>3, OneCertificate
    <3>4. CASE Round[c] # Round[d]
      <4>1. Round[c] - 1 >= Round[d]
        BY <1>1, <3>1, <3>2, <3>4
      <4>2. h >= Round[Parent[d]]
        BY <1>5, <2>1, <3>1, <3>2, <4>1, TCKeepsTwoChain
      <4> QED BY <1>1, <1>5, <2>1, <3>1, <4>2
    <3> QED BY <3>3, <3>4
  <2> QED BY <1>1, <2>2, <2>3
<1> QED BY <1>3, <1>4, <1>5 DEF SafeToVote

(* Everything certified at or above the round of an ordered block extends it. *)
LEMMA ExtendsOrdered ==
    ASSUME Inv, NEW b \in Ordered, NEW c \in Blocks, Epoch[c] = Epoch[b],
           Certified(c, Epoch[c]), Round[c] >= Round[b]
    PROVE  b \in Ancestors[c]
<1> DEFINE Bad == {d \in Blocks : /\ Epoch[d] = Epoch[b] /\ Certified(d, Epoch[d])
                                  /\ Round[d] >= Round[b] /\ b \notin Ancestors[d]}
<1> SUFFICES ASSUME Bad # {} PROVE FALSE
  OBVIOUS
<1>1. b \in Blocks /\ Certified(b, Epoch[b])
  BY OrderedIsCertified
<1>2. PICK m \in {Round[d] : d \in Bad} : \A n \in {Round[d] : d \in Bad} : m <= n
  <2>1. \A d \in Bad : Round[d] \in Nat
    OBVIOUS
  <2>2. {Round[d] : d \in Bad} # {}
    OBVIOUS
  <2> HIDE DEF Bad
  <2>3. {Round[d] : d \in Bad} \in SUBSET Nat
    BY <2>1
  <2> QED BY <2>2, <2>3, LeastNat
<1>3. PICK d \in Bad : \A d2 \in Bad : Round[d] <= Round[d2]
  BY <1>2
<1>4. d \in Blocks /\ Round[d] \in Nat /\ Round[b] \in Nat /\ Round[Parent[d]] \in Nat
  BY <1>1
<1>5. CASE Round[d] = Round[b]
  <2>1. d = b
    BY <1>1, <1>5, OneCertificate
  <2>2. b \in Ancestors[b]
    BY <1>1, BlocksAssumption
  <2> QED BY <2>1, <2>2
<1>6. CASE Round[d] > Round[b]
  <2>1. Round[d] # 0
    BY <1>4, <1>6
  <2>2. WellFormed(d) /\ Certified(Parent[d], Epoch[d])
    BY <2>1, CertifiedWasSafe
  <2>3. Round[Parent[d]] >= Round[b]
    BY <1>6, ParentNotBelow
  <2>4. Parent[d] \notin Bad
    <3>1. Round[Parent[d]] < Round[d]
      BY <2>2 DEF WellFormed
    <3>2. ~(Round[d] <= Round[Parent[d]])
      BY <1>4, <3>1
    <3> HIDE DEF Bad
    <3> QED BY <1>3, <3>2
  <2>5. b \in Ancestors[Parent[d]]
    BY <2>2, <2>3, <2>4 DEF WellFormed
  <2>6. Ancestors[d] = Ancestors[Parent[d]] \cup {d}
    BY <1>4, <2>1, BlocksAssumption
  <2> QED BY <2>5, <2>6
<1>7. Round[d] >= Round[b]
  OBVIOUS
<1> HIDE DEF Bad
<1> QED BY <1>4, <1>5, <1>6, <1>7

(* Of two ordered blocks the higher extends the lower. *)
LEMMA InvAgreement == Inv => Agreement
<1> SUFFICES ASSUME Inv, NEW b \in Ordered, NEW c \in Ordered, Epoch[b] = Epoch[c]
             PROVE  b \in Ancestors[c] \/ c \in Ancestors[b]
  BY DEF Agreement
<1>1. /\ b \in Blocks /\ Certified(b, Epoch[b]) /\ Round[b] \in Nat
      /\ c \in Blocks /\ Certified(c, Epoch[c]) /\ Round[c] \in Nat
  BY OrderedIsCertified
<1>2. CASE Round[c] >= Round[b]
  BY <1>1, <1>2, ExtendsOrdered
<1>3. CASE Round[b] >= Round[c]
  BY <1>1, <1>3, ExtendsOrdered
<1> QED BY <1>1, <1>2, <1>3

-----------------------------------------------------------------------------
(* The invariant holds in every reachable state. *)
LEMMA InvHolds == Spec => []Inv
  BY InvInit, InvStep, PTL DEF Spec

(* Every variable keeps its type: what safety_data() and set_safety_data exchange is always *)
(* a SafetyData of a known epoch.                                                           *)
THEOREM TypeCorrect == Spec => []TypeOK
<1>1. Inv => TypeOK
  BY DEF Inv
<1> QED BY <1>1, InvHolds, PTL

(* For any number of validators, blocks, rounds and epochs, and any faults of their stores: *)
(* blocks ordered in one epoch, by order votes or by the 2-chain rule, lie on one chain.    *)
THEOREM AgreementHolds == Spec => []Agreement
  BY InvHolds, InvAgreement, PTL

(* guarded_construct_and_sign_vote_two_chain never lets two votes of a round leave the validator. *)
THEOREM OneVote == Spec => []OneVotePerRound
<1>1. Inv => OneVotePerRound
  BY DEF Inv, Bounded, Signed, OneVotePerRound
<1> QED BY <1>1, InvHolds, PTL

(* Timeouts of guarded_sign_timeout_with_qc respect the order votes, in either order. *)
THEOREM OrderVotesKept == Spec => []TimeoutsKeepOrderVotes
<1>1. Inv => TimeoutsKeepOrderVotes
  BY DEF Inv, Bounded, TimeoutsKeepOrderVotes
<1> QED BY <1>1, InvHolds, PTL

(* The cache of PersistentSafetyStorage never disagrees with the disk. *)
THEOREM CacheCoherent == Spec => []MemoryMatchesDisk
<1>1. Inv => MemoryMatchesDisk
  BY DEF Inv, Bounded, MemoryMatchesDisk
<1> QED BY <1>1, InvHolds, PTL

-----------------------------------------------------------------------------
(* A record keeps what it holds. *)
LEMMA KeepsSame == ASSUME NEW sd \in SafetyData PROVE Keeps(sd, sd)
<1>1. /\ sd.epoch \in Nat /\ sd.last_voted_round \in Nat /\ sd.preferred_round \in Nat
      /\ sd.one_chain_round \in Nat /\ sd.highest_timeout_round \in Nat
  BY DEF SafetyData
<1> QED BY <1>1 DEF Keeps

(* Each call writes a SafetyData that keeps what was on disk. *)
LEMMA StepKeeps ==
    ASSUME TypeOK, NEW u \in Validators, Bounded(u), ValidatorNext(u)
    PROVE  Keeps(stored[u], stored'[u])
<1> DEFINE sd == stored[u]
<1>1. CurrentData(u) = sd /\ sd \in SafetyData /\ Keeps(sd, sd)
  BY CurrentIsStored, KeepsSame
<1>2. /\ sd.epoch \in Nat /\ sd.last_voted_round \in Nat /\ sd.preferred_round \in Nat
      /\ sd.one_chain_round \in Nat /\ sd.highest_timeout_round \in Nat
  BY <1>1 DEF SafetyData
<1>3. ASSUME NEW b \in Blocks, ResendLastVote(u, b) PROVE Keeps(sd, stored'[u])
  BY <1>1, <1>3 DEF ResendLastVote
<1>4. ASSUME NEW b \in Blocks, ConstructAndSignVote(u, b) PROVE Keeps(sd, stored'[u])
  <2> DEFINE obs == ObserveQc(sd, Parent[b])
             new == [obs EXCEPT !.last_voted_round = Round[b], !.last_vote = b]
  <2>1. Round[b] > sd.last_voted_round /\ Round[b] \in Nat
    BY <1>1, <1>4 DEF ConstructAndSignVote
  <2>2. stored'[u] = new \/ stored'[u] = sd
    BY <1>1, <1>4 DEF ConstructAndSignVote, Persist, TypeOK
  <2>3. /\ obs \in SafetyData /\ obs.epoch = sd.epoch
        /\ obs.one_chain_round >= sd.one_chain_round
        /\ obs.preferred_round >= sd.preferred_round
        /\ obs.highest_timeout_round = sd.highest_timeout_round
    BY <1>1, ObserveQcFacts
  <2> HIDE DEF obs
  <2>4. /\ new.epoch = sd.epoch /\ new.last_voted_round = Round[b]
        /\ new.one_chain_round >= sd.one_chain_round
        /\ new.preferred_round >= sd.preferred_round
        /\ new.highest_timeout_round = sd.highest_timeout_round
    BY <2>3 DEF SafetyData
  <2> HIDE DEF new
  <2>5. /\ new.last_voted_round >= sd.last_voted_round
        /\ new.highest_timeout_round >= sd.highest_timeout_round
    BY <1>2, <2>1, <2>4
  <2>6. Keeps(sd, new)
    BY <2>4, <2>5 DEF Keeps
  <2> QED BY <1>1, <2>2, <2>6
<1>5. ASSUME NEW b \in Blocks, ConstructAndSignOrderVote(u, b) PROVE Keeps(sd, stored'[u])
  <2> DEFINE new == ObserveQc(sd, b)
  <2>1. stored'[u] = new \/ stored'[u] = sd
    BY <1>1, <1>5 DEF ConstructAndSignOrderVote, Persist, TypeOK
  <2>2. /\ new.epoch = sd.epoch /\ new.last_voted_round = sd.last_voted_round
        /\ new.one_chain_round >= sd.one_chain_round
        /\ new.preferred_round >= sd.preferred_round
        /\ new.highest_timeout_round = sd.highest_timeout_round
    BY <1>1, ObserveQcFacts
  <2> HIDE DEF new
  <2>3. /\ new.last_voted_round >= sd.last_voted_round
        /\ new.highest_timeout_round >= sd.highest_timeout_round
    BY <1>2, <2>2
  <2>4. Keeps(sd, new)
    BY <2>2, <2>3 DEF Keeps
  <2> QED BY <1>1, <2>1, <2>4
<1>6. ASSUME NEW b \in Blocks, NEW r \in TimeoutRounds, SignTimeoutWithQc(u, r, b)
      PROVE  Keeps(sd, stored'[u])
  <2>0. r \in Rounds
    OBVIOUS
  <2> DEFINE new == [sd EXCEPT !.last_voted_round = r, !.highest_timeout_round = MaxOf(@, r)]
  <2>1. r >= sd.last_voted_round /\ r \in Nat
    BY <1>1, <1>6, <2>0 DEF SignTimeoutWithQc
  <2>2. stored'[u] = new \/ stored'[u] = sd
    BY <1>1, <1>6 DEF SignTimeoutWithQc, Persist, TypeOK
  <2>3. MaxOf(sd.highest_timeout_round, r) >= sd.highest_timeout_round
    BY <1>1, <2>0, MaxOfFacts DEF SafetyData
  <2>4. /\ new.epoch = sd.epoch /\ new.last_voted_round = r
        /\ new.one_chain_round = sd.one_chain_round
        /\ new.preferred_round = sd.preferred_round
        /\ new.highest_timeout_round >= sd.highest_timeout_round
    BY <1>1, <2>3 DEF SafetyData
  <2> HIDE DEF new
  <2>5. /\ new.last_voted_round >= sd.last_voted_round
        /\ new.one_chain_round >= sd.one_chain_round
        /\ new.preferred_round >= sd.preferred_round
    BY <1>2, <2>1, <2>4
  <2>6. Keeps(sd, new)
    BY <2>4, <2>5 DEF Keeps
  <2> QED BY <1>1, <2>2, <2>6
<1>7. ASSUME NEW e \in Epochs, Initialize(u, e) PROVE Keeps(sd, stored'[u])
  <2>1. stored'[u] = sd \/ (e > sd.epoch /\ stored'[u] = NewSafetyData(e))
    BY <1>1, <1>7 DEF Initialize, InitializeRefused, InitializeFailed, InitializeDone, TypeOK
  <2>2. NewSafetyData(e).epoch = e
    BY DEF NewSafetyData
  <2> QED BY <1>1, <2>1, <2>2 DEF Keeps
<1>8. ASSUME Restart(u) PROVE Keeps(sd, stored'[u])
  BY <1>1, <1>8 DEF Restart
<1> QED BY <1>3, <1>4, <1>5, <1>6, <1>7, <1>8 DEF ValidatorNext

(* No call lowers what is on disk: not a retried vote, a timeout, an order vote or an  *)
(* initialize, whether or not its write succeeds.                                       *)
THEOREM DiskNeverForgets == Spec => NeverForgets
<1>1. ASSUME Inv, [Next]_vars
      PROVE  [\A v \in Validators : Keeps(stored[v], stored'[v])]_vars
  <2> SUFFICES ASSUME NEW u \in Validators, ValidatorNext(u), NEW v \in Validators
               PROVE  Keeps(stored[v], stored'[v])
    BY <1>1 DEF Next
  <2>1. TypeOK /\ Bounded(u) /\ stored[v] \in SafetyData
    BY <1>1 DEF Inv, TypeOK
  <2>2. CASE v = u
    BY <2>1, <2>2, StepKeeps
  <2>3. CASE v # u
    <3>1. stored'[v] = stored[v]
      BY <2>1, <2>3, StepGrows DEF Others
    <3> QED BY <2>1, <3>1, KeepsSame
  <2> QED BY <2>2, <2>3
<1> QED BY <1>1, InvHolds, PTL DEF Spec, NeverForgets
=============================================================================
