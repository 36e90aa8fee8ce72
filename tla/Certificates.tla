---------------------------- MODULE Certificates ----------------------------
(* What validators put on the wire in an epoch and what the others check of *)
(* it (consensus-types: block, vote, quorum_cert, timeout_2chain, sync_info,*)
(* wrapped_ledger_info; pending_votes and proposal_generator, which build   *)
(* them).  One validator collects the votes of its round, forms quorum or   *)
(* timeout certificates and moves on.                                       *)
(*                                                                          *)
(* Validators are their index in the validator set.  A signature is the     *)
(* message it signs; an aggregate keeps who signed what.  Voters are not    *)
(* told apart by honesty: any of them may send any message that verifies.   *)
EXTENDS Integers, FiniteSets, Sequences, SequencesExt

CONSTANTS
  N,               \* validators 1..N
  Quorum,          \* the voting power of a quorum
  MaxFailedAuthors,\* max_failed_authors_to_store
  MaxRound         \* bound: the last round

VARIABLES
  round,           \* the collector's round
  blocks,          \* the blocks of the round
  qcs,             \* the quorum certificates formed, the genesis certificate included
  tcs,             \* at most one: the highest timeout certificate
  author_to_vote,  \* the votes of this round
  partial_tc,      \* at most one timeout with the signatures collected for it
  hcc              \* the block of the highest commit decision

vars == <<round, blocks, qcs, tcs, author_to_vote, partial_tc, hcc>>

Authors == 1..N

(* A BlockInfo: the round, the round of its parent, the timestamp, nil or not. *)
Info(b) == [round |-> b.round, on |-> b.on, ts |-> b.ts, nil |-> b.nil]
Genesis == [round |-> 0, on |-> 0, ts |-> 0, nil |-> FALSE]

(* certificate_for_genesis_from_ledger_info: genesis certifies itself, unsigned. *)
GenesisCert == [proposed |-> Genesis, parent |-> Genesis, commit |-> {Genesis}, signers |-> {}]

----------------------------------------------------------------------------
(* Building blocks. *)

(* The rounds since the parent's that failed, this one included for nil. *)
compute_failed_authors(r, previous, include) ==
  LET end == IF include THEN r + 1 ELSE r
      start == Max({previous + 1, IF end > MaxFailedAuthors THEN end - MaxFailedAuthors ELSE 0})
  IN [i \in 1..(IF end > start THEN end - start ELSE 0) |-> start + i - 1]

new_proposal(r, qc, ts) ==
  [round |-> r, on |-> qc.proposed.round, ts |-> ts, nil |-> FALSE, qc |-> qc,
   failed |-> compute_failed_authors(r, qc.proposed.round, FALSE)]

(* All nil blocks of a round on one parent agree on the parent's timestamp. *)
new_nil_Later(r, qc) ==
  [round |-> r, on |-> qc.proposed.round, ts |-> qc.proposed.ts + 1, nil |-> TRUE, qc |-> qc,
   failed |-> compute_failed_authors(r, qc.proposed.round, TRUE)]

new_nil(r, qc) ==
  [round |-> r, on |-> qc.proposed.round, ts |-> qc.proposed.ts, nil |-> TRUE, qc |-> qc,
   failed |-> compute_failed_authors(r, qc.proposed.round, TRUE)]

(* construct_ledger_info_2chain: what the vote for b commits. *)
CommitInfo(b) == IF b.qc.proposed.round + 1 = b.round THEN {b.qc.proposed} ELSE {}

----------------------------------------------------------------------------
(* Checking. *)

vote_data_verify(parent, proposed) == parent.round < proposed.round /\ parent.ts <= proposed.ts

(* QuorumCert::verify; the two hashes it compares are of the same vote data *)
(* here.                                                                    *)
qc_verify(qc) ==
  IF qc.proposed.round = 0
  THEN qc.parent = qc.proposed /\ qc.commit = {qc.proposed} /\ qc.signers = {}
  ELSE Cardinality(qc.signers) >= Quorum /\ vote_data_verify(qc.parent, qc.proposed)

(* WrappedLedgerInfo::verify *)
wrapped_verify(qc) ==
  \E c \in qc.commit :
    IF c.round = 0 THEN qc.parent = c /\ qc.proposed = c /\ qc.signers = {}
    ELSE Cardinality(qc.signers) >= Quorum

(* Block::verify_well_formed, for a block of this epoch. *)
verify_well_formed(b) ==
  LET parent == b.qc.proposed
      succ_round == b.round + (IF b.nil THEN 1 ELSE 0)
  IN /\ parent.round < b.round
     /\ Len(b.failed) <= succ_round - (parent.round + 1)
     /\ \A i \in DOMAIN b.failed :
          /\ b.failed[i] < succ_round
          /\ b.failed[i] > IF i = 1 THEN parent.round ELSE b.failed[i - 1]
     /\ IF b.nil THEN b.ts = parent.ts ELSE b.ts > parent.ts

(* Block::validate_signature reduces to the certificate's. *)
validate_signature(b) == qc_verify(b.qc)

(* TwoChainTimeout::verify *)
timeout_verify(t) == t.qc.proposed.round < t.round /\ qc_verify(t.qc)

(* TwoChainTimeoutCertificate::verify: the i-th signer signed the i-th round, *)
(* and the certificate carried is the highest that was signed.              *)
InOrder(S) == SetToSortSeq(S, <)

tc_verify(tc) ==
  LET voters == InOrder(DOMAIN tc.sig)
  IN /\ timeout_verify(tc.timeout)
     /\ Len(voters) >= Quorum /\ Len(voters) = Len(tc.rounds)
     /\ \A i \in DOMAIN voters : tc.sig[voters[i]] = tc.rounds[i]
     /\ tc.timeout.qc.proposed.round = Max(ToSet(tc.rounds))

----------------------------------------------------------------------------
(* Vote::verify, for a vote of this round on block b, with at most one      *)
(* timeout, which carries the voter's highest certificate.                  *)
vote_verify(b, timeout) ==
  /\ \A t \in timeout : t.round = b.round /\ timeout_verify(t)
  /\ vote_data_verify(b.qc.proposed, Info(b))

(* TwoChainTimeoutWithPartialSignatures::add: the highest certificate stays, *)
(* and the first signature of an author.                                    *)
add(partial, author, t) ==
  [timeout |-> IF t.qc.proposed.round > partial.timeout.qc.proposed.round THEN t ELSE partial.timeout,
   signatures |-> [a \in DOMAIN partial.signatures \union {author} |->
                     IF a \in DOMAIN partial.signatures THEN partial.signatures[a]
                     ELSE t.qc.proposed.round]]

(* get_partial_sig_with_rounds: the rounds in the order of the signers. *)
OrderedRounds_ByRound(signatures) ==
  LET authors == SetToSortSeq(DOMAIN signatures, LAMBDA a, b : signatures[a] < signatures[b]
                                \/ (signatures[a] = signatures[b] /\ a < b))
  IN [i \in DOMAIN authors |-> signatures[authors[i]]]

OrderedRounds(signatures) ==
  LET authors == InOrder(DOMAIN signatures)
  IN [i \in DOMAIN authors |-> signatures[authors[i]]]

aggregate_signatures(partial) ==
  [timeout |-> partial.timeout, sig |-> partial.signatures,
   rounds |-> OrderedRounds(partial.signatures)]

(* insert_vote, its first question: the same vote again counts only as the  *)
(* author's first timeout; another vote is equivocation.                    *)
IsNewVote_AnyTimeout(author, b, timeout) ==
  author \in DOMAIN author_to_vote =>
    author_to_vote[author].block = b /\ timeout # {}

IsNewVote(author, b, timeout) ==
  author \in DOMAIN author_to_vote =>
    /\ author_to_vote[author].block = b
    /\ timeout # {} /\ author_to_vote[author].timeout = {}

EnterRound ==
  /\ round' = round + 1
  /\ blocks' = {} /\ author_to_vote' = << >> /\ partial_tc' = {}

insert_vote(author, b, timeout) ==
  /\ round <= MaxRound /\ b.round = round
  /\ vote_verify(b, timeout)
  /\ IsNewVote(author, b, timeout)
  /\ \E votes \in {[a \in DOMAIN author_to_vote \union {author} |->
                      IF a = author THEN [block |-> b, timeout |-> timeout] ELSE author_to_vote[a]]} :
     \E signers \in {{a \in DOMAIN votes : votes[a].block = b}} :
       IF Cardinality(signers) >= Quorum
       THEN /\ qcs' = qcs \union {[proposed |-> Info(b), parent |-> b.qc.proposed,
                                   commit |-> CommitInfo(b), signers |-> signers]}
            /\ EnterRound
            /\ UNCHANGED tcs
       ELSE /\ UNCHANGED qcs
            /\ IF timeout = {}
               THEN /\ author_to_vote' = votes
                    /\ UNCHANGED <<round, blocks, tcs, partial_tc>>
               ELSE \E t \in timeout :
                    \E p \in {add(IF partial_tc = {} THEN [timeout |-> t, signatures |-> << >>]
                                  ELSE CHOOSE q \in partial_tc : TRUE, author, t)} :
                      IF Cardinality(DOMAIN p.signatures) >= Quorum
                      THEN /\ tcs' = {aggregate_signatures(p)}
                           /\ EnterRound
                      ELSE /\ author_to_vote' = votes /\ partial_tc' = {p}
                           /\ UNCHANGED <<round, blocks, tcs>>
  /\ UNCHANGED hcc

----------------------------------------------------------------------------
(* The block store's highest certificates. *)
Highest(S) == CHOOSE q \in S : \A p \in S : p.proposed.round <= q.proposed.round

hqc == Highest(qcs)

(* The highest ordered certificate: the one whose commit has the highest round. *)
Committed(q) == CHOOSE c \in q.commit : TRUE

hoc == LET ordered == {q \in qcs : q.commit # {}}
       IN CHOOSE q \in ordered : \A p \in ordered : Committed(p).round <= Committed(q).round

(* new_decoupled: no timeout certificate below the quorum certificate. *)
new_decoupled_KeepTc == [hqc |-> hqc, hoc |-> hoc, hcc |-> hcc, tc |-> tcs]

new_decoupled == [hqc |-> hqc, hoc |-> hoc, hcc |-> hcc,
                  tc |-> {t \in tcs : t.timeout.round > hqc.proposed.round}]

(* SyncInfo::verify *)
sync_info_verify(s) ==
  LET ordered == Committed(s.hoc)
  IN /\ s.hqc.proposed.round >= ordered.round
     /\ ordered.round >= s.hcc.round
     /\ qc_verify(s.hqc) /\ wrapped_verify(s.hoc)
     /\ \A t \in s.tc : tc_verify(t)

----------------------------------------------------------------------------
(* A proposal of this round on the highest certificate.  A block is only    *)
(* inserted once the clock has passed its timestamp, so the clock is later  *)
(* than the parent's; it reads the round.                                   *)
Propose ==
  /\ round <= MaxRound
  /\ \A b \in blocks : b.round = round => b.nil
  /\ blocks' = blocks \union {new_proposal(round, hqc, round)}
  /\ UNCHANGED <<round, qcs, tcs, author_to_vote, partial_tc, hcc>>

(* A voter's timeout carries the highest certificate it knows, any earlier  *)
(* one for all the collector can tell; without a vote it votes for nil.     *)
Timeouts == {[round |-> round, qc |-> q] : q \in {c \in qcs : c.proposed.round < round}}

Vote ==
  \E author \in Authors, b \in blocks :
    \E timeout \in {{}} \union {{t} : t \in Timeouts} : insert_vote(author, b, timeout)

generate_nil_block ==
  /\ round <= MaxRound
  /\ \E t \in Timeouts :
       /\ new_nil(round, t.qc) \notin blocks
       /\ blocks' = blocks \union {new_nil(round, t.qc)}
  /\ UNCHANGED <<round, qcs, tcs, author_to_vote, partial_tc, hcc>>

(* A commit decision for the ordered block arrives. *)
CommitDecision ==
  /\ hoc.commit # {hcc}
  /\ hcc' = Committed(hoc)
  /\ UNCHANGED <<round, blocks, qcs, tcs, author_to_vote, partial_tc>>

Init ==
  /\ round = 1
  /\ blocks = {} /\ qcs = {GenesisCert} /\ tcs = {}
  /\ author_to_vote = << >> /\ partial_tc = {}
  /\ hcc = Genesis

Next == Propose \/ generate_nil_block \/ Vote \/ CommitDecision

Spec == Init /\ [][Next]_vars

(* What a validator builds out of messages that verify, verifies: the       *)
(* blocks it proposes are well formed and carry a valid certificate, the    *)
(* quorum and timeout certificates it forms pass the checks of the others   *)
(* whatever the order of the votes and however often a voter resends them   *)
(* with a newer certificate, and so does its synchronisation information.   *)
BuiltVerifies ==
  /\ \A b \in blocks : verify_well_formed(b) /\ validate_signature(b)
  /\ \A q \in qcs : qc_verify(q)
  /\ \A t \in tcs : tc_verify(t)
  /\ sync_info_verify(new_decoupled)
  \* no timeout certificate travels that the quorum certificate passed
  /\ \A t \in new_decoupled.tc : t.timeout.round > hqc.proposed.round

=============================================================================
