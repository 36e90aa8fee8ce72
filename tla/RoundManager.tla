---------------------------- MODULE RoundManager ----------------------------
(***************************************************************************)
(* The rounds of one epoch: the round managers of the validators, the      *)
(* messages they exchange and the timers that drive them.                  *)
(*                                                                         *)
(* A node handles one event at a time (the select loop of                  *)
(* RoundManager::start), so every handler is one action.  What runs beside *)
(* the loop is an action of its own: the spawned proposal generation       *)
(* (which reads the highest QC, waits for a payload and signs), the wait   *)
(* for the payload of a proposal, and the task that sends a proposal back  *)
(* to the node once the vote back pressure is over.                        *)
(*                                                                         *)
(* A block is the sequence of headers [round, kind, tag] from the root to   *)
(* it: the block of its quorum certificate is its front, the root is <<>>. *)
(* `kind` is "nil" for the blocks voted on a timeout; `tag` tells apart    *)
(* what a proposer generates before and after a restart.  A QC is written  *)
(* as the block it certifies, a TC as [round, hqc], `hqc` the highest QC   *)
(* round its signers declared.  An optional value is a set of at most one  *)
(* element.  The ordered and commit certificates of a sync info follow     *)
(* from its QC (SafetyRules) and are left to BlockStore and BufferManager. *)
(***************************************************************************)
EXTENDS Integers, FiniteSets, FiniteSetsExt, Sequences, SequencesExt, TLC

CONSTANTS
  Validator,       \* the validators of the epoch
  Silent,          \* those that never send a message
  Power,           \* ValidatorVerifier: voting power of a validator
  Proposers,       \* the proposers the election rotates over, a sequence
  broadcast_vote,  \* ConsensusConfig::broadcast_vote
  MaxRound,        \* bound: the round in which the model stops
  MaxFaults        \* bound: lost messages, crashes, failed fetches, pressure

ConfigAssumption ==
  /\ Silent \subseteq Validator
  /\ Power \in [Validator -> Nat \ {0}]
  /\ Len(Proposers) > 0 /\ Range(Proposers) \subseteq Validator
  /\ broadcast_vote \in BOOLEAN
  /\ MaxRound \in Nat \ {0} /\ MaxFaults \in Nat

VARIABLES
  node,     \* the volatile and stored state of each validator
  net,      \* messages in flight: [to, m]
  cast,     \* history: every vote a validator signed
  faults    \* faults so far
vars == <<node, net, cast, faults>>

Live == Validator \ Silent
NoTC == [round |-> 0, hqc |-> 0]
NoTimeout == -1
Root == <<>>
Round(b) == IF b = Root THEN 0 ELSE Last(b).round

-----------------------------------------------------------------------------
(* ValidatorVerifier and proposer election *)

PowerOf(S) == FoldSet(LAMBDA v, p : p + Power[v], 0, S)
TotalPower == PowerOf(Validator)
QuorumPower == (TotalPower * 2) \div 3 + 1
\* ValidatorVerifier::check_voting_power
HasQuorum(S) == PowerOf(S) >= QuorumPower

\* RotatingProposer (contiguous rounds 1): the proposer of a round.
get_valid_proposer(r) == Proposers[(r % Len(Proposers)) + 1]

-----------------------------------------------------------------------------
(* SyncInfo *)

\* SyncInfo::new_decoupled drops a TC that is not above the highest QC.
SyncInfo(s) ==
  [hqc |-> s.hqc, tc |-> IF s.htc.round > Round(s.hqc) THEN s.htc ELSE NoTC]
highest_round(si) == Max({Round(si.hqc), si.tc.round})
has_newer_certificates(si, mine) ==
  \/ Round(si.hqc) > Round(mine.hqc)
  \/ si.tc.round > mine.tc.round

-----------------------------------------------------------------------------
(* RoundState and PendingVotes *)

\* process_new_round_event: the proposer of the round spawns the generation of
\* a proposal with the sync info of this moment.
process_new_round_event(s, n) ==
  LET task == [round |-> s.round, si |-> SyncInfo(s), hqc |-> {}]
  IN  IF get_valid_proposer(s.round) = n /\ s.round < MaxRound
        THEN [s EXCEPT !.tasks = @ \union {task}] ELSE s

\* RoundState::process_certificates, then process_new_round_event: a round
\* starts with no votes and no timeout echoed.
process_certificates(s, n) ==
  LET round == highest_round(SyncInfo(s)) + 1
  IN  IF round <= s.round THEN s
      ELSE process_new_round_event(
             [s EXCEPT !.round = round, !.pending = {}, !.partial_tc = {},
                       !.echo_timeout = FALSE, !.vote_sent = {}], n)

\* RoundState::record_vote
record_vote(s, vote) ==
  IF Round(vote.block) = s.round THEN [s EXCEPT !.vote_sent = {vote}] ELSE s

\* RoundState::is_vote_timeout
is_vote_timeout(s) == \E v \in s.vote_sent : v.timeout # NoTimeout

\* A mistake: the votes of a round are counted whatever they are for.
insert_vote_AnyBlock(s, vote) ==
  LET seen == {v \in s.pending : v.author = vote.author}
      stored == (s.pending \ seen) \union {vote}
  IN  [s |-> [s EXCEPT !.pending = stored],
       result |-> IF HasQuorum({v.author : v \in stored}) THEN "qc" ELSE "added"]

\* PendingVotes::insert_vote: [s, result].  A QC is preferred to a TC, a TC
\* to the echo of f+1 timeouts; an author counts once, and only a timeout
\* added to the same vote changes what it said.
insert_vote(s, vote) ==
  LET seen == {v \in s.pending : v.author = vote.author}
      stored == (s.pending \ seen) \union {vote}
      signers == {v.author : v \in {w \in stored : w.block = vote.block}}
      timeouts == s.partial_tc \union {vote}
      timedOut == {v.author : v \in timeouts}
      added == [s EXCEPT !.pending = stored]
      withTimeout == [added EXCEPT !.partial_tc = timeouts]
  IN  CASE \E v \in seen : v.block # vote.block ->
             [s |-> s, result |-> "equivocate"]
        [] \E v \in seen : v.timeout # NoTimeout \/ vote.timeout = NoTimeout ->
             [s |-> s, result |-> "duplicate"]
        [] OTHER ->
             IF HasQuorum(signers) THEN [s |-> added, result |-> "qc"]
             ELSE IF vote.timeout = NoTimeout
               THEN [s |-> added, result |-> "added"]
             ELSE IF HasQuorum(timedOut)
               THEN [s |-> withTimeout, result |-> "tc"]
             ELSE IF /\ ~s.echo_timeout
                     /\ PowerOf(timedOut) >= TotalPower - QuorumPower + 1
               THEN [s |-> [withTimeout EXCEPT !.echo_timeout = TRUE],
                     result |-> "echo"]
             ELSE [s |-> withTimeout, result |-> "added"]

-----------------------------------------------------------------------------
(* BlockStore and SafetyRules, as the round manager uses them *)

\* What a handler leaves behind: the node, the messages it sends, whether a
\* fault hit it, whether it returned Ok.
Outcome(s, out, f, ok) == [s |-> s, out |-> out, f |-> f, ok |-> ok]

Ancestors(b) == {SubSeq(b, 1, i) : i \in 0..Len(b)}

\* insert_quorum_cert: a block that is not in the store is fetched with its
\* ancestors, which may fail.
InsertQC(s, b) ==
  LET hqc == IF Round(b) > Round(s.hqc) THEN b ELSE s.hqc
      fetched == [s EXCEPT !.blocks = @ \union Ancestors(b), !.hqc = hqc]
  IN  {Outcome(fetched, {}, 0, TRUE)} \union
      (IF b \in s.blocks THEN {} ELSE {Outcome(s, {}, 1, FALSE)})

\* BlockStore::insert_2chain_timeout_certificate
InsertTC(s, tc) == IF tc.round > s.htc.round THEN [s EXCEPT !.htc = tc] ELSE s

\* BlockStore::add_certs
add_certs(s, si) ==
  {IF o.ok THEN [o EXCEPT !.s = InsertTC(o.s, si.tc)] ELSE o :
     o \in InsertQC(s, si.hqc)}

\* SafetyRules::construct_and_sign_vote_two_chain: the vote of this round is
\* returned again; else the round must be new and the block safe to vote.
SignVote(s, n, b) ==
  LET again == {v \in s.last_vote : Round(v.block) = Round(b)}
      qc == Front(b)
      vote == [author |-> n, block |-> b, timeout |-> NoTimeout]
      safe == \/ Round(b) = Round(qc) + 1
              \/ Round(b) = s.htc.round + 1 /\ Round(qc) >= s.htc.hqc
      signed == [s EXCEPT !.last_voted = Round(b), !.last_vote = {vote},
                          !.one_chain = Max({@, Round(qc)})]
  IN  IF again # {} THEN [s |-> s, votes |-> again]
      ELSE IF Round(b) > s.last_voted /\ safe
        THEN [s |-> signed, votes |-> {vote}]
        ELSE [s |-> s, votes |-> {}]

\* SafetyRules::sign_timeout_with_qc
CanTimeout(s) ==
  /\ s.round \in {Round(s.hqc) + 1, s.htc.round + 1}
  /\ Round(s.hqc) >= s.one_chain
  /\ s.round >= s.last_voted

\* sync_only: no votes, only sync infos.  So behaves a node in the last round
\* of the model.
sync_only(s) == s.pressure \/ s.round >= MaxRound

\* RoundManager::vote_block: [s, votes], no vote when it returns an error.
vote_block(s, n, b) ==
  LET stored == [s EXCEPT !.blocks = @ \union {b}]
  IN  IF Front(b) \notin s.blocks THEN [s |-> s, votes |-> {}]
      ELSE IF s.vote_sent # {} \/ sync_only(s)
        THEN [s |-> stored, votes |-> {}]
        ELSE SignVote(stored, n, b)

-----------------------------------------------------------------------------
(* The handlers of the round manager *)

ToAll(m) == {[to |-> v, m |-> m] : v \in Live}
VoteMsg(vote, si) == [type |-> "vote", from |-> vote.author, vote |-> vote,
                      si |-> si]
SyncMsg(n, si) == [type |-> "sync", from |-> n, si |-> si]

NilBlock(s) == Append(s.hqc, [round |-> s.round, kind |-> "nil", tag |-> 0])

\* A mistake: a validator that voted in the round does not time it out.
process_local_timeout_Voted(s, n) ==
  LET voted == vote_block(s, n, NilBlock(s))
      v == CHOOSE w \in voted.votes : TRUE
      signed == [v EXCEPT !.timeout = Round(s.hqc)]
  IN  IF sync_only(s)
        THEN Outcome(s, ToAll(SyncMsg(n, SyncInfo(s))), 0, FALSE)
      ELSE IF voted.votes = {} THEN Outcome(s, {}, 0, FALSE)
        ELSE Outcome(record_vote([voted.s EXCEPT !.last_voted = s.round], signed),
                     ToAll(VoteMsg(signed, SyncInfo(s))), 0, FALSE)

\* process_local_timeout: repeat the vote of this round, or vote for a NIL
\* block, with the round signed as timed out.
process_local_timeout(s, n) ==
  LET voted == IF s.vote_sent # {} THEN [s |-> s, votes |-> s.vote_sent]
               ELSE vote_block(s, n, NilBlock(s))
  IN  IF sync_only(s)
        THEN Outcome(s, ToAll(SyncMsg(n, SyncInfo(s))), 0, FALSE)
      ELSE IF voted.votes = {} THEN Outcome(voted.s, {}, 0, FALSE)
      ELSE LET v == CHOOSE w \in voted.votes : TRUE
               s1 == voted.s
               signed == IF v.timeout # NoTimeout THEN v
                         ELSE [v EXCEPT !.timeout = Round(s1.hqc)]
               s2 == IF v.timeout # NoTimeout THEN s1
                     ELSE [s1 EXCEPT !.last_voted = s1.round]
           IN  IF v.timeout = NoTimeout /\ ~CanTimeout(s1)
                 THEN Outcome(s1, {}, 0, FALSE)
                 ELSE Outcome(record_vote(s2, signed),
                              ToAll(VoteMsg(signed, SyncInfo(s2))), 0, FALSE)

\* A mistake: a sync starts a round only when it brought a QC.
sync_up_NoTimeouts(s, n, si) ==
  IF has_newer_certificates(si, SyncInfo(s))
    THEN {IF Round(o.s.hqc) > Round(s.hqc)
            THEN [o EXCEPT !.s = process_certificates(o.s, n)] ELSE o :
            o \in add_certs(s, si)}
    ELSE {Outcome(s, {}, 0, TRUE)}

\* sync_up: certificates newer than the local ones are added, and a new
\* round starts with those that were, even if the sync failed half way.
sync_up(s, n, si) ==
  IF has_newer_certificates(si, SyncInfo(s))
    THEN {[o EXCEPT !.s = process_certificates(o.s, n)] : o \in add_certs(s, si)}
    ELSE {Outcome(s, {}, 0, TRUE)}

\* ensure_round_and_sync_up
ensure_round_and_sync_up(s, n, round, si) ==
  IF round < s.round THEN {Outcome(s, {}, 0, FALSE)}
  ELSE {[o EXCEPT !.ok = @ /\ o.s.round = round] : o \in sync_up(s, n, si)}

\* process_verified_proposal
process_verified_proposal(s, n, b) ==
  LET voted == vote_block(s, n, b)
      recipients == IF broadcast_vote THEN Live
                    ELSE Live \intersect {get_valid_proposer(Round(b) + 1)}
  IN  IF voted.votes = {} THEN Outcome(voted.s, {}, 0, FALSE)
      ELSE LET v == CHOOSE w \in voted.votes : TRUE
               s1 == record_vote(voted.s, v)
           IN  Outcome(s1, {p \in ToAll(VoteMsg(v, SyncInfo(s1))) :
                              p.to \in recipients}, 0, TRUE)

\* check_backpressure_and_process_proposal: under back pressure the block is
\* stored and the proposal comes back to the node later.
check_backpressure_and_process_proposal(s, n, b) ==
  IF ~s.pressure THEN process_verified_proposal(s, n, b)
  ELSE IF Front(b) \notin s.blocks THEN Outcome(s, {}, 0, FALSE)
  ELSE Outcome([s EXCEPT !.blocks = @ \union {b}, !.delayed = @ \union {b}],
               {}, 0, TRUE)

\* UnequivocalProposerElection::is_valid_proposal: the first proposal of the
\* proposer of the round, or that one again.
is_valid_proposal(s, from, b) ==
  /\ from = get_valid_proposer(Round(b))
  /\ \A p \in s.proposed : Round(b) > Round(p) \/ b = p

\* process_proposal: a set of outcomes, the payload being there or not.
process_proposal(s, n, from, b) ==
  LET seen == [s EXCEPT !.proposed = {b}]
  IN  IF ~is_valid_proposal(s, from, b) THEN {Outcome(s, {}, 0, FALSE)}
      ELSE {check_backpressure_and_process_proposal(seen, n, b),
            Outcome([seen EXCEPT !.waiting = @ \union {b}], {}, 1, TRUE)}

\* ProposalMsg::verify_well_formed
ProposalWellFormed(m) ==
  /\ Front(m.block) = m.si.hqc
  /\ Round(m.block) - 1 = Max({Round(Front(m.block)), m.si.tc.round})

\* VoteMsg::verify
VoteWellFormed(m) ==
  /\ Round(m.vote.block) > highest_round(m.si)
  /\ m.vote.timeout # NoTimeout => m.vote.timeout <= Round(m.si.hqc)

\* UnverifiedEvent::verify: what others sent is verified before it reaches the
\* round manager, a sync info only when it is used.
verify(n, m) ==
  \/ m.from = n
  \/ CASE m.type = "proposal" -> ProposalWellFormed(m)
       [] m.type = "vote" -> VoteWellFormed(m)
       [] m.type = "sync" -> TRUE

Combine(o1, o2) == Outcome(o2.s, o1.out \union o2.out, o1.f + o2.f, o2.ok)

\* process_proposal_msg
process_proposal_msg(s, n, m) ==
  UNION {IF o.ok THEN {Combine(o, p) :
                         p \in process_proposal(o.s, n, m.from, m.block)}
                 ELSE {o} :
         o \in ensure_round_and_sync_up(s, n, Round(m.block), m.si)}

\* new_2chain_tc_aggregated
new_2chain_tc_aggregated(s, n, tc) ==
  Outcome(process_certificates(InsertTC(s, tc), n), {}, 0, TRUE)

\* process_vote and process_vote_reception_result: a QC or a TC is inserted
\* and the round moves on; f+1 timeouts are echoed.
process_vote(s, n, vote) ==
  LET new == insert_vote(s, vote)
      tc == [round |-> s.round,
             hqc |-> Max({v.timeout : v \in new.s.partial_tc})]
      wrongRecipient == /\ ~broadcast_vote
                        /\ vote.timeout = NoTimeout
                        /\ get_valid_proposer(Round(vote.block) + 1) # n
  IN  IF wrongRecipient THEN {Outcome(s, {}, 0, FALSE)}
      ELSE CASE new.result = "qc" ->
             {[o EXCEPT !.s = process_certificates(o.s, n)] :
                o \in InsertQC(new.s, vote.block)}
        [] new.result = "tc" ->
             {new_2chain_tc_aggregated(new.s, n, tc)}
        [] new.result = "echo" /\ ~is_vote_timeout(new.s) ->
             {process_local_timeout(new.s, n)}
        [] OTHER -> {Outcome(new.s, {}, 0, TRUE)}

\* process_vote_msg
process_vote_msg(s, n, m) ==
  UNION {IF o.ok /\ o.s.round < MaxRound
           THEN {Combine(o, p) : p \in process_vote(o.s, n, m.vote)}
           ELSE {o} :
         o \in ensure_round_and_sync_up(s, n, Round(m.vote.block), m.si)}

\* process_sync_info_msg
process_sync_info_msg(s, n, m) ==
  ensure_round_and_sync_up(s, n, highest_round(m.si) + 1, m.si)

-----------------------------------------------------------------------------
(* The specification *)

\* A validator whose store holds the root, before RoundManager::init.
Stored == [round |-> 0, hqc |-> Root, htc |-> NoTC, blocks |-> {Root},
           pending |-> {}, partial_tc |-> {}, echo_timeout |-> FALSE,
           vote_sent |-> {}, tasks |-> {}, last_round_generated |-> 0,
           proposed |-> {}, waiting |-> {}, delayed |-> {}, pressure |-> FALSE,
           last_voted |-> 0, last_vote |-> {}, one_chain |-> 0, boot |-> 0]

\* RoundManager::init: start the round the stored certificates lead to, with
\* the stored vote if it is of that round.
init(s, n) ==
  LET started == process_certificates(s, n)
  IN  IF s.last_vote = {} THEN started
      ELSE record_vote(started, CHOOSE v \in s.last_vote : TRUE)

Init ==
  /\ node = [n \in Live |-> init(Stored, n)]
  /\ net = {}
  /\ cast = {}
  /\ faults = 0

\* Whether node state s would do anything with message m: one of a round that
\* is over, a pending vote or a sync info, when they bring no certificate, is
\* dropped on arrival, as is all a node in the last round of the model gets.
Matters(m, s) ==
  /\ s.round < MaxRound
  /\ CASE m.type = "proposal" -> Round(m.block) >= s.round
       [] m.type = "vote" -> /\ Round(m.vote.block) >= s.round
                             /\ \/ m.vote \notin s.pending
                                \/ has_newer_certificates(m.si, SyncInfo(s))
       [] m.type = "sync" -> /\ highest_round(m.si) + 1 >= s.round
                             /\ has_newer_certificates(m.si, SyncInfo(s))

\* One outcome of a handler takes effect; `gone` are the messages it consumed.
\* Messages that no longer matter are dropped at once.
Apply(n, o, gone) ==
  /\ faults + o.f <= MaxFaults
  /\ faults' = faults + o.f
  /\ node' = [node EXCEPT ![n] = o.s]
  /\ net' = {p \in (net \ gone) \union o.out :
               Matters(p.m, IF p.to = n THEN o.s ELSE node[p.to])}
  /\ cast' = cast \union {p.m.vote : p \in {q \in o.out : q.m.type = "vote"}}

Deliver(n, from, type) ==
  \E p \in {q \in net : q.to = n /\ q.m.from = from /\ q.m.type = type} :
    \E o \in IF ~verify(n, p.m) THEN {Outcome(node[n], {}, 0, FALSE)}
             ELSE CASE type = "proposal" -> process_proposal_msg(node[n], n, p.m)
                    [] type = "vote" -> process_vote_msg(node[n], n, p.m)
                    [] type = "sync" -> process_sync_info_msg(node[n], n, p.m) :
      Apply(n, o, {p})

\* The timer of the round fires; it is set again, so it keeps firing.
LocalTimeout(n) == Apply(n, process_local_timeout(node[n], n), {})

\* generate_proposal, up to the payload pull: once per round, on the highest
\* QC of this moment.
StartProposal(n) ==
  \E t \in {u \in node[n].tasks : u.hqc = {}} :
    LET s == node[n]
        generated == [s EXCEPT !.last_round_generated = t.round]
        left == [s EXCEPT !.tasks = @ \ {t}]
    IN  Apply(n, Outcome(
          IF s.last_round_generated >= t.round THEN left
          ELSE IF Round(s.hqc) >= t.round
            THEN [left EXCEPT !.last_round_generated = t.round]
            ELSE [generated EXCEPT !.tasks =
                    (@ \ {t}) \union {[t EXCEPT !.hqc = {s.hqc}]}],
          {}, 0, TRUE), {})

\* generate_proposal after the pull: SafetyRules::sign_proposal, broadcast.
SendProposal(n) ==
  \E t \in {u \in node[n].tasks : u.hqc # {}} :
    LET s == node[n]
        hqc == CHOOSE b \in t.hqc : TRUE
        block == Append(hqc, [round |-> t.round, kind |-> "proposal",
                              tag |-> s.boot])
        m == [type |-> "proposal", from |-> n, block |-> block, si |-> t.si]
    IN  Apply(n, Outcome([s EXCEPT !.tasks = @ \ {t}],
                         IF t.round > s.last_voted THEN ToAll(m) ELSE {},
                         0, TRUE), {})

\* The payload a proposal waits for arrives (or the wait fails): the select
\* arm of `futures` goes on with the block.
PayloadArrives(n) ==
  \E b \in node[n].waiting :
    LET s == [node[n] EXCEPT !.waiting = @ \ {b}]
    IN  \E o \in {check_backpressure_and_process_proposal(s, n, b),
                  Outcome(s, {}, 1, FALSE)} : Apply(n, o, {})

\* resend_verified_proposal_to_self and process_delayed_proposal_msg: once the
\* pressure is over the proposal is voted if its round is still on; the task
\* gives up after a while.
DelayedProposal(n) ==
  \E b \in node[n].delayed :
    LET s == [node[n] EXCEPT !.delayed = @ \ {b}]
    IN  Apply(n, IF s.pressure \/ Round(b) # s.round
                   THEN Outcome(s, {}, 0, FALSE)
                   ELSE process_verified_proposal(s, n, b), {})

\* BlockStore::vote_back_pressure starts and ends.
PressureOn(n) ==
  /\ ~node[n].pressure
  /\ Apply(n, Outcome([node[n] EXCEPT !.pressure = TRUE], {}, 1, TRUE), {})
PressureOff(n) ==
  /\ node[n].pressure
  /\ Apply(n, Outcome([node[n] EXCEPT !.pressure = FALSE], {}, 0, TRUE), {})

\* A message is lost on its way to another node.
Lose ==
  \E p \in {q \in net : q.to # q.m.from} :
    /\ faults < MaxFaults /\ faults' = faults + 1
    /\ net' = net \ {p}
    /\ UNCHANGED <<node, cast>>

\* The process stops and starts again: the blocks, the certificates and the
\* safety data are stored, everything else is lost, and with it what was on
\* its way to the node.
Crash(n) ==
  LET s == node[n]
      stored == [Stored EXCEPT !.hqc = s.hqc, !.htc = s.htc,
                  !.blocks = s.blocks, !.last_voted = s.last_voted,
                  !.last_vote = s.last_vote, !.one_chain = s.one_chain,
                  !.boot = s.boot + 1]
  IN  Apply(n, Outcome(init(stored, n), {}, 1, TRUE),
            {p \in net : p.to = n})

Types == {"proposal", "vote", "sync"}
Handle(n) ==
  \/ \E from \in Live, type \in Types : Deliver(n, from, type)
  \/ StartProposal(n) \/ SendProposal(n)
  \/ PayloadArrives(n) \/ DelayedProposal(n)
Next ==
  \/ \E n \in Live : \/ Handle(n) \/ LocalTimeout(n)
                     \/ PressureOn(n) \/ PressureOff(n) \/ Crash(n)
  \/ Lose

Spec == Init /\ [][Next]_vars
-----------------------------------------------------------------------------
(* Properties *)

TypeOK ==
  /\ DOMAIN node = Live
  /\ \A n \in Live : /\ node[n].round \in 1..MaxRound
                     /\ node[n].hqc \in node[n].blocks
                     /\ Cardinality(node[n].vote_sent) <= 1
  /\ \A p \in net : p.to \in Live /\ p.m.type \in {"proposal", "vote", "sync"}
  /\ faults \in 0..MaxFaults

\* The round of a node is the one after its highest certificate, "the max of
\* highest_qc and highest_tc, plus one" (RoundState), whatever order votes,
\* proposals and sync infos arrive in, a sync fails or the node restarts; and
\* the vote it remembers (vote_sent) is of that round.
RoundJustified ==
  \A n \in Live :
    /\ node[n].round = highest_round(SyncInfo(node[n])) + 1
    /\ \A v \in node[n].vote_sent : Round(v.block) = node[n].round

Signers(b) == {v.author : v \in {w \in cast : w.block = b}}
TimedOut(r) == {v.author : v \in {w \in cast : /\ Round(w.block) = r
                                               /\ w.timeout # NoTimeout}}

\* PendingVotes makes a certificate only of a quorum: the validators behind
\* the highest QC (TC) of a node hold a quorum of the power and did sign that
\* block (that timeout), and no two blocks of a round are certified, also
\* when a validator voted, restarted and was asked for a vote again, or voted
\* late for a proposal whose payload arrived after its round.
CertificatesReal ==
  /\ \A n \in Live :
       /\ node[n].hqc # Root => HasQuorum(Signers(node[n].hqc))
       /\ node[n].htc # NoTC => HasQuorum(TimedOut(node[n].htc.round))
  /\ \A v, w \in cast : /\ Round(v.block) = Round(w.block)
                        /\ HasQuorum(Signers(v.block))
                        /\ HasQuorum(Signers(w.block))
                        => v.block = w.block

\* Nothing is left to handle, and no timer that fires changes anything.
Quiet ==
  /\ net = {}
  /\ \A n \in Live :
       /\ node[n].tasks = {} /\ node[n].waiting = {} /\ node[n].delayed = {}
       /\ ~node[n].pressure
       /\ \E o \in {process_local_timeout(node[n], n)} :
            /\ o.s = node[n]
            /\ \A p \in o.out : ~Matters(p.m, node[p.to])

\* The timeouts keep the rounds going: when every message is handled and the
\* timers change nothing any more, every validator reached the last round of
\* the model, whichever message was lost, whichever node crashed, was pressed
\* back or failed to fetch a block.
NoRoundStuck == Quiet => \A n \in Live : node[n].round = MaxRound
=============================================================================
