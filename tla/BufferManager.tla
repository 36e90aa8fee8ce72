--------------------------- MODULE BufferManager ---------------------------
(***************************************************************************)
(* BufferManager (consensus/src/pipeline): the path of an ordered block to *)
(* a commit proof at one validator, with its execution, signing and        *)
(* persisting phases and the commit votes and decisions of the others.     *)
(*                                                                         *)
(* The BufferManager is one task: a turn of its select! loop is an action, *)
(* written as the composition of the methods it calls on the record bm.    *)
(* An OrderedBlocks batch is one block, and its round is its number.  What *)
(* a commit info says beyond the ordered block is abstracted to the block  *)
(* whose timestamp it carries (0: anything else).                          *)
(***************************************************************************)
EXTENDS Integers, Sequences, FiniteSets
LOCAL INSTANCE SequencesExt

CONSTANTS Author, Peers,    \* this validator and the others
          Faulty,           \* the peers that do not run this code
          Quorum,           \* the number of votes that check_voting_power accepts
          MaxRound,         \* a bound: the blocks that get ordered
          Reconfig,         \* the block that changes the epoch, or None
          OtherIds,         \* a bound: the other block ids that faulty peers vote for
          ConsensusAlpha,   \* is the fork active?
          MaxBacklog,       \* MAX_BACKLOG
          MaxPendingRounds, \* max_pending_rounds_in_commit_vote_cache
          MaxPendingProofs, \* MAX_PENDING_COMMIT_PROOFS
          MaxCachedIds,     \* MAX_CACHED_BLOCK_IDS_PER_AUTHOR_PER_COMMIT_VOTE_ROUND
          MaxRequests,      \* a bound: execution requests in flight
          Faults,           \* which of "timeout", "signing", "persist" may happen
          None

ASSUME ManagerAssumption ==
    /\ Author \notin Peers /\ Faulty \subseteq Peers /\ IsFiniteSet(Peers)
    /\ Quorum > Cardinality(Faulty)
    /\ MaxRound \in Nat /\ Reconfig \in 1..MaxRound \cup {None}
    /\ None \notin Int

Authors == Peers \cup {Author}
Blocks == 1..MaxRound

VARIABLES bm,       \* the BufferManager
          ordered,  \* the last block that the BlockStore sent for execution
          answered, \* the highest block the executor has answered for
          acked,    \* <<author, block>> of the honest votes acked since the last reset
          target    \* the round of the last reset: the root of the BlockStore is not below

vars == <<bm, ordered, answered, acked, target>>

NoSigs == [a \in Authors |-> None]

Init ==
    /\ bm = [item |-> [n \in Blocks |-> None], execution_root |-> None, signing_root |-> None,
             end_epoch_timestamp |-> None, highest_committed_round |-> 0, latest_round |-> 0,
             commit_vote_cache |-> {}, pending_commit_proofs |-> {},
             exec_q |-> <<>>, retry |-> 0, signing |-> {}, persist_q |-> <<>>,
             commit_votes |-> {}, panicked |-> FALSE]
    /\ ordered = 0 /\ answered = 0 /\ acked = {} /\ target = 0

-----------------------------------------------------------------------------
(* The blocks from the epoch change on carry the next epoch state in their results. *)
HasReconfiguration(n) == Reconfig # None /\ n >= Reconfig

(* The commit info that the validators agree on, as executed_commit_timestamp_usecs has it. *)
AgreedInfo(n) == IF HasReconfiguration(n) /\ ConsensusAlpha THEN Reconfig ELSE n

(* BlockInfo::match_ordered_only, which lets a suffix block carry an earlier timestamp. *)
MatchOrderedOnly(n, info) == info \in {n, 0} \/ (info < n /\ HasReconfiguration(n))

InBuffer(m) == {n \in Blocks : m.item[n] # None}
Least(S) == IF S = {} THEN None ELSE CHOOSE n \in S : \A k \in S : n <= k
Greatest(S) == IF S = {} THEN None ELSE CHOOSE n \in S : \A k \in S : n >= k

(* Buffer::find_elem_from the cursor, or from the head *)
FindFrom(m, cursor, stage) ==
    IF cursor # None /\ m.item[cursor] = None THEN None
    ELSE Least({n \in InBuffer(m) : (cursor = None \/ n >= cursor) /\ m.item[n].stage = stage})

\* Mutant of FindByKey: the whole buffer is searched.
FindByKey_Anywhere(m, cursor, n) == m.item[n] # None

(* Buffer::find_elem_by_key *)
FindByKey(m, cursor, n) ==
    cursor # None /\ m.item[n] # None /\ m.item[cursor] # None /\ n >= cursor

AdvanceExecutionRoot(m) ==
    [m EXCEPT !.execution_root = FindFrom(m, @, "ordered")]

(* Requests for signing are a set: a second response for a block finds it signed. *)
AdvanceSigningRoot(m) ==
    LET root == FindFrom(m, m.signing_root, "executed")
    IN  [m EXCEPT !.signing_root = root,
                  !.signing = IF root = None THEN @
                              ELSE @ \cup {[block |-> root, info |-> m.item[root].info]}]

IfNoExecutionRoot(m) == IF m.execution_root = None THEN AdvanceExecutionRoot(m) ELSE m
IfNoSigningRoot(m) == IF m.signing_root = None THEN AdvanceSigningRoot(m) ELSE m

Panic(m) == [m EXCEPT !.panicked = TRUE]

\* Mutant of AdvanceHead: the item of n is taken out of the middle.
AdvanceHead_OnlyOne(m, n) ==
    LET Popped(root) == IF root = n THEN None ELSE root
    IN  [m EXCEPT !.item[n] = None,
                  !.signing_root = Popped(@),
                  !.execution_root = Popped(@),
                  !.persist_q = Append(@, [lo |-> n, hi |-> n, info |-> m.item[n].info,
                                           unexecuted |-> {}])]

(* Pop the prefix up to the aggregated block n, and send it to the persisting phase. *)
AdvanceHead(m, n) ==
    LET Popped(root) == IF root # None /\ root <= n THEN None ELSE root
    IN  [m EXCEPT !.item = [k \in Blocks |-> IF k <= n THEN None ELSE @[k]],
                  !.signing_root = Popped(@),
                  !.execution_root = Popped(@),
                  !.persist_q = Append(@, [lo |-> Least(InBuffer(m)), hi |-> n,
                                           info |-> m.item[n].info,
                                           unexecuted |-> {k \in InBuffer(m) : k < n
                                               /\ m.item[k].stage = "ordered"}])]

Aggregated(it) == [it EXCEPT !.stage = "aggregated"]
IsAggregated(m, n) == m.item[n] # None /\ m.item[n].stage = "aggregated"
HasQuorum(sigs) == Cardinality({a \in Authors : sigs[a] # None}) >= Quorum

-----------------------------------------------------------------------------
Vote(author, n, id, info) == [author |-> author, block |-> n, id |-> id, info |-> info]

(* BufferItem::add_signature_if_matched: an ordered item keeps what it cannot check yet. *)
Matches(it, v) ==
    IF it.stage = "ordered" THEN MatchOrderedOnly(v.block, v.info) ELSE it.info = v.info

AddSignature(it, v) == [it EXCEPT !.sigs[v.author] = v.info]

(* drain_cached_commit_votes *)
Cached(m, n) == {v \in m.commit_vote_cache : v.block = n /\ v.id = 0}

AddFromCache(it, votes) ==
    [it EXCEPT !.sigs =
        [a \in Authors |-> LET mine == {v \in votes : v.author = a /\ Matches(it, v)}
                           IN  IF mine = {} THEN @[a] ELSE (CHOOSE v \in mine : TRUE).info]]

(* process_ordered_blocks, with new_ordered *)
ProcessOrderedBlocks(m, n) ==
    LET it == [stage |-> "ordered", sigs |-> NoSigs, info |-> n, proof |-> None]
    IN  [m EXCEPT !.latest_round = n,
                  !.exec_q = Append(@, n),
                  !.item[n] = AddFromCache(it, Cached(m, n)),
                  !.commit_vote_cache = @ \ Cached(m, n)]

NeedBackpressure(m) == m.highest_committed_round + MaxBacklog < m.latest_round

ReceiveOrderedBlocks ==
    /\ ~bm.panicked /\ ~NeedBackpressure(bm)
    /\ ordered < MaxRound
    /\ Len(bm.exec_q) < MaxRequests
    /\ ordered' = ordered + 1
    /\ \E m \in {ProcessOrderedBlocks(bm, ordered + 1)} : bm' = IfNoExecutionRoot(m)
    /\ UNCHANGED <<answered, acked, target>>

-----------------------------------------------------------------------------
\* Mutants of EndTimestamp: it is never set, and every block of the suffix sets it again.
EndTimestamp_Never(m, n) == m.end_epoch_timestamp
EndTimestamp_Latest(m, n) == IF HasReconfiguration(n) THEN n ELSE m.end_epoch_timestamp

(* The timestamp that ends the epoch is the one of the first executed block that carries *)
(* the next epoch state; a block that comes after it takes it over.                       *)
EndTimestamp(m, n) ==
    IF m.end_epoch_timestamp = None /\ HasReconfiguration(n) THEN n ELSE m.end_epoch_timestamp

ExecutedInfo(m, n) == IF EndTimestamp(m, n) = None THEN n ELSE EndTimestamp(m, n)

\* Mutant of AdvanceToExecutedOrAggregated: without a quorum the unverified votes are dropped.
AdvanceToExecutedOrAggregated_Drops(it, n, info) ==
    LET verified == [a \in Authors |-> IF it.sigs[a] = info THEN info ELSE None]
    IN  IF it.proof # None THEN Aggregated([it EXCEPT !.info = it.proof])
        ELSE IF HasQuorum(verified) THEN Aggregated([it EXCEPT !.info = info])
        ELSE [it EXCEPT !.stage = "executed", !.sigs = NoSigs, !.info = info]

(* BufferItem::advance_to_executed_or_aggregated *)
AdvanceToExecutedOrAggregated(it, n, info) ==
    LET verified == [a \in Authors |-> IF it.sigs[a] = info THEN info ELSE None]
    IN  IF it.proof # None THEN Aggregated([it EXCEPT !.info = it.proof])
        ELSE IF HasQuorum(verified) THEN Aggregated([it EXCEPT !.info = info])
        ELSE [it EXCEPT !.stage = "executed", !.sigs = verified,
                        !.info = IF ConsensusAlpha THEN info ELSE n]

(* The assertions of advance_to_executed_or_aggregated *)
CanAdvance(m, n) ==
    LET info == ExecutedInfo(m, n)
    IN  /\ m.item[n].stage = "ordered"
        /\ info # n => HasReconfiguration(n)
        /\ m.item[n].proof \in {None, info}

ProcessExecutionResponse(m, n) ==
    LET info == ExecutedInfo(m, n)
        it == AdvanceToExecutedOrAggregated(m.item[n], n, info)
        proof == Greatest({k \in m.pending_commit_proofs : k <= n})
        decided == it.stage # "aggregated" /\ proof = n
        new == [m EXCEPT !.end_epoch_timestamp = EndTimestamp(m, n),
                         !.pending_commit_proofs = {k \in @ : k > n},
                         !.item[n] = IF decided THEN Aggregated(it) ELSE it]
    IN  IF ~FindByKey(m, m.execution_root, n) THEN m
        ELSE IF ~CanAdvance(m, n) \/ (decided /\ it.info # AgreedInfo(n)) THEN Panic(m)
        ELSE IF IsAggregated(new, n) THEN AdvanceHead(new, n)
        ELSE new

\* Mutant of AfterExecution: a failed execution is not retried.
AfterExecution_NoRetry(m, n) == IfNoSigningRoot(AdvanceExecutionRoot(m))

(* What the loop does after a response for n: advance the roots, and come back to the *)
(* schedule phase when n is still the execution root.                                  *)
AfterExecution(m, n) ==
    LET new == AdvanceExecutionRoot(m)
    IN  IfNoSigningRoot([new EXCEPT
            !.retry = IF m.execution_root = n /\ new.execution_root = n THEN @ + 1 ELSE @])

(* The phases are FIFO, and so are the 5 s limits of get_executed_res: a block fails only *)
(* before it is computed, so never after a later block has been answered.                 *)
ExecutionResponse(ok) ==
    LET n == Head(bm.exec_q)
        rest == [bm EXCEPT !.exec_q = Tail(@)]
    IN  /\ ~bm.panicked /\ bm.exec_q # <<>>
        /\ ~ok => "timeout" \in Faults /\ n > answered
        /\ answered' = IF ok /\ n > answered THEN n ELSE answered
        /\ \E m \in {IF ok THEN ProcessExecutionResponse(rest, n) ELSE rest} :
              bm' = AfterExecution(m, n)
        /\ UNCHANGED <<ordered, acked, target>>

\* Mutant of RetrySchedulePhase: only the execution root is scheduled again.
RetrySchedulePhase_RootOnly ==
    /\ ~bm.panicked /\ bm.retry > 0
    /\ Len(bm.exec_q) < MaxRequests
    /\ bm' = [bm EXCEPT !.retry = @ - 1,
                        !.exec_q = IF bm.execution_root = None THEN @
                                   ELSE Append(@, bm.execution_root)]
    /\ UNCHANGED <<ordered, answered, acked, target>>

RetrySchedulePhase ==
    LET again == {n \in InBuffer(bm) : bm.execution_root # None /\ n >= bm.execution_root}
    IN  /\ ~bm.panicked /\ bm.retry > 0
        /\ Len(bm.exec_q) + Cardinality(again) <= MaxRequests
        /\ bm' = [bm EXCEPT !.retry = @ - 1,
                            !.exec_q = @ \o [i \in 1..Cardinality(again) |->
                                                bm.execution_root + i - 1]]
        /\ UNCHANGED <<ordered, answered, acked, target>>

-----------------------------------------------------------------------------
(* process_signing_response; the vote is broadcast to every validator, this one included. *)
ProcessSigningResponse(m, n) ==
    IF FindByKey(m, m.signing_root, n) /\ m.item[n].stage = "executed"
    THEN [m EXCEPT !.item[n].stage = "signed",
                   !.commit_votes = @ \cup {Vote(Author, n, 0, m.item[n].info)}]
    ELSE m

(* guarded_sign_commit_vote signs only a commit info that matches the ordered block. *)
SigningResponse(req, ok) ==
    LET rest == [bm EXCEPT !.signing = @ \ {req}]
    IN  /\ ~bm.panicked /\ req \in bm.signing
        /\ IF ok THEN MatchOrderedOnly(req.block, req.info)
           ELSE "signing" \in Faults \/ ~MatchOrderedOnly(req.block, req.info)
        /\ \E m \in {IF ok THEN ProcessSigningResponse(rest, req.block) ELSE rest} :
              bm' = AdvanceSigningRoot(m)
        /\ UNCHANGED <<ordered, answered, acked, target>>

(* The persisting phase: persisted, or "Pipeline may stall". *)
PersistingResponse(ok) ==
    LET hi == Head(bm.persist_q).hi
    IN  /\ ~bm.panicked /\ bm.persist_q # <<>>
        /\ ~ok => "persist" \in Faults
        /\ bm' = IF ok THEN [bm EXCEPT !.persist_q = Tail(@),
                                       !.commit_vote_cache = {v \in @ : v.block > hi},
                                       !.highest_committed_round = hi]
                 ELSE [bm EXCEPT !.persist_q = Tail(@)]
        /\ UNCHANGED <<ordered, answered, acked, target>>

-----------------------------------------------------------------------------
(* try_advance_to_aggregated *)
TryAggregate(it) ==
    IF it.stage \in {"executed", "signed"} /\ HasQuorum(it.sigs) THEN Aggregated(it) ELSE it

\* Mutants of AfterCommitMessage: the roots, or the head, are not advanced.
AfterCommitMessage_RootsStay(m, n) == IF IsAggregated(m, n) THEN AdvanceHead(m, n) ELSE m
AfterCommitMessage_HeadStays(m, n) == IfNoSigningRoot(IfNoExecutionRoot(m))

(* What the loop does after process_commit_message has touched the item of n *)
AfterCommitMessage(m, n) ==
    IF IsAggregated(m, n) THEN IfNoSigningRoot(IfNoExecutionRoot(AdvanceHead(m, n))) ELSE m

VoteForItem(m, v) ==
    LET it == AddFromCache(m.item[v.block], Cached(m, v.block))
        new == IF Matches(it, v) THEN TryAggregate(AddSignature(it, v)) ELSE it
    IN  [m EXCEPT !.item[v.block] = new, !.commit_vote_cache = @ \ Cached(m, v.block)]

InWindow(m, n) ==
    m.highest_committed_round < n /\ n < m.highest_committed_round + MaxPendingRounds

(* can_cache_commit_vote_for_block *)
CanCacheFor(cache, v) ==
    LET round_cache == {c \in cache : c.block = v.block}
    IN  \/ \E c \in round_cache : c.id = v.id
        \/ Cardinality({c.id : c \in {d \in round_cache : d.author = v.author}}) < MaxCachedIds

\* Mutant of CacheCommitVote: a vote beyond the window is acked too.
CacheCommitVote_AcksAll(m, v) ==
    LET cache == {c \in m.commit_vote_cache : InWindow(m, c.block)}
        add == InWindow(m, v.block) /\ CanCacheFor(cache, v)
    IN  [cache |-> IF add THEN cache \cup {v} ELSE cache, ack |-> TRUE]

(* cache_commit_vote: the cache, and whether the vote is acked *)
CacheCommitVote(m, v) ==
    LET cache == {c \in m.commit_vote_cache : InWindow(m, c.block)}
        same == {c \in cache : c.author = v.author /\ c.block = v.block /\ c.id = v.id}
        add == InWindow(m, v.block) /\ CanCacheFor(cache, v)
    IN  [cache |-> IF add THEN (cache \ same) \cup {v} ELSE cache,
         ack |-> add \/ v.block <= m.highest_committed_round]

ReceiveVote(v) ==
    LET found == v.id = 0 /\ bm.item[v.block] # None
        cached == CacheCommitVote(bm, v)
        ack == IF found THEN Matches(bm.item[v.block], v) ELSE cached.ack
    IN  /\ ~bm.panicked
        /\ \E m \in {IF found THEN VoteForItem(bm, v)
                     ELSE [bm EXCEPT !.commit_vote_cache = cached.cache]} :
              bm' = AfterCommitMessage(m, v.block)
        /\ acked' = IF ack /\ v.author \notin Faulty THEN acked \cup {<<v.author, v.block>>}
                    ELSE acked
        /\ UNCHANGED <<ordered, answered, target>>

(* try_add_pending_commit_proof: full, it gives up its oldest proof for a newer one. *)
AddPendingCommitProof(m, n) ==
    LET proofs == m.pending_commit_proofs
        full == Cardinality(proofs) >= MaxPendingProofs
    IN  IF n <= m.highest_committed_round \/ (full /\ n <= Least(proofs)) THEN m
        ELSE [m EXCEPT !.pending_commit_proofs =
                  (IF full THEN @ \ {Least(@)} ELSE @) \cup {n}]

\* Mutant of DecideItem: an ordered item is aggregated without its execution.
DecideItem_Unexecuted(m, n) == [m EXCEPT !.item[n] = Aggregated(@)]

(* try_advance_to_aggregated_with_ledger_info, and its assertions *)
DecideItem(m, n) ==
    LET it == m.item[n]
        info == AgreedInfo(n)
    IN  IF it.stage = "ordered"
        THEN IF MatchOrderedOnly(n, info) THEN [m EXCEPT !.item[n].proof = info] ELSE Panic(m)
        ELSE IF it.info = info
        THEN [m EXCEPT !.item[n] = Aggregated(it)]
        ELSE Panic(m)

ReceiveDecision(n) ==
    /\ ~bm.panicked
    /\ \E m \in {IF bm.item[n] # None THEN DecideItem(bm, n) ELSE AddPendingCommitProof(bm, n)} :
          bm' = AfterCommitMessage(m, n)
    /\ UNCHANGED <<ordered, answered, acked, target>>

-----------------------------------------------------------------------------
\* Mutant of Reset: the signing root stays.
Reset_KeepsSigningRoot(t) ==
    /\ ~bm.panicked
    /\ t >= bm.highest_committed_round /\ t > target
    /\ bm' = [bm EXCEPT !.highest_committed_round = t, !.latest_round = t,
                        !.item = [n \in Blocks |-> None], !.execution_root = None,
                        !.commit_vote_cache = {}, !.pending_commit_proofs = {},
                        !.exec_q = <<>>, !.signing = {}, !.persist_q = <<>>]
    /\ ordered' = t /\ answered' = t /\ acked' = {} /\ target' = t

(* process_reset_request with a TargetRound, for a state sync to the block t.  The phases *)
(* skip the requests they still have; what they answered is in the channels to the loop.  *)
(* A bound: every sync has a higher target than the last.                                 *)
Reset(t) ==
    /\ ~bm.panicked
    /\ t >= bm.highest_committed_round /\ t > target
    /\ \E exec \in AllSubSeqs(bm.exec_q), sign \in SUBSET bm.signing,
          persists \in 0..Len(bm.persist_q) :
          bm' = [bm EXCEPT !.highest_committed_round = t, !.latest_round = t,
                           !.item = [n \in Blocks |-> None],
                           !.execution_root = None, !.signing_root = None,
                           !.commit_vote_cache = {}, !.pending_commit_proofs = {},
                           !.exec_q = exec, !.signing = sign,
                           !.persist_q = SubSeq(@, 1, persists)]
    /\ ordered' = t /\ answered' = t /\ acked' = {} /\ target' = t

(* The votes that may arrive: those of this validator and of the peers that run its code, *)
(* and what the faulty ones sign.                                                          *)
Votes == bm.commit_votes
         \cup {Vote(a, n, 0, AgreedInfo(n)) : a \in Peers, n \in Blocks}
         \cup {Vote(a, n, 0, n) : a \in Faulty, n \in Blocks}
         \cup {Vote(a, n, id, 0) : a \in Faulty, n \in Blocks, id \in {0} \cup OtherIds}

Next ==
    \/ ReceiveOrderedBlocks
    \/ \E ok \in BOOLEAN : ExecutionResponse(ok) \/ PersistingResponse(ok)
    \/ RetrySchedulePhase
    \/ \E req \in bm.signing, ok \in BOOLEAN : SigningResponse(req, ok)
    \/ \E v \in Votes : ReceiveVote(v)
    \/ \E n \in Blocks : ReceiveDecision(n)

Spec == Init /\ [][Next]_vars

(* With a validator that falls behind and resets the manager for a state sync. *)
SyncNext == Next \/ \E n \in Blocks : Reset(n)

SyncSpec == Init /\ [][SyncNext]_vars

-----------------------------------------------------------------------------
(* Type invariant. *)
Items == [stage : {"ordered", "executed", "signed"}, info : 0..MaxRound,
          sigs : [Authors -> 0..MaxRound \cup {None}], proof : Blocks \cup {None}]
VoteSet == [author : Authors, block : Blocks, id : {0} \cup OtherIds, info : 0..MaxRound]

TypeOK ==
    /\ \A n \in Blocks : bm.item[n] \in Items \cup {None}
    /\ {bm.execution_root, bm.signing_root, bm.end_epoch_timestamp} \subseteq Blocks \cup {None}
    /\ {bm.highest_committed_round, bm.latest_round, ordered, answered} \subseteq 0..MaxRound
    /\ bm.commit_vote_cache \subseteq VoteSet /\ bm.commit_votes \subseteq VoteSet
    /\ bm.pending_commit_proofs \subseteq Blocks
    /\ bm.exec_q \in Seq(Blocks) /\ bm.retry \in Nat /\ bm.panicked \in BOOLEAN
    /\ bm.signing \subseteq [block : Blocks, info : Blocks]
    /\ acked \subseteq Authors \X Blocks

(* None of the assertions of buffer_item.rs fails: no panic in the BufferManager's task. *)
NoPanic == ~bm.panicked

(* A commit proof that goes to the persisting phase has the commit info the validators  *)
(* agree on, whatever the faulty ones signed before the block was executed.             *)
CommitInfoAgreed ==
    \A i \in 1..Len(bm.persist_q) : bm.persist_q[i].info = AgreedInfo(bm.persist_q[i].hi)

(* The blocks above the committed round are, in this order and without a gap, those of  *)
(* the persist requests in flight and those of the buffer: advance_head skips none and  *)
(* sends none twice.                                                                    *)
NoBlockLost ==
    LET q == bm.persist_q
        Before(i) == IF i = 1 THEN bm.highest_committed_round ELSE q[i - 1].hi
    IN  /\ \A i \in 1..Len(q) : q[i].lo = Before(i) + 1 /\ q[i].lo <= q[i].hi
        /\ InBuffer(bm) = Before(Len(q) + 1) + 1 .. bm.latest_round

(* A vote that was acked will not be sent again for 30 s; until its block leaves the    *)
(* buffer with a commit proof, it is in the cache or counts for its item.               *)
AckedVoteKept ==
    \A <<a, n>> \in acked :
        IF bm.item[n] # None THEN bm.item[n].sigs[a] # None
        ELSE \/ n <= ordered
             \/ \E v \in bm.commit_vote_cache : v.author = a /\ v.block = n /\ v.id = 0

(* No block waits for a response that nobody will send: the first ordered block is the  *)
(* execution root and its execution is under way or to be retried; a block that waits   *)
(* for its signature has a signing root whose request is under way, or was passed over  *)
(* for a later block, which is signed and will commit it too.                           *)
NoLostRequest ==
    LET Stage(s) == {n \in InBuffer(bm) : bm.item[n].stage = s}
        root == bm.signing_root
    IN  /\ bm.execution_root = Least(Stage("ordered"))
        /\ bm.execution_root # None =>
              bm.retry > 0 \/ \E i \in 1..Len(bm.exec_q) : bm.exec_q[i] = bm.execution_root
        /\ \A n \in Stage("executed") : root # None \/ \E k \in Stage("signed") : k > n
        /\ root # None => \E req \in bm.signing : req.block = root

(* Blocks are executed in order, so what advance_head hands to the persisting phase has *)
(* its execution result, and its events can be published.                               *)
PersistedExecuted == \A i \in 1..Len(bm.persist_q) : bm.persist_q[i].unexecuted = {}

(* A block on its way to a commit proof is neither lost nor left waiting, the votes that  *)
(* were acked count for it, and what goes to the persisting phase has the agreed info.    *)
BufferSound == NoBlockLost /\ AckedVoteKept /\ NoLostRequest /\ CommitInfoAgreed

(* What a state sync has committed stays committed: no answer to a request from before  *)
(* the reset takes the committed round back below the target.                           *)
ResetTargetKept == bm.highest_committed_round >= target

-----------------------------------------------------------------------------
(* The phases answer, an execution or a signature that is retried succeeds at last, and a  *)
(* correct peer broadcasts its vote until it is acked or it has a commit proof, which then *)
(* comes with its sync info (sync_to_highest_commit_cert sends it on to this loop).        *)
VoteOrDecision(a, n) ==
    /\ <<a, n>> \notin acked
    /\ ReceiveVote(Vote(a, n, 0, AgreedInfo(n))) \/ ReceiveDecision(n)

OwnVote(n) ==
    /\ <<Author, n>> \notin acked
    /\ \E v \in bm.commit_votes : v.block = n /\ ReceiveVote(v)

Fairness ==
    /\ WF_vars(ReceiveOrderedBlocks \/ PersistingResponse(TRUE))
    /\ SF_vars(ExecutionResponse(TRUE))
    /\ WF_vars(RetrySchedulePhase)
    /\ SF_vars(\E req \in bm.signing : SigningResponse(req, TRUE))
    /\ WF_vars(\E n \in Blocks : OwnVote(n) \/ \E a \in Peers \ Faulty : VoteOrDecision(a, n))

FairSpec == Spec /\ Fairness

(* Every ordered block is committed at last, whatever timed out or was retried on the   *)
(* way: advance_execution_root and advance_signing_root leave no block behind.          *)
OrderedIsCommitted ==
    \A n \in Blocks : (ordered >= n) ~> (bm.highest_committed_round >= n)
=============================================================================
