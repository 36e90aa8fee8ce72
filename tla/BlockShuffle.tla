---------------------------- MODULE BlockShuffle ----------------------------
(***************************************************************************)
(* The order of the transactions of a block: the deduper and the three     *)
(* shufflers (transaction_shuffler/, txn_hash_and_authenticator_deduper),  *)
(* run on every short list of transactions.  A step is one turn of the     *)
(* algorithm's outer loop.  Transactions are named by their place in the   *)
(* input.                                                                  *)
(***************************************************************************)
EXTENDS Integers, Sequences, FiniteSets, SequencesExt

CONSTANTS
    Txns,        \* [sender, use]: use is "platform", "others" or a contract
    MaxLen,      \* bound: length of a block
    Spreads      \* [sender, platform, user]: spread factors or window sizes

VARIABLES
    alg,     \* "use_case", "sender", "fairness" or "dedup"
    input,   \* the transactions of the block
    spread,
    next,    \* the first input that has not been looked at
    out,     \* the selected transactions
    queue,   \* DelayedQueue
    pending, \* PendingTransactions, or the PendingZones
    panicked

vars == <<alg, input, spread, next, out, queue, pending, panicked>>

Sender(i) == input[i].sender
Use(i) == input[i].use
Chosen == ToSet(out)

Put(f, k, v) == [x \in DOMAIN f \cup {k} |-> IF x = k THEN v ELSE f[x]]
Drop(f, K) == [x \in DOMAIN f \ K |-> f[x]]

------------------------------------------------------------------------------
(* DelayedQueue.  The ordered maps are sets of <<DelayKey, name>>, a       *)
(* DelayKey is <<try_delay_till, input_idx>>; ok is FALSE after an assert  *)
(* or an expect fails.                                                     *)
Less(a, b) == a[1] < b[1] \/ (a[1] = b[1] /\ a[2] < b[2])
First(m) == CHOOSE e \in m : \A f \in m : e = f \/ Less(e[1], f[1])

EmptyQueue == [accounts |-> <<>>, use_cases |-> <<>>, main |-> {}, account_placeholders |-> {},
               use_case_placeholders |-> {}, output_idx |-> 0, ok |-> TRUE]

strict_insert(q, m, key, name) ==
    [q EXCEPT ![m] = @ \cup {<<key, name>>}, !.ok = @ /\ ~\E e \in q[m] : e[1] = key]

strict_remove(q, m, key) ==
    [q EXCEPT ![m] = {e \in @ : e[1] # key}, !.ok = @ /\ \E e \in q[m] : e[1] = key]

AccountKey(a) == <<a.till, a.idx>>
UseCaseKey(u) ==
    <<IF u.accounts # {} /\ First(u.accounts)[1][1] > u.till THEN First(u.accounts)[1][1] ELSE u.till, u.idx>>

UseCaseQueue(u) == IF u.accounts = {} THEN "use_case_placeholders" ELSE "main"

use_case_spread_factor(k) == IF k = "platform" THEN spread.platform ELSE spread.user

add_account(u, s, a) ==
    LET all == u.accounts \cup {<<AccountKey(a), s>>}
    IN [u EXCEPT !.accounts = all, !.idx = IF First(all)[2] = s THEN a.idx ELSE @]

InsertUseCase(q, k) ==
    strict_insert(q, UseCaseQueue(q.use_cases[k]), UseCaseKey(q.use_cases[k]), k)
RemoveUseCase(q, k) ==
    strict_remove(q, UseCaseQueue(q.use_cases[k]), UseCaseKey(q.use_cases[k]))

SetUseCase(q, k, u) == [q EXCEPT !.use_cases = Put(@, k, u)]
SetAccount(q, s, a) == [q EXCEPT !.accounts = Put(@, s, a)]

CanAdd(u, a) == \A e \in u.accounts : e[1] # AccountKey(a)

(* An account with transactions joins the use case of the first one. *)
Join(q, s, k, till) ==
    LET a == q.accounts[s]
    IN IF k \in DOMAIN q.use_cases
       THEN InsertUseCase(SetUseCase(RemoveUseCase([q EXCEPT !.ok = @ /\ CanAdd(q.use_cases[k], a)], k),
                                     k, add_account(q.use_cases[k], s, a)), k)
       ELSE InsertUseCase(SetUseCase(q, k, [till |-> till, idx |-> a.idx,
                                            accounts |-> {<<AccountKey(a), s>>}]), k)

drain_placeholders(q) ==
    LET stale(m) == {e \in q[m] : e[1][1] <= q.output_idx}
        names(m) == {e[2] : e \in stale(m)}
    IN [q EXCEPT !.use_case_placeholders = @ \ stale("use_case_placeholders"),
                 !.account_placeholders = @ \ stale("account_placeholders"),
                 !.use_cases = Drop(@, names("use_case_placeholders")),
                 !.accounts = Drop(@, names("account_placeholders")),
                 !.ok = @ /\ names("use_case_placeholders") \subseteq DOMAIN q.use_cases
                          /\ names("account_placeholders") \subseteq DOMAIN q.accounts]

bump_output_idx(q, n) ==
    IF n > q.output_idx THEN drain_placeholders([q EXCEPT !.output_idx = n]) ELSE q

CanPop(q, onlyIfReady) ==
    q.main # {} /\ (onlyIfReady => First(q.main)[1][1] <= q.output_idx)

(* Mutant: the account keeps the place of the transaction that left. *)
Dequeued_OldIdx(q, a) ==
    [till |-> q.output_idx + 1 + spread.sender, txns |-> Tail(a.txns), idx |-> a.idx]

(* Account::expect_dequeue_txn and the new delay. *)
Dequeued(q, a) ==
    [till |-> q.output_idx + 1 + spread.sender, txns |-> Tail(a.txns),
     idx |-> IF Len(a.txns) > 1 THEN a.txns[2] ELSE a.idx]

WithoutHead(q, u, k) ==
    LET rest == u.accounts \ {First(u.accounts)}
    IN [till |-> q.output_idx + 1 + use_case_spread_factor(k), accounts |-> rest,
        idx |-> IF rest # {} THEN First(rest)[1][2] ELSE u.idx]

(* The transaction pop_head returns, and the queue it leaves. *)
PopTxn(q) ==
    LET k == First(q.main)[2] IN Head(q.accounts[First(q.use_cases[k].accounts)[2]].txns)

pop_head(q) ==
    LET e == First(q.main)
        k == e[2]
        h == First(q.use_cases[k].accounts)
        s == h[2]
        a == Dequeued(q, q.accounts[s])
        u == WithoutHead(q, q.use_cases[k], k)
        p == SetAccount(SetUseCase([q EXCEPT !.main = @ \ {e},
                                    !.ok = @ /\ h[1][1] <= e[1][1] /\ h[1][2] = e[1][2]], k, u), s, a)
    IN IF a.txns = <<>>
       THEN InsertUseCase(strict_insert(p, "account_placeholders", AccountKey(a), s), k)
       ELSE IF Use(a.txns[1]) = k
       THEN InsertUseCase(SetUseCase([p EXCEPT !.ok = @ /\ CanAdd(u, a)], k, add_account(u, s, a)), k)
       ELSE Join(InsertUseCase(p, k), s, Use(a.txns[1]), q.output_idx + 1)

(* queue_txn: transaction i has to wait. *)
queue_txn(q, i) ==
    LET s == Sender(i)
        a == q.accounts[s]
    IN IF s \notin DOMAIN q.accounts
       THEN IF Use(i) \notin DOMAIN q.use_cases THEN [q EXCEPT !.ok = FALSE]
            ELSE Join(SetAccount(q, s, [till |-> q.output_idx + 1, idx |-> i, txns |-> <<i>>]),
                      s, Use(i), 0)
       ELSE IF a.txns = <<>>
       THEN Join(SetAccount([q EXCEPT !.account_placeholders = @ \ {<<AccountKey(a), s>>}],
                            s, [a EXCEPT !.idx = i, !.txns = <<i>>]),
                 s, Use(i), q.output_idx)
       ELSE SetAccount([q EXCEPT !.ok = @ /\ Last(a.txns) < i], s, [a EXCEPT !.txns = Append(@, i)])

update_delays_for_selected_txn(q, i) ==
    LET k == Use(i)
        a == [till |-> q.output_idx + 1 + spread.sender, idx |-> i, txns |-> <<>>]
        till == q.output_idx + 1 + use_case_spread_factor(k)
        p == IF k \in DOMAIN q.use_cases
             THEN InsertUseCase(SetUseCase(RemoveUseCase([q EXCEPT !.ok = @ /\ q.use_cases[k].accounts # {}], k),
                                           k, [q.use_cases[k] EXCEPT !.till = till]), k)
             ELSE InsertUseCase(SetUseCase(q, k, [till |-> till, idx |-> i, accounts |-> {}]), k)
    IN strict_insert(SetAccount([p EXCEPT !.ok = @ /\ Sender(i) \notin DOMAIN q.accounts], Sender(i), a),
                     "account_placeholders", AccountKey(a), Sender(i))

(* Mutant: transactions queued under the same account are forgotten. *)
ShouldDelay_NoQueue(q, i) ==
    \/ Sender(i) \in DOMAIN q.accounts /\ q.accounts[Sender(i)].till > q.output_idx
    \/ Use(i) \in DOMAIN q.use_cases /\ q.use_cases[Use(i)].till > q.output_idx

ShouldDelay(q, i) ==
    \/ /\ Sender(i) \in DOMAIN q.accounts
       /\ q.accounts[Sender(i)].txns # <<>> \/ q.accounts[Sender(i)].till > q.output_idx
    \/ Use(i) \in DOMAIN q.use_cases /\ q.use_cases[Use(i)].till > q.output_idx

(* queue_or_return on the inputs from i on, up to the first that goes out. *)
RECURSIVE Seek(_, _)
Seek(q, i) ==
    IF i > Len(input) THEN [queue |-> q, next |-> i, txn |-> 0]
    ELSE IF ShouldDelay(q, i) THEN Seek(queue_txn(q, i), i + 1)
    ELSE [queue |-> update_delays_for_selected_txn(q, i), next |-> i + 1, txn |-> i]

(* ShuffledTransactionIterator::select_next_txn. *)
select_next_txn ==
    LET q == bump_output_idx(queue, Len(out))
        s == Seek(q, next)
    IN IF CanPop(q, TRUE) THEN [queue |-> pop_head(q), next |-> next, txn |-> PopTxn(q)]
       ELSE IF s.txn # 0 THEN s
       ELSE IF CanPop(s.queue, FALSE) THEN [queue |-> pop_head(s.queue), next |-> s.next, txn |-> PopTxn(s.queue)]
       ELSE s

StepUseCase ==
    /\ alg = "use_case"
    /\ Len(out) < Len(input)
    /\ \E s \in {select_next_txn} :
        /\ out' = IF s.txn = 0 THEN out ELSE Append(out, s.txn)
        /\ queue' = s.queue
        /\ next' = s.next
        /\ panicked' = (~s.queue.ok \/ s.txn = 0)
    /\ UNCHANGED <<alg, input, spread, pending>>

------------------------------------------------------------------------------
(* SenderAwareShuffler.  Queues that are filled in the order of the input  *)
(* are sets of places, their front is the least one.                       *)
LastSelected(order, n) == {order[j] : j \in {j \in DOMAIN order : j > Len(order) - n}}

has_conflict(s) == \E j \in LastSelected(out, spread.sender) : Sender(j) = s

last_dropped_sender ==
    {s \in {Sender(out[j]) : j \in {j \in DOMAIN out : j = Len(out) - spread.sender}} : ~has_conflict(s)}

FromSender(S, s) == {i \in S : Sender(i) = s}

(* remove_first_pending: ordered still holds what left through its sender. *)
remove_first_pending(p) ==
    {i \in p.ordered : i \in p.waiting /\ i = Min(FromSender(p.waiting, Sender(i)))}

next_to_add ==
    LET dropped == UNION {FromSender(pending.waiting, s) : s \in last_dropped_sender}
        free == {i \in next .. Len(input) : ~has_conflict(Sender(i))}
        stop == IF free = {} THEN Len(input) + 1 ELSE Min(free)
        more == next .. stop - 1
        p == [ordered |-> pending.ordered \cup more, waiting |-> pending.waiting \cup more]
        fit == remove_first_pending(p)
    IN IF dropped # {}
       THEN [txn |-> Min(dropped), next |-> next, pending |-> [pending EXCEPT !.waiting = @ \ {Min(dropped)}]]
       ELSE IF free # {} THEN [txn |-> stop, next |-> stop + 1, pending |-> p]
       ELSE IF fit # {}
       THEN [txn |-> Min(fit), next |-> stop, pending |-> [ordered |-> {i \in p.ordered : i > Min(fit)},
                                                           waiting |-> p.waiting \ {Min(fit)}]]
       ELSE [txn |-> 0, next |-> stop, pending |-> p]

StepSender ==
    /\ alg = "sender"
    /\ Len(out) < Len(input)
    /\ IF spread.sender = 0
       THEN out' = [i \in DOMAIN input |-> i] /\ UNCHANGED <<next, pending, panicked>>
       ELSE \E s \in {next_to_add} :
            /\ out' = IF s.txn = 0 THEN out ELSE Append(out, s.txn)
            /\ next' = s.next
            /\ pending' = s.pending
            /\ panicked' = (s.txn = 0)
    /\ UNCHANGED <<alg, input, spread, queue>>

------------------------------------------------------------------------------
(* FairnessShuffler: a conflict key and a window per zone.                 *)
Zone == {"sender", "module", "entry_fun"}

extract_from(z, i) == IF z = "sender" THEN Sender(i) ELSE Use(i)

conflict_exempt(z, i) ==
    CASE z = "sender" -> FALSE
      [] z = "module" -> Use(i) = "platform"
      [] z = "entry_fun" -> Use(i) \in {"platform", "others"}

window_sizes(z) ==
    CASE z = "sender" -> spread.sender [] z = "module" -> spread.platform [] z = "entry_fun" -> spread.user

SameKey(z, i, j) == extract_from(z, i) = extract_from(z, j)

is_conflict(st, i) ==
    \E z \in Zone : /\ ~conflict_exempt(z, i)
                    /\ \E j \in LastSelected(st.order, window_sizes(z)) : SameKey(z, i, j)

PendingOnKey(st, z, i) == {j \in st.zones[z] : SameKey(z, i, j)}

(* Mutant: only the window is looked at. *)
is_head_of_line_blocked_Never(st, i) == FALSE

is_head_of_line_blocked(st, i) ==
    \E z \in Zone : ~conflict_exempt(z, i) /\ \E j \in PendingOnKey(st, z, i) : j < i

PushPending(st, i) ==
    [st EXCEPT !.zones = [z \in Zone |-> IF conflict_exempt(z, i) THEN @[z] ELSE @[z] \cup {i}]]

PopPending(st, i) ==
    [st EXCEPT !.zones = [z \in Zone |-> @[z] \ {i}],
               !.ok = @ /\ \A z \in Zone : conflict_exempt(z, i) \/
                            (i \in st.zones[z] /\ i = Min(PendingOnKey(st, z, i)))]

Select(st, i, isPending) ==
    LET p == IF isPending THEN PopPending(st, i) ELSE st
    IN [p EXCEPT !.order = Append(@, i), !.ok = @ /\ i \notin ToSet(st.order)]

(* ConflictZone::add: the key that left the window of a zone, if it did,   *)
(* and the first transaction waiting on it.                                *)
Unconflicted(st) ==
    UNION {LET left == {st.order[j] : j \in {j \in DOMAIN st.order : j = Len(st.order) - window_sizes(z)}}
           IN {Min(PendingOnKey(st, z, i)) : i \in
                {i \in left : /\ ~conflict_exempt(z, i)
                              /\ ~\E j \in LastSelected(st.order, window_sizes(z)) : SameKey(z, i, j)
                              /\ PendingOnKey(st, z, i) # {}}} : z \in Zone}

RECURSIVE SelectUnconflicted(_, _)
SelectUnconflicted(st, maybe) ==
    IF maybe = {} THEN st
    ELSE LET i == Min(maybe)
         IN IF is_conflict(st, i) \/ is_head_of_line_blocked(st, i)
            THEN SelectUnconflicted(st, maybe \ {i})
            ELSE LET p == Select(st, i, TRUE)
                 IN SelectUnconflicted(p, (maybe \ {i}) \cup Unconflicted(p))

select_and_select_unconflicted(st, i, isPending) ==
    LET p == Select(st, i, isPending) IN SelectUnconflicted(p, Unconflicted(p))

FairnessState == [order |-> out, zones |-> pending.zones, ok |-> TRUE]

(* A turn of one of the two passes over the transactions. *)
StepFairness ==
    LET left == {i \in next .. Len(input) : i \notin Chosen}
        i == Min(left)
        st == FairnessState
        res == IF pending.pass = 2 THEN select_and_select_unconflicted(st, i, TRUE)
               ELSE IF is_conflict(st, i) \/ is_head_of_line_blocked(st, i) THEN PushPending(st, i)
               ELSE select_and_select_unconflicted(st, i, FALSE)
    IN /\ alg = "fairness"
       /\ \/ /\ left = {} /\ pending.pass = 1
             /\ next' = 1
             /\ pending' = [pending EXCEPT !.pass = 2]
             /\ UNCHANGED <<out, panicked>>
          \/ /\ left # {}
             /\ next' = i + 1
             /\ \E r \in {res} : /\ out' = r.order
                                 /\ pending' = [pending EXCEPT !.zones = r.zones]
                                 /\ panicked' = ~r.ok
       /\ UNCHANGED <<alg, input, spread, queue>>

------------------------------------------------------------------------------
(* TxnHashAndAuthenticatorDeduper: here all the transactions of a sender   *)
(* have the same sequence number, and the rest of one is its use.          *)
PossibleDuplicate(i) == \E j \in DOMAIN input : j # i /\ Sender(j) = Sender(i)

dedup ==
    SelectSeq([i \in DOMAIN input |-> i],
              LAMBDA i : \/ ~PossibleDuplicate(i)
                         \/ ~\E j \in 1 .. i - 1 : PossibleDuplicate(j) /\ input[j] = input[i])

StepDedup ==
    /\ alg = "dedup"
    /\ next = 1
    /\ out' = dedup
    /\ next' = Len(input) + 1
    /\ UNCHANGED <<alg, input, spread, queue, pending, panicked>>

------------------------------------------------------------------------------
Init ==
    /\ alg \in {"use_case", "sender", "fairness", "dedup"}
    /\ input \in BoundedSeq(Txns, MaxLen)
    /\ spread \in Spreads
    /\ next = 1
    /\ out = <<>>
    /\ queue = EmptyQueue
    /\ pending = IF alg = "fairness" THEN [zones |-> [z \in Zone |-> {}], pass |-> 1]
                 ELSE [ordered |-> {}, waiting |-> {}]
    /\ panicked = FALSE

Next == StepUseCase \/ StepSender \/ StepFairness \/ StepDedup

Spec == Init /\ [][Next]_vars

------------------------------------------------------------------------------
Finished ==
    IF alg = "fairness" THEN pending.pass = 2 /\ \A i \in next .. Len(input) : i \in Chosen
    ELSE IF alg = "dedup" THEN next > Len(input)
    ELSE Len(out) = Len(input)

Position(i) == CHOOSE p \in DOMAIN out : out[p] = i

Ordered(Same(_, _)) ==
    \A i, j \in DOMAIN input : (i < j /\ Same(i, j) /\ j \in Chosen) =>
        i \in Chosen /\ Position(i) < Position(j)

(* The output is the input, reordered: nothing lost, nothing twice (and    *)
(* for the deduper, one of each).                                          *)
Permutes ==
    /\ Len(out) = Cardinality(Chosen)
    /\ (Finished /\ alg # "dedup") => Chosen = DOMAIN input
    /\ (Finished /\ alg = "dedup") =>
        /\ \A i \in DOMAIN input : Cardinality({j \in Chosen : input[j] = input[i]}) = 1
        /\ \A p, r \in DOMAIN out : p < r => out[p] < out[r]

(* "Relative ordering of all transactions from the same [sender] before    *)
(* and after shuffling is same"; the fairness shuffler keeps the order for *)
(* each key that is not exempt.                                            *)
OrderKept ==
    /\ alg # "dedup" => Ordered(LAMBDA i, j : Sender(i) = Sender(j))
    /\ alg = "fairness" =>
        \A z \in Zone : Ordered(LAMBDA i, j : ~conflict_exempt(z, i) /\ SameKey(z, i, j))

(* Transaction i would not have been delayed at place p of the output. *)
FreeAt(i, p) ==
    LET before(n) == {out[j] : j \in {j \in 1 .. p - 1 : j > p - 1 - n}}
    IN /\ \A j \in before(spread.sender) : Sender(j) # Sender(i)
       /\ alg = "use_case" => \A j \in before(use_case_spread_factor(Use(i))) : Use(j) # Use(i)

(* A transaction that repeats the sender or the use case of a recent one   *)
(* is selected only if every remaining one does too.                       *)
SpreadBest ==
    alg \in {"use_case", "sender"} =>
        \A p \in DOMAIN out : ~FreeAt(out[p], p) =>
            \A i \in DOMAIN input \ {out[j] : j \in 1 .. p} :
                (\A k \in 1 .. i - 1 : Sender(k) = Sender(i) => \E j \in 1 .. p - 1 : out[j] = k)
                => ~FreeAt(i, p)

ShuffleSound == ~panicked /\ Permutes /\ OrderKept /\ SpreadBest
=============================================================================
