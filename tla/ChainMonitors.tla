--------------------------- MODULE ChainMonitors ---------------------------
(* The chain monitors of the sentinel (bin/sentinel/src/chain_monitor).     *)
(* Five tasks poll Ethereum and Liquent for bridge events and raise alerts. *)
(* Four of them read one shared cursor, the last Ethereum block scanned;    *)
(* only the large-withdrawal and the bridge-timeout monitors move it.  The  *)
(* checkpoint that holds the cursors and the pending nonces is flushed to   *)
(* disk now and then and read back at a restart.                            *)
(*                                                                          *)
(* A block carries one event at most, so a lock is named by its block: the  *)
(* block number is its nonce.  A failed RPC call, a restart and a file that *)
(* cannot be read are faults, MaxFaults of them at most.                    *)
(* The notifier never reports a failure to a monitor (notifier.rs, alert    *)
(* returns Ok), so raising an alert is all a monitor can do.  The back-off  *)
(* sleep after an error only delays the next poll.                          *)
EXTENDS Integers, Sequences, FiniteSets

CONSTANTS
  Deployments,     \* the sets of monitors an operator may enable
  Events,          \* what an Ethereum block may carry, besides nothing
  Governance,      \* {TRUE} when expected_governance_address is set
  Balances,        \* the vault balances that occur
  DropAbsolute, DropBasisPoints,
  Confirmations, Timeout, MaxFailures,
  MaxBlocks, MaxMints, MaxClock, MaxFaults   \* bounds

VARIABLES
  enabled,         \* the monitors that run
  eth,             \* the events of the Ethereum blocks, and when they came
  liq,             \* the nonces minted by the Liquent blocks
  balance,         \* the bridge's token balance
  now,
  ckpt,            \* the shared checkpoint
  disk,            \* the checkpoint file: at most one checkpoint
  task,            \* where each monitor is in its poll
  failures,        \* consecutive failures of each polling loop
  raised,          \* <<tag, block>> of the alerts raised
  first,           \* history: the block the cursor first held since a fresh start
  faults

world == <<eth, liq, balance, now>>
vars == <<enabled, world, ckpt, disk, task, failures, raised, first, faults>>

Idle == [op |-> "idle", at |-> 0, from |-> 0, to |-> 0, due |-> {}]

Loops == {"withdrawal", "timeout", "timeout_liq", "owner", "timelock", "vault"}

(* Checkpoint::default() *)
DefaultCheckpoint == [ethereum_block |-> 0, liquent_block |-> 0,
                      pending |-> << >>, vault |-> {}]

(* spawn_all: every enabled monitor starts idle over one shared checkpoint. *)
spawn_all(deployed) ==
  /\ enabled' = deployed
  /\ task' = [m \in deployed |-> Idle]
  /\ failures' = [l \in Loops |-> 0]

Init ==
  /\ enabled \in Deployments
  /\ eth = << >> /\ liq = << >> /\ now = 0
  /\ balance \in IF "vault" \in enabled THEN Balances ELSE {0}
  /\ ckpt = DefaultCheckpoint /\ disk = {}
  /\ task = [m \in enabled |-> Idle]
  /\ failures = [l \in Loops |-> 0]
  /\ raised = {} /\ first = 0 /\ faults = 0

----------------------------------------------------------------------------
(* provider.rs *)

get_safe_block_number ==
  IF Len(eth) > Confirmations THEN Len(eth) - Confirmations ELSE 0

(* get_logs: the blocks from..to whose event has this kind, on this contract. *)
get_logs(kind, on, from, to) ==
  {b \in from..to : b \in DOMAIN eth /\ eth[b].kind = kind /\ eth[b].on = on}

----------------------------------------------------------------------------
(* One operator per check of a poll: the alerts it raises for from..to.     *)

check_tokens_locked(from, to) ==
  {<<"large", b>> : b \in {c \in get_logs("lock", "sender", from, to) : eth[c].flag}}

check_emergency(from, to) ==
  {<<"emergency", b>> : b \in get_logs("emergency", "sender", from, to)}

check_emergency_withdraw(from, to) ==
  {<<"owner", b>> : b \in get_logs("emergency", "sender", from, to)}

check_erc20_recovered(from, to) ==
  {<<"owner", b>> : b \in get_logs("recovered", "sender", from, to)}

check_fee_config_updated(from, to) ==
  {<<"owner", b>> : b \in get_logs("fee_config", "portal", from, to)}

check_fee_recipient_updated(from, to) ==
  {<<"owner", b>> : b \in get_logs("fee_recipient", "portal", from, to)}

check_fees_withdrawn(from, to) ==
  {<<"owner", b>> : b \in get_logs("fees", "portal", from, to)}

check_ownership_transfer_started(contract, from, to) ==
  {<<"started", b>> : b \in get_logs("started", contract, from, to)}

check_ownership_transferred(contract, from, to) ==
  {<<"transferred", b>> : b \in get_logs("transferred", contract, from, to)}

(* An EmergencyWithdraw whose sender is not the expected governance address; *)
(* the flag of the event says that it is.                                   *)
check_governance_bypass(from, to) ==
  IF Governance = {} THEN {}
  ELSE {<<"bypass", b>> : b \in {c \in get_logs("emergency", "sender", from, to) : ~eth[c].flag}}

(* The checks of a poll, in the order the code makes them. *)
LargeWithdrawalChecks(from, to) == << check_tokens_locked(from, to), check_emergency(from, to) >>

OwnerActivityChecks(from, to) ==
  << check_emergency_withdraw(from, to), check_erc20_recovered(from, to),
     check_fee_config_updated(from, to), check_fee_recipient_updated(from, to),
     check_fees_withdrawn(from, to) >>

TimelockChecks(from, to) ==
  << check_ownership_transfer_started("sender", from, to),
     check_ownership_transfer_started("portal", from, to),
     check_ownership_transferred("sender", from, to),
     check_ownership_transferred("portal", from, to),
     check_governance_bypass(from, to) >>

Checks(m, from, to) ==
  CASE m = "withdrawal" -> LargeWithdrawalChecks(from, to)
    [] m = "owner"      -> OwnerActivityChecks(from, to)
    [] m = "timelock"   -> TimelockChecks(from, to)
    [] OTHER            -> << {} >>

----------------------------------------------------------------------------
(* The head of a poll: read the safe block, then the cursor under its lock. *)

PollFrom_Skips == IF ckpt.ethereum_block = 0 THEN get_safe_block_number
                  ELSE get_safe_block_number

PollFrom == IF ckpt.ethereum_block = 0 THEN get_safe_block_number
            ELSE ckpt.ethereum_block + 1

poll_once(m) ==
  /\ m \in enabled \ {"vault"} /\ task[m] = Idle
  /\ IF PollFrom > get_safe_block_number
     THEN /\ failures' = [failures EXCEPT ![m] = 0]
          /\ UNCHANGED task
     ELSE /\ task' = [task EXCEPT ![m] = [Idle EXCEPT !.op = "eth", !.at = 1, !.from = PollFrom,
                                                      !.to = get_safe_block_number]]
          /\ UNCHANGED failures
  /\ UNCHANGED <<enabled, world, ckpt, disk, raised, first, faults>>

(* The next check of the poll: its logs, and an alert for each. *)
RunCheck(m) ==
  /\ m \in {"withdrawal", "owner", "timelock"} \cap enabled
  /\ task[m].op = "eth"
  /\ LET checks == Checks(m, task[m].from, task[m].to)
     IN /\ task[m].at \in DOMAIN checks
        /\ raised' = raised \union checks[task[m].at]
        /\ IF m # "withdrawal" /\ task[m].at = Len(checks)
           THEN /\ task' = [task EXCEPT ![m] = Idle]
                /\ failures' = [failures EXCEPT ![m] = 0]
           ELSE /\ task' = [task EXCEPT ![m].at = @ + 1]
                /\ UNCHANGED failures
  /\ UNCHANGED <<enabled, world, ckpt, disk, first, faults>>

(* poll_ethereum of the bridge-timeout monitor: every TokensLocked becomes  *)
(* pending at its block's timestamp, or at the clock's when that RPC fails. *)
poll_ethereum ==
  /\ "timeout" \in enabled
  /\ task["timeout"].op = "eth" /\ task["timeout"].at = 1
  /\ LET locks == get_logs("lock", "sender", task["timeout"].from, task["timeout"].to)
     IN \E late \in SUBSET locks :
          /\ faults + Cardinality(late) <= MaxFaults
          /\ faults' = faults + Cardinality(late)
          /\ ckpt' = [ckpt EXCEPT !.pending =
               [n \in DOMAIN @ \union locks |->
                  IF n \in late THEN now ELSE IF n \in locks THEN eth[n].time ELSE @[n]]]
  /\ task' = [task EXCEPT !["timeout"].at = 2]
  /\ UNCHANGED <<enabled, world, disk, failures, raised, first>>

(* The end of a poll of the two monitors that move the cursor. *)
MoveCursor(m) ==
  /\ m \in {"withdrawal", "timeout"} \cap enabled
  /\ task[m].op = "eth"
  /\ task[m].at = IF m = "withdrawal" THEN 3 ELSE 2
  /\ ckpt' = [ckpt EXCEPT !.ethereum_block = IF @ > task[m].to THEN @ ELSE task[m].to]
  /\ first' = IF first = 0 THEN task[m].to ELSE first
  /\ task' = [task EXCEPT ![m] = Idle]
  /\ failures' = [failures EXCEPT ![m] = 0]
  /\ UNCHANGED <<enabled, world, disk, raised, faults>>

----------------------------------------------------------------------------
(* poll_liquent: the mints of the new blocks settle their nonces; then the  *)
(* Liquent cursor moves.                                                    *)

Minted(from, to) == {liq[b] : b \in (from..to) \cap DOMAIN liq}

LiquentFrom == IF ckpt.liquent_block = 0 THEN Len(liq) ELSE ckpt.liquent_block + 1

poll_liquent ==
  /\ "timeout" \in enabled /\ task["timeout"] = Idle
  /\ IF LiquentFrom > Len(liq)
     THEN /\ failures' = [failures EXCEPT !["timeout_liq"] = 0]
          /\ UNCHANGED <<task, ckpt>>
     ELSE /\ ckpt' = [ckpt EXCEPT !.pending =
               [n \in DOMAIN @ \ Minted(LiquentFrom, Len(liq)) |-> @[n]]]
          /\ task' = [task EXCEPT !["timeout"] =
               [Idle EXCEPT !.op = "liq", !.at = 2, !.from = LiquentFrom, !.to = Len(liq)]]
          /\ UNCHANGED failures
  /\ UNCHANGED <<enabled, world, disk, raised, first, faults>>

MoveLiquentCursor ==
  /\ "timeout" \in enabled /\ task["timeout"].op = "liq"
  /\ ckpt' = [ckpt EXCEPT !.liquent_block = IF @ > task["timeout"].to THEN @ ELSE task["timeout"].to]
  /\ task' = [task EXCEPT !["timeout"] = Idle]
  /\ failures' = [failures EXCEPT !["timeout_liq"] = 0]
  /\ UNCHANGED <<enabled, world, disk, raised, first, faults>>

(* check_timeouts: alert for the overdue nonces, then forget them. *)
Overdue == {n \in DOMAIN ckpt.pending : now - ckpt.pending[n] > Timeout}

check_timeouts ==
  /\ "timeout" \in enabled /\ task["timeout"] = Idle
  /\ Overdue # {}
  /\ raised' = raised \union {<<"overdue", n>> : n \in Overdue}
  /\ task' = [task EXCEPT !["timeout"] = [Idle EXCEPT !.op = "due", !.at = 1, !.due = Overdue]]
  /\ UNCHANGED <<enabled, world, ckpt, disk, failures, first, faults>>

(* The bug of forgetting every pending nonce once some are overdue. *)
ForgetAlerted_All ==
  /\ "timeout" \in enabled /\ task["timeout"].op = "due"
  /\ ckpt' = [ckpt EXCEPT !.pending = << >>]
  /\ task' = [task EXCEPT !["timeout"] = Idle]
  /\ UNCHANGED <<enabled, world, disk, failures, raised, first, faults>>

ForgetAlerted ==
  /\ "timeout" \in enabled /\ task["timeout"].op = "due"
  /\ ckpt' = [ckpt EXCEPT !.pending = [n \in DOMAIN @ \ task["timeout"].due |-> @[n]]]
  /\ task' = [task EXCEPT !["timeout"] = Idle]
  /\ UNCHANGED <<enabled, world, disk, failures, raised, first, faults>>

----------------------------------------------------------------------------
(* VaultBalanceMonitor::poll_once: record the balance, compare with the one *)
(* recorded before.                                                         *)
DropTriggers(prev, current) ==
  /\ current < prev
  /\ \/ prev - current >= DropAbsolute
     \/ ((prev - current) * 10000) \div prev >= DropBasisPoints

vault_poll_once ==
  /\ "vault" \in enabled
  /\ ckpt' = [ckpt EXCEPT !.vault = {balance}]
  /\ raised' = IF \E prev \in ckpt.vault : DropTriggers(prev, balance)
               THEN raised \union {<<"drop", balance>>} ELSE raised
  /\ failures' = [failures EXCEPT !["vault"] = 0]
  /\ UNCHANGED <<enabled, world, disk, task, first, faults>>

(* An RPC call fails: the poll ends where it is, the failure is counted, and *)
(* at the limit the loss of connectivity is reported and the count restarts. *)
PollFails(l) ==
  /\ faults < MaxFaults
  /\ LET m == IF l = "timeout_liq" THEN "timeout" ELSE l
     IN /\ m \in enabled
        /\ task[m].op \in IF l \in {"vault", "timeout_liq"} THEN {"idle"} ELSE {"idle", "eth"}
        \* no call is left once the cursor is all there is to move
        /\ task[m].at < IF m = "withdrawal" THEN 3 ELSE IF m = "timeout" THEN 2 ELSE 6
        /\ task' = [task EXCEPT ![m] = Idle]
  /\ IF failures[l] + 1 >= MaxFailures
     THEN /\ failures' = [failures EXCEPT ![l] = 0]
          /\ raised' = raised \union {<<"lost", 0>>}
     ELSE /\ failures' = [failures EXCEPT ![l] = @ + 1]
          /\ UNCHANGED raised
  /\ faults' = faults + 1
  /\ UNCHANGED <<enabled, world, ckpt, disk, first>>

----------------------------------------------------------------------------
(* flush_loop and save: a copy of the checkpoint replaces the file. *)
flush_loop ==
  /\ disk' = {ckpt}
  /\ UNCHANGED <<enabled, world, ckpt, task, failures, raised, first, faults>>

(* load_or_default: the file's checkpoint, or a fresh one when there is no   *)
(* file or it cannot be read.                                               *)
load_or_default ==
  IF disk = {} THEN {DefaultCheckpoint}
  ELSE disk \union (IF faults + 1 < MaxFaults THEN {DefaultCheckpoint} ELSE {})

Restart ==
  /\ faults < MaxFaults
  /\ \E c \in load_or_default :
       /\ ckpt' = c
       /\ first' = IF c.ethereum_block = 0 THEN 0 ELSE first
       /\ faults' = IF disk # {} /\ c \notin disk THEN faults + 2 ELSE faults + 1
  /\ spawn_all(enabled)
  /\ UNCHANGED <<world, disk, raised>>

(* The chains and the clock.  An event no enabled monitor filters for is as *)
(* good as none.                                                            *)
Watched(m) ==
  CASE m = "withdrawal" -> {"lock", "emergency"}
    [] m = "timeout"    -> {"lock"}
    [] m = "owner"      -> {"emergency", "recovered", "fee_config", "fee_recipient", "fees"}
    [] m = "timelock"   -> {"started", "transferred", "emergency"}
    [] OTHER            -> {}

EthereumBlock ==
  /\ Len(eth) < MaxBlocks
  /\ "vault" \notin enabled
  /\ \E e \in {w \in Events : \E m \in enabled : w.kind \in Watched(m)}
            \union {[kind |-> "none", on |-> "none", flag |-> FALSE]} :
       eth' = Append(eth, [kind |-> e.kind, on |-> e.on, flag |-> e.flag, time |-> now])
  /\ UNCHANGED <<enabled, liq, balance, now, ckpt, disk, task, failures, raised, first, faults>>

LiquentBlock ==
  /\ Len(liq) < MaxMints
  /\ "timeout" \in enabled
  /\ \E n \in get_logs("lock", "sender", 1, get_safe_block_number) \ Minted(1, Len(liq)) :
       liq' = Append(liq, n)
  /\ UNCHANGED <<enabled, eth, balance, now, ckpt, disk, task, failures, raised, first, faults>>

BalanceMoves ==
  /\ "vault" \in enabled
  /\ balance' \in Balances
  /\ UNCHANGED <<enabled, eth, liq, now, ckpt, disk, task, failures, raised, first, faults>>

Tick ==
  /\ now < MaxClock
  /\ "timeout" \in enabled
  /\ now' = now + 1
  /\ UNCHANGED <<enabled, eth, liq, balance, ckpt, disk, task, failures, raised, first, faults>>

Next ==
  \/ \E m \in Loops : poll_once(m) \/ RunCheck(m) \/ MoveCursor(m) \/ PollFails(m)
  \/ poll_ethereum
  \/ poll_liquent
  \/ MoveLiquentCursor
  \/ check_timeouts
  \/ ForgetAlerted
  \/ vault_poll_once
  \/ flush_loop
  \/ Restart
  \/ EthereumBlock
  \/ LiquentBlock
  \/ BalanceMoves
  \/ Tick

Spec == Init /\ [][Next]_vars

----------------------------------------------------------------------------
(* Whether the event of block b has got what the monitor m owes it. *)
Served(m, b) ==
  CASE m = "withdrawal" ->
         /\ check_tokens_locked(b, b) \subseteq raised
         /\ check_emergency(b, b) \subseteq raised
    [] m = "timeout" ->
         eth[b].kind = "lock" =>
           b \in DOMAIN ckpt.pending \/ <<"overdue", b>> \in raised \/ b \in Minted(1, Len(liq))
    [] m = "timelock" ->
         \A c \in {"sender", "portal"} :
           /\ check_ownership_transfer_started(c, b, b) \subseteq raised
           /\ check_ownership_transferred(c, b, b) \subseteq raised
    [] OTHER -> TRUE

(* When one of the monitors that move the cursor runs alone, every event of *)
(* a block between the one it first recorded and the cursor has raised its  *)
(* alert, or is still pending, or was minted, whatever calls failed and     *)
(* wherever a restart fell between a scan, a flush and a cursor move.  A    *)
(* pending nonce is the nonce of a lock in a safe block.                    *)
NoEventSkipped ==
  /\ \A m \in {"withdrawal", "timeout"} \cap enabled :
       Cardinality({"withdrawal", "timeout"} \cap enabled) = 1 /\ first # 0 =>
         \A b \in (first..ckpt.ethereum_block) \cap DOMAIN eth : Served(m, b)
  /\ DOMAIN ckpt.pending \subseteq get_logs("lock", "sender", 1, get_safe_block_number)

(* Every ownership event of a block at or below the cursor has been reported *)
(* by the timelock monitor (timelock.rs: "Monitor OwnershipTransferred      *)
(* events on all watched contracts"), unless one of its polls is under way. *)
OwnershipReported ==
  "timelock" \in enabled /\ first # 0 /\ task["timelock"] = Idle /\ faults = 0 =>
    \A b \in (first..ckpt.ethereum_block) \cap DOMAIN eth : Served("timelock", b)

=============================================================================
