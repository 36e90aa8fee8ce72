------------------------------ MODULE Sentinel ------------------------------
(* The sentinel's log monitor, probes and explorer monitor, and the notifier *)
(* they share (bin/sentinel/src: main, watcher, whitelist, probe,           *)
(* explorer_monitor, notifier).                                             *)
(*                                                                          *)
(* A log line is the set of whitelist rules whose pattern matches it; only  *)
(* error lines reach the whitelist, so other lines are left out.  The clock *)
(* counts in a unit that divides both the window and the alert interval.    *)
EXTENDS Integers, Sequences, FiniteSets, SequencesExt

CONSTANTS
  Records,         \* the CSV files: sequences of [fields, pattern, threshold, priority]
  Files, Lines,    \* log files; each line is the set of rules that match it
  WINDOW, MinAlertInterval, DefaultPriority,
  FailureThreshold, ApiFailureThreshold, ExplorerPriority,
  Heights,         \* block heights the explorer may report
  Part,            \* the monitors that run
  MaxClock, MaxLines, MaxPolls   \* bounds

VARIABLES
  part,            \* the monitor under study; the notifier is always there
  now,
  rules,           \* the whitelist
  stamps,          \* timestamps of each rule for each file
  known,           \* files the watcher has seen
  seen,            \* history: the lines checked, with their outcome
  probe,           \* the probe's failures and the length of the outage
  explorer,        \* the explorer monitor, and its reports of this API outage
  polls,
  times,           \* last alert time of each priority
  log              \* history: the alerts asked of the notifier

vars == <<part, now, rules, stamps, known, seen, probe, explorer, polls, times, log>>

Priorities == {"P0", "P1", "P2"}

----------------------------------------------------------------------------
(* Notifier::alert: at most one message of a priority per interval.  The    *)
(* webhook's answer is not reported to the caller.                          *)
alert_Shared(what, p) ==
  LET muted == \E q \in Priorities, t \in 0..now : t \in times[q] /\ now - t < MinAlertInterval
  IN /\ times' = IF muted THEN times ELSE [times EXCEPT ![p] = {now}]
     /\ log' = Append(log, [what |-> what, priority |-> p, at |-> now, sent |-> ~muted])

alert(what, p) ==
  LET muted == \E t \in times[p] : now - t < MinAlertInterval
  IN /\ times' = IF muted THEN times ELSE [times EXCEPT ![p] = {now}]
     /\ log' = Append(log, [what |-> what, priority |-> p, at |-> now, sent |-> ~muted])

----------------------------------------------------------------------------
(* Whitelist::load: records without two fields, a pattern or a number are   *)
(* passed over; an unknown or missing priority is P0.                       *)
Loads(r) == r.fields >= 2 /\ r.pattern /\ r.threshold # {}

load(records) ==
  LET kept == SelectSeq(records, Loads)
  IN [i \in DOMAIN kept |->
        [threshold |-> CHOOSE n \in kept[i].threshold : TRUE,
         priority |-> IF kept[i].fields >= 3 /\ kept[i].priority \in {"P1", "P2"}
                      THEN kept[i].priority ELSE "P0"]]

(* `count > threshold as u32`: a negative threshold becomes at least 2^31,  *)
(* which no count reaches.                                                  *)
Exceeds(count, threshold) == threshold >= 0 /\ count > threshold

(* Whitelist::check: the first rule that matches decides. *)
FirstRule(line) == {i \in DOMAIN rules \cap line : \A j \in DOMAIN rules \cap line : i <= j}

Fresh_Inclusive(ts) == SelectSeq(ts, LAMBDA t : now - t < WINDOW)

Fresh(ts) == SelectSeq(ts, LAMBDA t : now - t <= WINDOW)

check(line, file) ==
  IF FirstRule(line) = {} THEN
    /\ seen' = Append(seen, [line |-> line, file |-> file, at |-> now, outcome |-> "always"])
    /\ alert(<<"log", 0>>, DefaultPriority)
    /\ UNCHANGED stamps
  ELSE \E i \in FirstRule(line) :
    IF rules[i].threshold = -1 THEN
      /\ seen' = Append(seen, [line |-> line, file |-> file, at |-> now, outcome |-> "skip"])
      /\ UNCHANGED <<stamps, times, log>>
    ELSE
      LET ts == Append(Fresh(stamps[i, file]), now)
          over == Exceeds(Len(ts), rules[i].threshold)
      IN /\ stamps' = [stamps EXCEPT ![i, file] = ts]
         /\ seen' = Append(seen, [line |-> line, file |-> file, at |-> now,
                                  outcome |-> IF over THEN "alert" ELSE "skip"])
         /\ IF over THEN alert(<<"log", 0>>, rules[i].priority) ELSE UNCHANGED <<times, log>>

(* spawn_log_monitor: the next error line of a watched file. *)
ReadLine ==
  /\ part = "logs" /\ Len(seen) < MaxLines
  /\ \E line \in Lines, file \in known : check(line, file)
  /\ UNCHANGED <<part, now, rules, known, probe, explorer, polls>>

(* Watcher::discover: recently modified files that are not known yet. *)
discover ==
  /\ part = "logs"
  /\ \E recent \in SUBSET (Files \ known) :
       recent # {} /\ known' = known \union recent
  /\ UNCHANGED <<part, now, rules, stamps, seen, probe, explorer, polls, times, log>>

----------------------------------------------------------------------------
(* Probe::run: one request per tick; any answer is a success. *)
Probe_run ==
  /\ part = "probe" /\ polls < MaxPolls
  /\ polls' = polls + 1
  /\ \E ok \in BOOLEAN :
       LET failures == IF ok THEN 0 ELSE probe.failures + 1
           report == failures >= FailureThreshold
       IN /\ probe' = [failures |-> IF report THEN 0 ELSE failures,
                       outage |-> IF ok THEN 0 ELSE probe.outage + 1,
                       reports |-> IF ok THEN 0 ELSE probe.reports + (IF report THEN 1 ELSE 0)]
          /\ IF report THEN alert(<<"probe", 0>>, "P0") ELSE UNCHANGED <<times, log>>
  /\ UNCHANGED <<part, now, rules, stamps, known, seen, explorer>>

(* ExplorerMonitor::run, the height fetched: it advanced, or it did not and *)
(* the stall is reported once.                                              *)
HeightFetched(h) ==
  LET e == [explorer EXCEPT !.api_alert_sent = FALSE, !.api_failures = 0, !.reports = 0]
  IN IF explorer.last_height = {} \/ \E prev \in explorer.last_height : h > prev
     THEN /\ explorer' = [e EXCEPT !.last_height = {h},
                                   !.alerted = IF explorer.last_height = {} THEN @ ELSE {}]
          /\ UNCHANGED <<times, log>>
     ELSE IF explorer.alerted = explorer.last_height
     THEN /\ explorer' = e
          /\ UNCHANGED <<times, log>>
     ELSE /\ explorer' = [e EXCEPT !.alerted = explorer.last_height]
          /\ \E h0 \in explorer.last_height : alert(<<"stall", h0>>, ExplorerPriority)

(* The fetch failed: one P0 alert per outage, at the threshold. *)
FetchFailed_Every ==
  LET n == explorer.api_failures + 1
  IN IF n >= ApiFailureThreshold
     THEN /\ explorer' = [explorer EXCEPT !.api_failures = n, !.api_alert_sent = TRUE,
                                           !.reports = @ + 1]
          /\ alert(<<"api", 0>>, "P0")
     ELSE /\ explorer' = [explorer EXCEPT !.api_failures = n]
          /\ UNCHANGED <<times, log>>

FetchFailed ==
  LET n == explorer.api_failures + 1
  IN IF ~explorer.api_alert_sent /\ n >= ApiFailureThreshold
     THEN /\ explorer' = [explorer EXCEPT !.api_failures = n, !.api_alert_sent = TRUE,
                                           !.reports = @ + 1]
          /\ alert(<<"api", 0>>, "P0")
     ELSE /\ explorer' = [explorer EXCEPT !.api_failures = n]
          /\ UNCHANGED <<times, log>>

Explorer_run ==
  /\ part = "explorer" /\ polls < MaxPolls
  /\ polls' = polls + 1
  /\ (\E h \in Heights : HeightFetched(h)) \/ FetchFailed
  /\ UNCHANGED <<part, now, rules, stamps, known, seen, probe>>

(* An alert of another monitor, which shares the notifier. *)
OtherAlert ==
  /\ part = "explorer" /\ polls < MaxPolls
  /\ polls' = polls + 1
  /\ \E p \in {"P0", "P1"} : alert(<<"other", 0>>, p)
  /\ UNCHANGED <<part, now, rules, stamps, known, seen, probe, explorer>>

Tick ==
  /\ now < MaxClock /\ now' = now + 1
  /\ UNCHANGED <<part, rules, stamps, known, seen, probe, explorer, polls, times, log>>

Init ==
  /\ part \in Part /\ now = 0
  /\ rules \in IF part = "logs" THEN {load(r) : r \in Records} ELSE {<< >>}
  /\ stamps = [x \in (DOMAIN rules) \X Files |-> << >>]
  /\ known \in IF part = "logs" THEN SUBSET Files ELSE {{}}
  /\ seen = << >>
  /\ probe = [failures |-> 0, outage |-> 0, reports |-> 0]
  /\ explorer = [last_height |-> {}, alerted |-> {}, api_failures |-> 0,
                 api_alert_sent |-> FALSE, reports |-> 0]
  /\ polls = 0
  /\ times = [p \in Priorities |-> {}]
  /\ log = << >>

Next == ReadLine \/ discover \/ Probe_run \/ Explorer_run \/ OtherAlert \/ Tick

Spec == Init /\ [][Next]_vars

----------------------------------------------------------------------------
(* The lines up to the k-th that the same rule counted for the same file    *)
(* within the window of the k-th.                                           *)
Counted(k) ==
  {j \in 1..k : /\ seen[j].file = seen[k].file
                /\ FirstRule(seen[j].line) = FirstRule(seen[k].line)
                /\ seen[k].at - seen[j].at <= WINDOW}

(* Each error line raises an alert exactly when no rule matches it, or the  *)
(* first rule that does has a threshold other than -1 and, with this line,  *)
(* has matched more than threshold lines of the file within the window.     *)
WhitelistExact ==
  \A k \in DOMAIN seen :
    seen[k].outcome =
      IF FirstRule(seen[k].line) = {} THEN "always"
      ELSE LET r == rules[CHOOSE i \in FirstRule(seen[k].line) : TRUE]
           IN IF r.threshold < 0 THEN "skip"
              ELSE IF Cardinality(Counted(k)) > r.threshold THEN "alert" ELSE "skip"

(* An outage of n failed probes is reported n / FailureThreshold times, and *)
(* an API outage of the explorer once; a stalled height is reported once    *)
(* until the height advances.                                               *)
ReportedOnce ==
  /\ probe.reports = probe.outage \div FailureThreshold
  /\ probe.failures = probe.outage % FailureThreshold
  /\ explorer.api_alert_sent <=> explorer.api_failures >= ApiFailureThreshold
  /\ \A h \in Heights : Cardinality({i \in DOMAIN log : log[i].what = <<"stall", h>>}) <= 1
  /\ explorer.reports = IF explorer.api_alert_sent THEN 1 ELSE 0

(* The notifier drops an alert only for one of its own priority that was    *)
(* sent less than the interval before, and two it sends are that far apart. *)
RateLimited ==
  \A i \in DOMAIN log :
    log[i].sent <=>
      ~ \E j \in 1..(i - 1) : /\ log[j].sent /\ log[j].priority = log[i].priority
                              /\ log[i].at - log[j].at < MinAlertInterval

(* What the sentinel's monitors and notifier promise together. *)
SentinelSound == WhitelistExact /\ ReportedOnce /\ RateLimited

(* A stalled height is taken as reported only once its alert was sent       *)
(* (explorer_monitor.rs: "Height for which a stall alert has already been   *)
(* sent").                                                                  *)
StallSent ==
  \A h \in explorer.alerted : \E i \in DOMAIN log : log[i].what = <<"stall", h>> /\ log[i].sent

=============================================================================
