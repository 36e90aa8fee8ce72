------------------------- MODULE EpochManager_proofs -------------------------
(***************************************************************************)
(* EpochsKeptApart for any number of epochs, peers, messages and crashes.  *)
(* The channels captured with an event name the event's own epoch, so they *)
(* are closed or read by the managers of that epoch; and there is one      *)
(* notification of the end of an epoch, of the commit or of sync_to, which *)
(* names the next epoch.                                                   *)
(***************************************************************************)
EXTENDS EpochManager, SequenceTheorems, TLAPS

(* The provers for the steps that name none, in the order they are tried. *)
USE SMT, Zenon, SMTT(30), ZenonT(30)

Steps == {"round_manager", "end_epoch", "quorum_store", "sync_to", "await"}
Events == [peer : Peer \cup {"self"}, epoch : Nat,
           kind : DirectKinds \cup RpcKinds
                  \cup {"EpochChange", "UnverifiedSyncInfo", "LocalTimeout"}]
Checks == [peer : Peer, kind : DirectKinds, epoch : Nat, round_manager_tx : SUBSET Nat,
           buffered_proposal_tx : SUBSET Nat, quorum_store_msg_tx : SUBSET Nat]
Managers == [epoch : Nat, is_validator : BOOLEAN, round_manager_tx : SUBSET Nat,
             buffered_proposal_tx : SUBSET Nat, quorum_store_msg_tx : SUBSET Nat,
             rand_manager_msg_tx : SUBSET Nat, commit_tx : SUBSET Nat,
             pending_blocks : SUBSET Nat, timers : SUBSET Nat, inflight : BOOLEAN,
             answer : SUBSET [peer : Peer, epoch : Nat]]
RoundManagers == [epoch : SUBSET Nat, inbox : SUBSET Events, busy : BOOLEAN, waiting : BOOLEAN]
Pipes == [epoch : SUBSET Nat, qs : SUBSET Nat, sending : SUBSET Nat, logical : Nat,
          notify : Seq(Nat)]

(* The values of the fields of EpochManager and of what it starts. *)
EpochTypeOK ==
  /\ em \in Managers /\ rm \in RoundManagers /\ pipe \in Pipes
  /\ inbox \in [Services -> SUBSET Events]
  /\ tasks \in SUBSET Checks
  /\ todo \in Seq(Steps) /\ proofs \in Seq(Nat)
  /\ reconfig \in SUBSET Nat /\ committed \in Nat /\ faults \in Nat

(* What is left of initiate_new_epoch is a suffix of its steps. *)
TodoInv ==
  /\ Len(todo) <= 5
  /\ \A j \in 1 .. Len(todo) : todo[j] = Shutdown[5 - Len(todo) + j]

CheckOK(t) ==
  /\ t.round_manager_tx \subseteq {t.epoch} /\ t.buffered_proposal_tx \subseteq {t.epoch}
  /\ t.quorum_store_msg_tx \subseteq {t.epoch}

(* A channel, open or closed, belongs to the epoch of whoever holds it. *)
ChannelInv ==
  /\ em.round_manager_tx \subseteq {em.epoch} /\ em.buffered_proposal_tx \subseteq {em.epoch}
  /\ em.quorum_store_msg_tx \subseteq {em.epoch} /\ em.rand_manager_msg_tx \subseteq {em.epoch}
  /\ em.commit_tx \subseteq {em.epoch}
  /\ rm.epoch \subseteq {em.epoch} /\ pipe.epoch \subseteq {em.epoch} /\ pipe.qs \subseteq {em.epoch}
  /\ \A t \in tasks : CheckOK(t)

(* What waits in a channel is of the epoch of its reader. *)
InboxInv ==
  /\ \A ev \in rm.inbox : ev.kind = "LocalTimeout" \/ {ev.epoch} = rm.epoch
  /\ \A s \in Services : \A ev \in inbox[s] : {ev.epoch} = Reader(s)

(* The pipeline is gone before the manager waits for the next epoch. *)
PipeInv ==
  /\ pipe.sending # {} => pipe.sending = pipe.epoch
  /\ \A e \in pipe.sending : e <= committed
  /\ Len(todo) \in 1 .. 3 => pipe.epoch = {}
  /\ Len(todo) \in 1 .. 2 => pipe.qs = {}

(* One notification of the end of epoch e, after its boundary was committed: *)
(* c is the last boundary committed, n the number of steps left, q the       *)
(* proofs, l the logical time, w what waits for the notifier and r the       *)
(* reconfiguration channel.                                                  *)
ChangeOK(e, c, n, q, l, w, r) ==
  /\ e \in {c, c + 1} /\ e # 0
  /\ n # 0 => c = e
  /\ \A i \in 1 .. Len(q) : q[i] <= c
  /\ l <= e /\ (l = e => c = e)
  /\ Len(w) <= 1
  /\ Len(w) # 0 => l = e /\ w[1] = e + 1 /\ r = {}
  /\ r # {} => l = e /\ r = {e + 1}

ChangeInv ==
  ChangeOK(em.epoch, committed, Len(todo), proofs, pipe.logical, pipe.notify, reconfig)

IInv == EpochTypeOK /\ TodoInv /\ ChannelInv /\ InboxInv /\ PipeInv /\ ChangeInv


-----------------------------------------------------------------------------
(* What the steps within an epoch may do to the manager, the round manager *)
(* and the services.                                                       *)
SameManager(m) ==
  /\ m \in Managers /\ m.epoch = em.epoch /\ m.round_manager_tx = em.round_manager_tx
  /\ m.buffered_proposal_tx = em.buffered_proposal_tx
  /\ m.quorum_store_msg_tx = em.quorum_store_msg_tx
  /\ m.rand_manager_msg_tx = em.rand_manager_msg_tx /\ m.commit_tx = em.commit_tx
SameReader(r) ==
  /\ r \in RoundManagers /\ r.epoch = rm.epoch
  /\ \A x \in r.inbox : x.kind = "LocalTimeout" \/ {x.epoch} = rm.epoch
SameServices(i) ==
  /\ i \in [Services -> SUBSET Events]
  /\ \A s \in Services : \A x \in i[s] : {x.epoch} = Reader(s)

(* A push to the round manager: the event is of the epoch of the channel. *)
LEMMA RoundManagerPush ==
  ASSUME NEW chan, NEW ev \in Events, SameReader(rm),
         ev.kind = "LocalTimeout" \/ chan \subseteq {ev.epoch}
  PROVE  SameReader(ToRoundManager(rm, chan, ev))
<1> DEFINE kept == {x \in rm.inbox : <<x.peer, x.kind>> # <<ev.peer, ev.kind>>}
           new == [rm EXCEPT !.inbox = kept \union {ev}]
<1>1. CASE chan = {} \/ chan # rm.epoch
  BY <1>1 DEF ToRoundManager, SameReader
<1>2. CASE chan # {} /\ chan = rm.epoch
  <2>1. ToRoundManager(rm, chan, ev) = new
    BY <1>2 DEF ToRoundManager
  <2>2. kept \subseteq Events /\ kept \subseteq rm.inbox
    BY DEF RoundManagers, SameReader
  <2> HIDE DEF kept
  <2>3. new \in RoundManagers /\ new.epoch = rm.epoch /\ new.inbox = kept \union {ev}
    BY <2>2 DEF RoundManagers, SameReader
  <2>4. ev.kind = "LocalTimeout" \/ {ev.epoch} = rm.epoch
    BY <1>2
  <2> QED
    BY <2>1, <2>2, <2>3, <2>4 DEF SameReader
<1> QED
  BY <1>1, <1>2

(* A push to a service: as for the round manager. *)
LEMMA ServicePush ==
  ASSUME NEW s \in Services, NEW chan, NEW ev \in Events, SameServices(inbox),
         chan \subseteq {ev.epoch}
  PROVE  SameServices(ToService(inbox, s, chan, ev))
<1> DEFINE kept == {x \in inbox[s] : x.peer # ev.peer}
           new == [inbox EXCEPT ![s] = kept \union {ev}]
<1>1. CASE chan = {} \/ chan # Reader(s)
  BY <1>1 DEF ToService, SameServices
<1>2. CASE chan # {} /\ chan = Reader(s)
  <2>1. ToService(inbox, s, chan, ev) = new
    BY <1>2 DEF ToService
  <2>2. kept \subseteq Events /\ kept \subseteq inbox[s]
    BY DEF SameServices
  <2> HIDE DEF kept
  <2>3. new \in [Services -> SUBSET Events]
    BY <2>2 DEF SameServices
  <2>4. {ev.epoch} = Reader(s)
    BY <1>2
  <2>5. ASSUME NEW z \in Services, NEW x \in new[z] PROVE {x.epoch} = Reader(z)
    BY <2>2, <2>4 DEF SameServices
  <2> QED
    BY <2>1, <2>3, <2>5 DEF SameServices
<1> QED
  BY <1>1, <1>2

(* How many steps may be left. *)
LEMMA Positions == \A n \in Nat : n # 0 /\ n <= 5 => n \in 1 .. 5
  OBVIOUS

(* The step initiate_new_epoch is at tells how many are left. *)
LEMMA StepsLeft ==
  ASSUME todo \in Seq(Steps), TodoInv, todo # <<>>
  PROVE  /\ Tail(todo) \in Seq(Steps) /\ Len(Tail(todo)) = Len(todo) - 1
         /\ Len(todo) \in 1 .. 5
         /\ TodoInv /\ todo' = Tail(todo) => TodoInv'
         /\ At("round_manager") => Len(todo) = 5
         /\ At("end_epoch") => Len(todo) = 4
         /\ At("quorum_store") => Len(todo) = 3
         /\ At("sync_to") => Len(todo) = 2
         /\ At("await") => Len(todo) = 1
<1>1. /\ Len(todo) \in 1 .. 5 /\ Head(todo) = todo[1]
      /\ Tail(todo) \in Seq(Steps) /\ Len(Tail(todo)) = Len(todo) - 1
      /\ \A j \in 1 .. Len(todo) - 1 : Tail(todo)[j] = todo[j + 1]
  <2>1. Len(todo) \in Nat /\ Len(todo) # 0
    OBVIOUS
  <2>2. Len(todo) <= 5
    BY DEF TodoInv
  <2>3. Len(todo) \in 1 .. 5
    BY <2>1, <2>2, Positions
  <2> QED
    BY <2>3, HeadTailProperties
<1>2. todo[1] = Shutdown[6 - Len(todo)]
  BY <1>1 DEF TodoInv
<1>3. ASSUME todo' = Tail(todo) PROVE TodoInv'
  <2>1. Len(todo') = Len(todo) - 1
    BY <1>1, <1>3
  <2>2. ASSUME NEW j \in 1 .. Len(todo') PROVE todo'[j] = Shutdown[5 - Len(todo') + j]
    <3>1. todo'[j] = todo[j + 1] /\ j + 1 \in 1 .. Len(todo)
      BY <1>1, <1>3, <2>1
    <3>2. todo[j + 1] = Shutdown[5 - Len(todo) + (j + 1)]
      BY <3>1 DEF TodoInv
    <3> QED
      BY <1>1, <2>1, <3>1, <3>2
  <2> QED
    BY <1>1, <2>1, <2>2 DEF TodoInv
<1>4. /\ At("round_manager") => Len(todo) = 5
      /\ At("end_epoch") => Len(todo) = 4
      /\ At("quorum_store") => Len(todo) = 3
      /\ At("sync_to") => Len(todo) = 2
      /\ At("await") => Len(todo) = 1
  <2>1. /\ Shutdown[1] = "round_manager" /\ Shutdown[2] = "end_epoch"
        /\ Shutdown[3] = "quorum_store" /\ Shutdown[4] = "sync_to" /\ Shutdown[5] = "await"
    BY DEF Shutdown
  <2> QED
    BY <1>1, <1>2, <2>1 DEF At
<1> QED
  BY <1>1, <1>3, <1>4

-----------------------------------------------------------------------------
(* start_new_epoch, the pipeline and the quorum store of the epoch. *)
LEMMA StartedEpoch ==
  ASSUME NEW m \in Managers, NEW p \in Pipes, NEW e \in Nat
  PROVE  /\ start_new_epoch(m, e) \in Managers /\ NewRoundManager(e) \in RoundManagers
         /\ StartPipeline(StartQuorumStore(p, e), e) \in Pipes
         /\ StartPipeline(StartQuorumStore(p, e), e).epoch = {e}
         /\ StartPipeline(StartQuorumStore(p, e), e).qs = {e}
         /\ StartPipeline(StartQuorumStore(p, e), e).sending = p.sending
         /\ StartPipeline(StartQuorumStore(p, e), e).logical = p.logical
         /\ StartPipeline(StartQuorumStore(p, e), e).notify = p.notify
         /\ start_new_epoch(m, e).epoch = e
         /\ start_new_epoch(m, e).round_manager_tx = {e}
         /\ start_new_epoch(m, e).buffered_proposal_tx = {e}
         /\ start_new_epoch(m, e).quorum_store_msg_tx = {e}
         /\ start_new_epoch(m, e).rand_manager_msg_tx = {e}
         /\ start_new_epoch(m, e).commit_tx = {e}
<1> DEFINE armed == IF e \in ValidatorIn THEN m.timers \union {e} ELSE m.timers
           elected == e \in ValidatorIn
           new == [m EXCEPT !.epoch = e, !.is_validator = elected,
                     !.round_manager_tx = {e}, !.buffered_proposal_tx = {e},
                     !.quorum_store_msg_tx = {e}, !.rand_manager_msg_tx = {e},
                     !.commit_tx = {e}, !.timers = armed]
<1>1. armed \in SUBSET Nat /\ elected \in BOOLEAN
  BY DEF Managers
<1>2. start_new_epoch(m, e) = new
  BY DEF start_new_epoch
<1> HIDE DEF armed, elected
<1>3. new \in Managers
  BY <1>1 DEF Managers
<1>4. /\ new.epoch = e /\ new.round_manager_tx = {e} /\ new.buffered_proposal_tx = {e}
      /\ new.quorum_store_msg_tx = {e} /\ new.rand_manager_msg_tx = {e} /\ new.commit_tx = {e}
  BY DEF Managers
<1>5. NewRoundManager(e) \in RoundManagers
  BY DEF RoundManagers, NewRoundManager
<1>6. /\ StartPipeline(StartQuorumStore(p, e), e) \in Pipes
      /\ StartPipeline(StartQuorumStore(p, e), e).epoch = {e}
      /\ StartPipeline(StartQuorumStore(p, e), e).qs = {e}
      /\ StartPipeline(StartQuorumStore(p, e), e).sending = p.sending
      /\ StartPipeline(StartQuorumStore(p, e), e).logical = p.logical
      /\ StartPipeline(StartQuorumStore(p, e), e).notify = p.notify
  BY DEF Pipes, StartPipeline, StartQuorumStore
<1> HIDE DEF new
<1> QED
  BY <1>2, <1>3, <1>4, <1>5, <1>6

(* What a process starts from. *)
LEMMA FreshTypes == Fresh \in Managers /\ NewPipe \in Pipes
  BY DEF Fresh, Managers, NewPipe, Pipes

-----------------------------------------------------------------------------
(* What a step may do to the change of the epoch. *)
(* A process that starts has no proof and no notification. *)
LEMMA ChangeBegins ==
  ASSUME NEW e \in Nat \ {0}, NEW c \in Nat, e \in {c, c + 1}
  PROVE  ChangeOK(e, c, 0, <<>>, 0, <<>>, {})
  BY DEF ChangeOK

LEMMA ChangeSteps ==
  ASSUME NEW e \in Nat, NEW c \in Nat, NEW n \in Nat, NEW q \in Seq(Nat), NEW l \in Nat,
         NEW w \in Seq(Nat), NEW r \in SUBSET Nat, ChangeOK(e, c, n, q, l, w, r)
  PROVE  /\ l < e => ChangeOK(e, e, n, q, e, Append(w, e + 1), r)
         /\ \A p \in Nat : p <= c => ChangeOK(e, c, n, PushProof(q, p), l, w, r)
         /\ w # <<>> => ChangeOK(e, c, n, q, l, Tail(w), {Head(w)})
         /\ n = 0 /\ q # <<>> /\ Head(q) = e => ChangeOK(e, c, 5, Tail(q), l, w, r)
         /\ q # <<>> => ChangeOK(e, c, n, Tail(q), l, w, r)
         /\ n # 0 => \A k \in Nat : ChangeOK(e, c, k, q, l, w, r)
         /\ n # 0 /\ l < e => \A k \in Nat : ChangeOK(e, c, k, q, e, w, {e + 1})
<1>1. l < e => ChangeOK(e, e, n, q, e, Append(w, e + 1), r)
  BY DEF ChangeOK
<1>2. ASSUME NEW p \in Nat, p <= c PROVE ChangeOK(e, c, n, PushProof(q, p), l, w, r)
  BY <1>2 DEF ChangeOK, PushProof
<1>3. ASSUME w # <<>> PROVE ChangeOK(e, c, n, q, l, Tail(w), {Head(w)})
  <2>1. Len(w) \in Nat /\ Len(w) # 0 /\ Len(Tail(w)) = Len(w) - 1 /\ Head(w) = w[1]
    BY <1>3
  <2>2. Len(Tail(w)) = 0 /\ Head(w) = e + 1 /\ l = e
    BY <2>1 DEF ChangeOK
  <2> QED
    BY <2>2 DEF ChangeOK
<1>4. n = 0 /\ q # <<>> /\ Head(q) = e => ChangeOK(e, c, 5, Tail(q), l, w, r)
  BY DEF ChangeOK
<1>5. q # <<>> => ChangeOK(e, c, n, Tail(q), l, w, r)
  BY DEF ChangeOK
<1>6. n # 0 => \A k \in Nat : ChangeOK(e, c, k, q, l, w, r)
  BY DEF ChangeOK
<1>7. n # 0 /\ l < e => \A k \in Nat : ChangeOK(e, c, k, q, e, w, {e + 1})
  BY DEF ChangeOK
<1> QED
  BY <1>1, <1>2, <1>3, <1>4, <1>5, <1>6, <1>7

(* A node that starts in the epoch after the last boundary, or in that epoch again. *)
LEMMA BootInv ==
  ASSUME NEW e \in Nat \ {0}, Boot(e), committed' \in Nat, faults' \in Nat,
         e \in {committed', committed' + 1}
  PROVE  IInv'
<1>1. /\ em' \in Managers /\ rm' \in RoundManagers /\ pipe' \in Pipes
      /\ em'.epoch = e /\ em'.round_manager_tx = {e} /\ em'.buffered_proposal_tx = {e}
      /\ em'.quorum_store_msg_tx = {e} /\ em'.rand_manager_msg_tx = {e} /\ em'.commit_tx = {e}
  <2>1. Fresh \in Managers /\ NewPipe \in Pipes /\ e \in Nat
    BY FreshTypes
  <2>2. /\ em' = start_new_epoch(Fresh, e) /\ rm' = NewRoundManager(e)
        /\ pipe' = StartPipeline(StartQuorumStore(NewPipe, e), e)
    BY DEF Boot
  <2>3. /\ start_new_epoch(Fresh, e) \in Managers /\ NewRoundManager(e) \in RoundManagers
        /\ StartPipeline(StartQuorumStore(NewPipe, e), e) \in Pipes
    BY <2>1, StartedEpoch
  <2>4. /\ start_new_epoch(Fresh, e).epoch = e
        /\ start_new_epoch(Fresh, e).round_manager_tx = {e}
        /\ start_new_epoch(Fresh, e).buffered_proposal_tx = {e}
        /\ start_new_epoch(Fresh, e).quorum_store_msg_tx = {e}
        /\ start_new_epoch(Fresh, e).rand_manager_msg_tx = {e}
        /\ start_new_epoch(Fresh, e).commit_tx = {e}
    BY DEF start_new_epoch, Fresh
  <2> QED
    BY <2>2, <2>3, <2>4
<1>2. /\ rm'.epoch = {e} /\ rm'.inbox = {} /\ inbox' = NoInbox /\ tasks' = {}
      /\ todo' = <<>> /\ proofs' = <<>> /\ reconfig' = {}
  BY DEF Boot, NewRoundManager
<1>3. /\ pipe'.epoch = {e} /\ pipe'.qs = {e} /\ pipe'.sending = {} /\ pipe'.logical = 0
      /\ pipe'.notify = <<>>
  BY DEF Boot, NewPipe, StartPipeline, StartQuorumStore
<1>4. EpochTypeOK'
  BY <1>1, <1>2 DEF EpochTypeOK, NoInbox
<1>5. TodoInv' /\ PipeInv'
  BY <1>2, <1>3 DEF TodoInv, PipeInv
<1>6. ChannelInv'
  BY <1>1, <1>2, <1>3 DEF ChannelInv
<1>7. InboxInv'
  BY <1>2 DEF InboxInv, NoInbox
<1>8. ChangeInv'
  <2>1. ChangeOK(e, committed', 0, <<>>, 0, <<>>, {})
    BY ChangeBegins
  <2> QED
    BY <1>1, <1>2, <1>3, <2>1 DEF ChangeInv
<1> QED
  BY <1>4, <1>5, <1>6, <1>7, <1>8 DEF IInv

-----------------------------------------------------------------------------
(* The invariant while the epoch, its pipeline and its change stay. *)
LEMMA WithinEpoch ==
  ASSUME IInv, SameManager(em'), SameReader(rm'), SameServices(inbox'),
         tasks' \subseteq Checks, \A t \in tasks' : CheckOK(t), faults' \in Nat,
         UNCHANGED <<todo, proofs, pipe, reconfig, committed>>
  PROVE  IInv'
<1>1. EpochTypeOK'
  BY DEF IInv, EpochTypeOK, SameManager, SameReader, SameServices
<1>2. TodoInv' /\ PipeInv'
  BY DEF IInv, TodoInv, PipeInv
<1>3. ChannelInv'
  BY DEF IInv, ChannelInv, SameManager, SameReader
<1>4. InboxInv'
  BY DEF IInv, InboxInv, SameReader, SameServices, Reader
<1>5. ChangeInv'
  BY DEF IInv, ChangeInv, SameManager
<1> QED
  BY <1>1, <1>2, <1>3, <1>4, <1>5 DEF IInv

(* What the invariant says of the state before the step. *)
LEMMA Unmoved ==
  ASSUME IInv
  PROVE  /\ SameManager(em) /\ SameReader(rm) /\ SameServices(inbox)
         /\ tasks \subseteq Checks /\ \A t \in tasks : CheckOK(t)
         /\ faults \in Nat
  BY DEF IInv, EpochTypeOK, ChannelInv, InboxInv, SameManager, SameReader, SameServices

(* process_different_epoch and the answers of peers ask the round manager of *)
(* the epoch for its end.                                                    *)
LEMMA PushCurrent ==
  ASSUME IInv, NEW ev \in Events, ev.kind = "LocalTimeout" \/ ev.epoch = em.epoch
  PROVE  SameReader(ToRoundManager(rm, em.round_manager_tx, ev))
<1>1. ev.kind = "LocalTimeout" \/ em.round_manager_tx \subseteq {ev.epoch}
  BY DEF IInv, ChannelInv
<1> QED
  BY <1>1, Unmoved, RoundManagerPush

(* process_different_epoch leaves the round manager with events of its epoch. *)
LEMMA OtherEpoch ==
  ASSUME IInv, NEW p \in Peer, NEW e \in Nat, process_different_epoch(p, e)
  PROVE  SameReader(rm')
<1> DEFINE ev == [peer |-> p, kind |-> "EpochChange", epoch |-> em.epoch]
<1>1. em.epoch \in Nat
  BY DEF IInv, EpochTypeOK, Managers
<1>2. ev \in Events /\ ev.epoch = em.epoch
  BY <1>1 DEF Events
<1>3. rm' = rm \/ rm' = ToRoundManager(rm, em.round_manager_tx, ev)
  BY DEF process_different_epoch
<1> HIDE DEF ev
<1> QED
  BY <1>2, <1>3, PushCurrent, Unmoved

(* A message of the epoch captures the channels of the epoch. *)
LEMMA ReceiveMessageInv ==
  ASSUME IInv, NEW p \in Peer, NEW k \in DirectKinds, NEW e \in Epochs, ReceiveMessage(p, k, e)
  PROVE  IInv'
<1>1. e \in Nat
  BY EpochAssumption DEF Epochs
<1>2. UNCHANGED <<todo, proofs, pipe, reconfig, committed, faults>>
  BY DEF ReceiveMessage
<1>3. CASE e # em.epoch
  <2>1. process_different_epoch(p, e)
    BY <1>3 DEF ReceiveMessage
  <2>2. UNCHANGED <<em, inbox, tasks>>
    BY <2>1 DEF process_different_epoch
  <2> QED
    BY <1>1, <1>2, <2>1, <2>2, OtherEpoch, Unmoved, WithinEpoch
<1>4. CASE e = em.epoch
  <2> DEFINE t == [peer |-> p, kind |-> k, epoch |-> e,
                   round_manager_tx |-> em.round_manager_tx,
                   buffered_proposal_tx |-> em.buffered_proposal_tx,
                   quorum_store_msg_tx |-> em.quorum_store_msg_tx]
  <2>1. tasks' = tasks \union {t} /\ UNCHANGED <<em, rm, inbox>>
    BY <1>4 DEF ReceiveMessage
  <2>2. t \in Checks
    BY <1>1 DEF Checks, IInv, EpochTypeOK, Managers
  <2>3. CheckOK(t)
    BY <1>4 DEF CheckOK, IInv, ChannelInv
  <2> HIDE DEF t
  <2> QED
    BY <1>2, <2>1, <2>2, <2>3, Unmoved, WithinEpoch
<1> QED
  BY <1>3, <1>4

(* A request of the epoch goes to the managers of the epoch. *)
LEMMA ReceiveRpcInv ==
  ASSUME IInv, NEW p \in Peer, NEW k \in RpcKinds, NEW e \in Epochs, ReceiveRpc(p, k, e)
  PROVE  IInv'
<1>1. e \in Nat
  BY EpochAssumption DEF Epochs
<1>2. UNCHANGED <<todo, proofs, pipe, reconfig, committed, faults>>
  BY DEF ReceiveRpc
<1>3. CASE e # em.epoch
  <2>1. process_different_epoch(p, e)
    BY <1>3 DEF ReceiveRpc
  <2>2. UNCHANGED <<em, inbox, tasks>>
    BY <2>1 DEF process_different_epoch
  <2> QED
    BY <1>1, <1>2, <2>1, <2>2, OtherEpoch, Unmoved, WithinEpoch
<1>4. CASE e = em.epoch
  <2> DEFINE ev == [peer |-> p, kind |-> k, epoch |-> e]
             chan == IF k = "rand" THEN em.rand_manager_msg_tx ELSE em.commit_tx
  <2>1. inbox' = ToService(inbox, k, chan, ev) /\ UNCHANGED <<em, rm, tasks>>
    BY <1>4 DEF ReceiveRpc
  <2>2. ev \in Events /\ ev.epoch = e /\ k \in Services
    BY <1>1 DEF Events, RpcKinds, Services
  <2>3. chan \subseteq {ev.epoch}
    BY <1>4, <2>2 DEF IInv, ChannelInv
  <2> HIDE DEF ev, chan
  <2>4. SameServices(ToService(inbox, k, chan, ev))
    BY <2>2, <2>3, Unmoved, ServicePush
  <2> QED
    BY <1>2, <2>1, <2>4, Unmoved, WithinEpoch
<1> QED
  BY <1>3, <1>4
(* A check that ends uses the channels it captured, which nobody reads after the epoch. *)
LEMMA VerifiedInv ==
  ASSUME IInv, Verified
  PROVE  IInv'
<1>1. PICK t \in tasks : /\ forward_event(t) /\ tasks' = tasks \ {t}
                         /\ UNCHANGED <<todo, proofs, pipe, reconfig, committed, faults>>
  BY DEF Verified
<1> DEFINE ev == [peer |-> t.peer, kind |-> t.kind, epoch |-> t.epoch]
<1>2. t \in Checks /\ CheckOK(t) /\ tasks' \subseteq Checks /\ \A u \in tasks' : CheckOK(u)
  BY <1>1, Unmoved
<1>3. ev \in Events /\ ev.epoch = t.epoch /\ t.epoch \in Nat
  BY <1>2 DEF Checks, Events
<1>4. /\ t.round_manager_tx \subseteq {ev.epoch} /\ t.buffered_proposal_tx \subseteq {ev.epoch}
      /\ t.quorum_store_msg_tx \subseteq {ev.epoch}
  BY <1>2, <1>3 DEF CheckOK
<1>5. CASE t.kind \in QuorumStoreKinds
  <2>1. inbox' = ToService(inbox, "qs", t.quorum_store_msg_tx, ev)
    BY <1>1, <1>5 DEF forward_event, QuorumStoreKinds
  <2>2. UNCHANGED <<em, rm>>
    BY <1>1, <1>5 DEF forward_event, QuorumStoreKinds
  <2> HIDE DEF ev
  <2>3. "qs" \in Services
    BY DEF Services
  <2>4. SameServices(ToService(inbox, "qs", t.quorum_store_msg_tx, ev))
    BY <1>3, <1>4, <2>3, Unmoved, ServicePush
  <2> QED
    BY <1>1, <1>2, <2>1, <2>2, <2>4, Unmoved, WithinEpoch
<1>6. CASE t.kind \notin QuorumStoreKinds
  <2>1. PICK chan \in {t.round_manager_tx, t.buffered_proposal_tx} :
          /\ rm' = ToRoundManager(rm, chan, ev) /\ inbox' = inbox
          /\ em' = em \/ em' = [em EXCEPT !.pending_blocks = @ \union {t.epoch}]
    BY <1>1, <1>6 DEF forward_event
  <2>2. SameManager(em')
    BY <1>3, <2>1, Unmoved DEF SameManager, Managers
  <2> HIDE DEF ev
  <2>3. chan \subseteq {ev.epoch}
    BY <1>4, <2>1
  <2>4. SameReader(ToRoundManager(rm, chan, ev))
    BY <1>3, <2>3, Unmoved, RoundManagerPush
  <2> QED
    BY <1>1, <1>2, <2>1, <2>2, <2>4, Unmoved, WithinEpoch
<1> QED
  BY <1>5, <1>6

(* Timeouts only add events without an epoch. *)
LEMMA LocalTimeoutInv ==
  ASSUME IInv, process_local_timeout
  PROVE  IInv'
<1>1. PICK e \in em.timers :
        /\ em' = [em EXCEPT !.timers = @ \ {e}]
        /\ rm' = IF ~em.is_validator THEN rm
                 ELSE ToRoundManager(rm, em.round_manager_tx,
                        [peer |-> "self", kind |-> "LocalTimeout", epoch |-> e])
  BY DEF process_local_timeout
<1> DEFINE ev == [peer |-> "self", kind |-> "LocalTimeout", epoch |-> e]
<1>2. e \in Nat
  BY DEF IInv, EpochTypeOK, Managers
<1>3. SameManager(em')
  BY <1>1, Unmoved DEF SameManager, Managers
<1>4. ev \in Events /\ ev.kind = "LocalTimeout"
  BY <1>2 DEF Events
<1>5. rm' = rm \/ rm' = ToRoundManager(rm, em.round_manager_tx, ev)
  BY <1>1
<1>6. UNCHANGED <<todo, inbox, tasks, proofs, pipe, reconfig, committed, faults>>
  BY DEF process_local_timeout
<1> HIDE DEF ev
<1>7. SameReader(rm')
  BY <1>4, <1>5, PushCurrent, Unmoved
<1> QED
  BY <1>3, <1>6, <1>7, Unmoved, WithinEpoch

(* An answer to request_sync_info asks the round manager of the epoch. *)
LEMMA BlockSyncInv ==
  ASSUME IInv, advance_block_sync
  PROVE  IInv'
<1>1. PICK a \in em.answer :
        /\ em' = [em EXCEPT !.inflight = FALSE, !.answer = {}]
        /\ rm' = IF em.is_validator \/ a.epoch < em.epoch THEN rm
                 ELSE ToRoundManager(rm, em.round_manager_tx,
                        [peer |-> a.peer, epoch |-> em.epoch,
                         kind |-> IF a.epoch > em.epoch THEN "EpochChange"
                                  ELSE "UnverifiedSyncInfo"])
  BY DEF advance_block_sync
<1> DEFINE kind == IF a.epoch > em.epoch THEN "EpochChange" ELSE "UnverifiedSyncInfo"
           ev == [peer |-> a.peer, epoch |-> em.epoch, kind |-> kind]
<1>2. a.peer \in Peer /\ em.epoch \in Nat
  BY DEF IInv, EpochTypeOK, Managers
<1>3. SameManager(em')
  BY <1>1, Unmoved DEF SameManager, Managers
<1>4. kind \in {"EpochChange", "UnverifiedSyncInfo"}
  OBVIOUS
<1>5. rm' = rm \/ rm' = ToRoundManager(rm, em.round_manager_tx, ev)
  BY <1>1
<1> HIDE DEF kind
<1>6. ev \in Events /\ ev.epoch = em.epoch
  BY <1>2, <1>4 DEF Events
<1>7. UNCHANGED <<todo, inbox, tasks, proofs, pipe, reconfig, committed, faults>>
  BY DEF advance_block_sync
<1> HIDE DEF ev
<1>8. SameReader(rm')
  BY <1>5, <1>6, PushCurrent, Unmoved
<1> QED
  BY <1>3, <1>7, <1>8, Unmoved, WithinEpoch
(* A manager reads what waits. *)
LEMMA ServeInv ==
  ASSUME IInv, Serve
  PROVE  IInv'
<1>1. PICK s \in Services : \E ev \in inbox[s] : inbox' = [inbox EXCEPT ![s] = @ \ {ev}]
  BY DEF Serve
<1>2. PICK ev \in inbox[s] : inbox' = [inbox EXCEPT ![s] = @ \ {ev}]
  BY <1>1
<1>3. UNCHANGED <<em, todo, rm, tasks, proofs, pipe, reconfig, committed, faults>>
  BY DEF Serve
<1>4. SameServices(inbox')
  BY <1>2, Unmoved DEF SameServices
<1> QED
  BY <1>3, <1>4, Unmoved, WithinEpoch

(* The polling of a node outside the validator set. *)
LEMMA PollInv ==
  ASSUME IInv, request_sync_info \/ SyncInfoAnswer
  PROVE  IInv'
<1>1. UNCHANGED <<todo, rm, inbox, tasks, proofs, pipe, reconfig, committed, faults>>
  BY DEF request_sync_info, SyncInfoAnswer
<1>2. CASE request_sync_info
  <2>1. SameManager(em')
    BY <1>2, Unmoved DEF request_sync_info, SameManager, Managers
  <2> QED
    BY <1>1, <2>1, Unmoved, WithinEpoch
<1>3. CASE SyncInfoAnswer
  <2>1. PICK p \in Peer, e \in Epochs \union {0} :
          em' = [em EXCEPT !.answer = {[peer |-> p, epoch |-> e]}]
    BY <1>3 DEF SyncInfoAnswer
  <2>2. {[peer |-> p, epoch |-> e]} \in SUBSET [peer : Peer, epoch : Nat]
    BY EpochAssumption DEF Epochs
  <2>3. SameManager(em')
    BY <2>1, <2>2, Unmoved DEF SameManager, Managers
  <2> QED
    BY <1>1, <2>3, Unmoved, WithinEpoch
<1> QED
  BY <1>2, <1>3

(* The round manager takes an event, or a synchronization ends with nothing done. *)
LEMMA RoundManagerInv ==
  ASSUME IInv, RoundManagerTakes \/ SyncUseless
  PROVE  IInv'
<1>1. UNCHANGED <<em, todo, inbox, tasks, proofs, pipe, reconfig, committed>>
  BY DEF RoundManagerTakes, SyncUseless
<1>2. CASE RoundManagerTakes
  <2>1. PICK ev \in rm.inbox :
          rm' = [rm EXCEPT !.inbox = @ \ {ev},
                           !.busy = ev.kind = "EpochChange" /\ ~rm.waiting]
    BY <1>2 DEF RoundManagerTakes
  <2> DEFINE syncs == ev.kind = "EpochChange" /\ ~rm.waiting
  <2>2. syncs \in BOOLEAN
    OBVIOUS
  <2>3. rm' = [rm EXCEPT !.inbox = rm.inbox \ {ev}, !.busy = syncs]
    BY <2>1, Unmoved DEF SameReader, RoundManagers
  <2> HIDE DEF syncs
  <2>4. SameReader(rm')
    BY <2>2, <2>3, Unmoved DEF SameReader, RoundManagers
  <2>5. faults' = faults
    BY <1>2 DEF RoundManagerTakes
  <2> QED
    BY <1>1, <2>4, <2>5, Unmoved, WithinEpoch
<1>3. CASE SyncUseless
  <2>1. PICK ok \in BOOLEAN : rm' = [rm EXCEPT !.busy = FALSE, !.waiting = ok]
    BY <1>3 DEF SyncUseless
  <2>2. SameReader(rm')
    BY <2>1, Unmoved DEF SameReader, RoundManagers
  <2>3. faults' = faults + 1 /\ faults \in Nat
    BY <1>3 DEF SyncUseless, IInv, EpochTypeOK
  <2> QED
    BY <1>1, <2>2, <2>3, Unmoved, WithinEpoch
<1> QED
  BY <1>2, <1>3

-----------------------------------------------------------------------------
(* The steps of the pipeline and of the change of the epoch. *)
LEMMA Arguments ==
  ASSUME IInv
  PROVE  /\ em.epoch \in Nat /\ committed \in Nat /\ Len(todo) \in Nat /\ proofs \in Seq(Nat)
         /\ pipe.logical \in Nat /\ pipe.notify \in Seq(Nat) /\ reconfig \in SUBSET Nat
         /\ ChangeOK(em.epoch, committed, Len(todo), proofs, pipe.logical, pipe.notify, reconfig)
  BY DEF IInv, EpochTypeOK, Managers, Pipes, ChangeInv

(* The boundary is committed once, and its notification is the only one. *)
LEMMA PersistInv ==
  ASSUME IInv, PersistBoundary
  PROVE  IInv'
<1> DEFINE e == em.epoch
<1>1. UNCHANGED <<em, todo, rm, inbox, tasks, proofs, reconfig, faults>>
  BY DEF PersistBoundary
<1>2. pipe.epoch = {e} /\ pipe.logical < e /\ commit(e)
  BY DEF PersistBoundary, IInv, ChannelInv
<1>3. pipe \in Pipes /\ e \in Nat
  BY DEF IInv, EpochTypeOK, Managers
<1>4. /\ pipe' \in Pipes /\ committed' = e /\ pipe'.sending = {e} /\ pipe'.logical = e
      /\ pipe'.notify = Append(pipe.notify, e + 1)
      /\ pipe'.epoch = pipe.epoch /\ pipe'.qs = pipe.qs
  <2> DEFINE queue == Append(pipe.notify, e + 1)
  <2>1. queue \in Seq(Nat)
    BY <1>3 DEF Pipes
  <2>2. committed' = e /\ pipe' = [pipe EXCEPT !.sending = {e}, !.logical = e, !.notify = queue]
    BY <1>2 DEF commit
  <2> HIDE DEF queue, e
  <2>3. /\ pipe' \in Pipes /\ pipe'.sending = {e} /\ pipe'.logical = e /\ pipe'.notify = queue
        /\ pipe'.epoch = pipe.epoch /\ pipe'.qs = pipe.qs
    BY <1>3, <2>1, <2>2 DEF Pipes
  <2> QED
    BY <2>2, <2>3 DEF queue
<1>5. EpochTypeOK'
  BY <1>1, <1>3, <1>4 DEF IInv, EpochTypeOK
<1>6. TodoInv' /\ ChannelInv' /\ InboxInv'
  BY <1>1, <1>4 DEF IInv, TodoInv, ChannelInv, InboxInv, Reader
<1>7. PipeInv'
  <2>1. e <= e
    BY <1>3
  <2> HIDE DEF e
  <2> QED
    BY <1>1, <1>2, <1>4, <2>1 DEF IInv, PipeInv
<1>8. ChangeInv'
  <2>1. ChangeOK(e, e, Len(todo), proofs, e, Append(pipe.notify, e + 1), reconfig)
    BY <1>2, Arguments, ChangeSteps
  <2> QED
    BY <1>1, <1>4, <2>1 DEF ChangeInv
<1> QED
  BY <1>5, <1>6, <1>7, <1>8 DEF IInv

(* The proof of a committed boundary. *)
LEMMA SendInv ==
  ASSUME IInv, send_epoch_change
  PROVE  IInv'
<1>1. PICK e \in pipe.sending :
        proofs' = PushProof(proofs, e) /\ pipe' = [pipe EXCEPT !.sending = {}]
  BY DEF send_epoch_change
<1>2. UNCHANGED <<em, todo, rm, inbox, tasks, reconfig, committed, faults>>
  BY DEF send_epoch_change
<1>3. pipe \in Pipes /\ e \in Nat /\ e <= committed
  BY DEF IInv, EpochTypeOK, Pipes, PipeInv
<1>4. /\ pipe' \in Pipes /\ pipe'.sending = {} /\ pipe'.logical = pipe.logical
      /\ pipe'.notify = pipe.notify /\ pipe'.epoch = pipe.epoch /\ pipe'.qs = pipe.qs
  BY <1>1, <1>3 DEF Pipes
<1>5. proofs' \in Seq(Nat)
  BY <1>1, <1>3, Arguments DEF PushProof
<1>6. EpochTypeOK'
  BY <1>2, <1>4, <1>5 DEF IInv, EpochTypeOK
<1>7. TodoInv' /\ ChannelInv' /\ InboxInv' /\ PipeInv'
  BY <1>2, <1>4 DEF IInv, TodoInv, ChannelInv, InboxInv, Reader, PipeInv
<1>8. ChangeInv'
  <2>1. ChangeOK(em.epoch, committed, Len(todo), PushProof(proofs, e), pipe.logical,
                 pipe.notify, reconfig)
    BY <1>3, Arguments, ChangeSteps
  <2> QED
    BY <1>1, <1>2, <1>4, <2>1 DEF ChangeInv
<1> QED
  BY <1>6, <1>7, <1>8 DEF IInv

(* The notification moves on to the reconfiguration channel. *)
LEMMA NotifyInv ==
  ASSUME IInv, Notify
  PROVE  IInv'
<1>1. /\ pipe.notify # <<>> /\ reconfig' = {Head(pipe.notify)}
      /\ pipe' = [pipe EXCEPT !.notify = Tail(@)]
      /\ UNCHANGED <<em, todo, rm, inbox, tasks, proofs, committed, faults>>
  BY DEF Notify
<1>2. pipe \in Pipes
  BY DEF IInv, EpochTypeOK
<1>3. Head(pipe.notify) \in Nat /\ Tail(pipe.notify) \in Seq(Nat)
  BY <1>1, <1>2 DEF Pipes
<1>4. /\ pipe' \in Pipes /\ pipe'.sending = pipe.sending /\ pipe'.logical = pipe.logical
      /\ pipe'.notify = Tail(pipe.notify) /\ pipe'.epoch = pipe.epoch /\ pipe'.qs = pipe.qs
  BY <1>1, <1>2, <1>3 DEF Pipes
<1>5. EpochTypeOK'
  BY <1>1, <1>3, <1>4 DEF IInv, EpochTypeOK
<1>6. TodoInv' /\ ChannelInv' /\ InboxInv' /\ PipeInv'
  BY <1>1, <1>4 DEF IInv, TodoInv, ChannelInv, InboxInv, Reader, PipeInv
<1>7. ChangeInv'
  <2>1. ChangeOK(em.epoch, committed, Len(todo), proofs, pipe.logical,
                 Tail(pipe.notify), {Head(pipe.notify)})
    BY <1>1, Arguments, ChangeSteps
  <2> QED
    BY <1>1, <1>4, <2>1 DEF ChangeInv
<1> QED
  BY <1>5, <1>6, <1>7 DEF IInv
(* A synchronization ends with a proof of a committed boundary. *)
LEMMA SyncSucceedsInv ==
  ASSUME IInv, SyncSucceeds
  PROVE  IInv'
<1>1. PICK e \in rm.epoch : proofs' = PushProof(proofs, e)
  BY DEF SyncSucceeds
<1>2. e = em.epoch /\ e \in Nat /\ e <= committed
  <2>1. rm.epoch \subseteq {em.epoch} /\ em.epoch \in Nat /\ committed \in Nat
    BY DEF IInv, ChannelInv, EpochTypeOK, Managers
  <2>2. \E f \in rm.epoch : committed >= f
    BY DEF SyncSucceeds
  <2> QED
    BY <2>1, <2>2
<1>3. /\ rm' = [rm EXCEPT !.busy = FALSE, !.waiting = TRUE]
      /\ UNCHANGED <<em, todo, inbox, tasks, pipe, reconfig, committed, faults>>
  BY DEF SyncSucceeds
<1>4. SameReader(rm')
  BY <1>3, Unmoved DEF SameReader, RoundManagers
<1>5. proofs' \in Seq(Nat)
  <2>1. proofs \in Seq(Nat)
    BY Arguments
  <2>2. Append(proofs, e) \in Seq(Nat)
    BY <1>2, <2>1
  <2> QED
    BY <1>1, <2>1, <2>2 DEF PushProof
<1>6. EpochTypeOK'
  BY <1>3, <1>4, <1>5 DEF IInv, EpochTypeOK, SameReader
<1>7. TodoInv' /\ ChannelInv' /\ InboxInv' /\ PipeInv'
  BY <1>3, <1>4 DEF IInv, TodoInv, ChannelInv, InboxInv, Reader, PipeInv, SameReader
<1>8. ChangeInv'
  <2>1. ChangeOK(em.epoch, committed, Len(todo), PushProof(proofs, e), pipe.logical,
                 pipe.notify, reconfig)
    BY <1>2, Arguments, ChangeSteps
  <2> QED
    BY <1>1, <1>3, <2>1 DEF ChangeInv
<1> QED
  BY <1>6, <1>7, <1>8 DEF IInv

(* A proof of the epoch starts initiate_new_epoch when the boundary is committed. *)
LEMMA ReceiveProofInv ==
  ASSUME IInv, ReceiveProof
  PROVE  IInv'
<1>1. /\ todo = <<>> /\ proofs # <<>> /\ proofs' = Tail(proofs)
      /\ todo' = IF Head(proofs) = em.epoch THEN Shutdown ELSE <<>>
      /\ UNCHANGED <<em, rm, inbox, tasks, pipe, reconfig, committed, faults>>
  BY DEF ReceiveProof, Idle
<1>2. Shutdown \in Seq(Steps) /\ Len(Shutdown) = 5
  BY DEF Shutdown, Steps
<1>3. todo' \in Seq(Steps) /\ proofs' \in Seq(Nat)
  <2>1. todo' \in Seq(Steps)
    BY <1>1, <1>2
  <2>2. Tail(proofs) \in Seq(Nat)
    BY <1>1, Arguments
  <2> QED
    BY <1>1, <2>1, <2>2
<1>4. EpochTypeOK'
  BY <1>1, <1>3 DEF IInv, EpochTypeOK
<1>5. ChannelInv' /\ InboxInv'
  BY <1>1 DEF IInv, ChannelInv, InboxInv, Reader
<1>6. CASE Head(proofs) = em.epoch
  <2>1. todo' = Shutdown
    BY <1>1, <1>6
  <2>2. TodoInv'
    <3>1. Len(todo') = 5
      BY <1>2, <2>1
    <3>2. \A j \in 1 .. 5 : 5 - 5 + j = j
      OBVIOUS
    <3>3. 5 <= 5
      OBVIOUS
    <3> HIDE DEF Shutdown
    <3> QED
      BY <2>1, <3>1, <3>2, <3>3 DEF TodoInv
  <2>5. Len(todo') \notin 1 .. 3 /\ Len(todo') \notin 1 .. 2
    <3>1. Len(todo') = 5
      BY <1>2, <2>1
    <3> QED
      BY <3>1
  <2>6. PipeInv'
    BY <1>1, <2>5 DEF IInv, PipeInv
  <2>3. ChangeOK(em.epoch, committed, 5, Tail(proofs), pipe.logical, pipe.notify, reconfig)
    BY <1>1, <1>6, Arguments, ChangeSteps
  <2>4. ChangeInv'
    BY <1>1, <1>2, <2>1, <2>3 DEF ChangeInv
  <2> QED
    BY <1>4, <1>5, <2>2, <2>4, <2>6 DEF IInv
<1>7. CASE Head(proofs) # em.epoch
  <2>1. todo' = todo
    BY <1>1, <1>7
  <2>2. TodoInv' /\ PipeInv'
    BY <1>1, <2>1 DEF IInv, TodoInv, PipeInv
  <2>3. ChangeOK(em.epoch, committed, Len(todo), Tail(proofs), pipe.logical, pipe.notify, reconfig)
    BY <1>1, Arguments, ChangeSteps
  <2>4. ChangeInv'
    BY <1>1, <2>1, <2>3 DEF ChangeInv
  <2> QED
    BY <1>4, <1>5, <2>2, <2>4 DEF IInv
<1> QED
  BY <1>6, <1>7

(* A step of initiate_new_epoch is taken from those left. *)
LEMMA StepTaken ==
  ASSUME IInv, todo # <<>>, todo' = Tail(todo)
  PROVE  /\ TodoInv' /\ todo' \in Seq(Steps) /\ Len(todo') = Len(todo) - 1
         /\ Len(todo) \in 1 .. 5
<1>1. todo \in Seq(Steps) /\ TodoInv
  BY DEF IInv, EpochTypeOK
<1> QED
  BY <1>1, StepsLeft

(* The round manager stops. *)
LEMMA CloseInv ==
  ASSUME IInv, CloseRoundManager
  PROVE  IInv'
<1>1. /\ todo # <<>> /\ todo' = Tail(todo) /\ rm' = Closed
      /\ em' = [em EXCEPT !.round_manager_tx = {}, !.rand_manager_msg_tx = {}]
      /\ UNCHANGED <<inbox, tasks, proofs, pipe, reconfig, committed, faults>>
  BY DEF CloseRoundManager, At
<1>2. todo \in Seq(Steps) /\ TodoInv /\ em \in Managers
  BY DEF IInv, EpochTypeOK
<1>3. Len(todo) = 5
  BY <1>1, <1>2, StepsLeft DEF CloseRoundManager
<1>4. TodoInv' /\ todo' \in Seq(Steps) /\ Len(todo') = 4
  BY <1>1, <1>3, StepTaken
<1>5. /\ em' \in Managers /\ em'.epoch = em.epoch /\ em'.round_manager_tx = {}
      /\ em'.rand_manager_msg_tx = {} /\ em'.buffered_proposal_tx = em.buffered_proposal_tx
      /\ em'.quorum_store_msg_tx = em.quorum_store_msg_tx /\ em'.commit_tx = em.commit_tx
  BY <1>1, <1>2 DEF Managers
<1>6. rm' \in RoundManagers /\ rm'.epoch = {} /\ rm'.inbox = {}
  BY <1>1 DEF Closed, RoundManagers
<1>7. EpochTypeOK'
  BY <1>1, <1>4, <1>5, <1>6 DEF IInv, EpochTypeOK
<1>8. ChannelInv' /\ InboxInv'
  BY <1>1, <1>5, <1>6 DEF IInv, ChannelInv, InboxInv, Reader
<1>9. PipeInv'
  <2>1. Len(todo') \notin 1 .. 3 /\ Len(todo') \notin 1 .. 2
    BY <1>4
  <2> QED
    BY <1>1, <2>1 DEF IInv, PipeInv
<1>10. ChangeInv'
  <2>1. ChangeOK(em.epoch, committed, 4, proofs, pipe.logical, pipe.notify, reconfig)
    <3>1. Len(todo) # 0
      BY <1>3
    <3> QED
      BY <3>1, Arguments, ChangeSteps
  <2> QED
    BY <1>1, <1>3, <1>4, <1>5, <2>1 DEF ChangeInv
<1> QED
  BY <1>4, <1>7, <1>8, <1>9, <1>10 DEF IInv

(* The commit and rand managers stop, and nothing is left for them. *)
LEMMA EndEpochInv ==
  ASSUME IInv, EndEpoch
  PROVE  IInv'
<1>1. /\ todo # <<>> /\ todo' = Tail(todo) /\ pipe.sending = {}
      /\ pipe' = [pipe EXCEPT !.epoch = {}]
      /\ inbox' = [inbox EXCEPT !["commit"] = {}, !["rand"] = {}]
      /\ em' = [em EXCEPT !.commit_tx = {}]
      /\ UNCHANGED <<rm, tasks, proofs, reconfig, committed, faults>>
  BY DEF EndEpoch, end_epoch, At
<1>2. todo \in Seq(Steps) /\ TodoInv /\ em \in Managers /\ pipe \in Pipes
  BY DEF IInv, EpochTypeOK
<1>3. Len(todo) = 4
  BY <1>1, <1>2, StepsLeft DEF EndEpoch
<1>4. TodoInv' /\ todo' \in Seq(Steps) /\ Len(todo') = 3
  BY <1>1, <1>3, StepTaken
<1>5. /\ em' \in Managers /\ em'.epoch = em.epoch /\ em'.round_manager_tx = em.round_manager_tx
      /\ em'.rand_manager_msg_tx = em.rand_manager_msg_tx
      /\ em'.buffered_proposal_tx = em.buffered_proposal_tx
      /\ em'.quorum_store_msg_tx = em.quorum_store_msg_tx /\ em'.commit_tx = {}
  BY <1>1, <1>2 DEF Managers
<1>6. /\ pipe' \in Pipes /\ pipe'.epoch = {} /\ pipe'.qs = pipe.qs /\ pipe'.sending = {}
      /\ pipe'.logical = pipe.logical /\ pipe'.notify = pipe.notify
  BY <1>1, <1>2 DEF Pipes
<1>7. /\ inbox' \in [Services -> SUBSET Events] /\ inbox'["qs"] = inbox["qs"]
      /\ inbox'["commit"] = {} /\ inbox'["rand"] = {}
  BY <1>1 DEF IInv, EpochTypeOK, Services
<1>8. EpochTypeOK'
  BY <1>1, <1>4, <1>5, <1>6, <1>7 DEF IInv, EpochTypeOK
<1>9. ChannelInv'
  BY <1>1, <1>5, <1>6 DEF IInv, ChannelInv
<1>10. InboxInv'
  BY <1>1, <1>6, <1>7 DEF IInv, InboxInv, Reader, Services
<1>11. PipeInv'
  BY <1>4, <1>6 DEF PipeInv
<1>12. ChangeInv'
  <2>1. ChangeOK(em.epoch, committed, 3, proofs, pipe.logical, pipe.notify, reconfig)
    <3>1. Len(todo) # 0
      BY <1>3
    <3> QED
      BY <3>1, Arguments, ChangeSteps
  <2> QED
    BY <1>1, <1>3, <1>4, <1>5, <1>6, <2>1 DEF ChangeInv
<1> QED
  BY <1>4, <1>8, <1>9, <1>10, <1>11, <1>12 DEF IInv

(* The quorum store stops, and nothing is left for it. *)
LEMMA StopQuorumStoreInv ==
  ASSUME IInv, StopQuorumStore
  PROVE  IInv'
<1>1. /\ todo # <<>> /\ todo' = Tail(todo)
      /\ pipe' = [pipe EXCEPT !.qs = {}]
      /\ inbox' = [inbox EXCEPT !["qs"] = {}]
      /\ em' = [em EXCEPT !.pending_blocks = {}]
      /\ UNCHANGED <<rm, tasks, proofs, reconfig, committed, faults>>
  BY DEF StopQuorumStore, At
<1>2. todo \in Seq(Steps) /\ TodoInv /\ pipe \in Pipes
  BY DEF IInv, EpochTypeOK
<1>3. Len(todo) = 3
  BY <1>1, <1>2, StepsLeft DEF StopQuorumStore
<1>4. TodoInv' /\ todo' \in Seq(Steps) /\ Len(todo') = 2
  BY <1>1, <1>3, StepTaken
<1>5. SameManager(em')
  BY <1>1, Unmoved DEF SameManager, Managers
<1>6. /\ pipe' \in Pipes /\ pipe'.epoch = pipe.epoch /\ pipe'.qs = {}
      /\ pipe'.sending = pipe.sending /\ pipe'.logical = pipe.logical
      /\ pipe'.notify = pipe.notify
  BY <1>1, <1>2 DEF Pipes
<1>7. /\ inbox' \in [Services -> SUBSET Events] /\ inbox'["qs"] = {}
      /\ inbox'["commit"] = inbox["commit"] /\ inbox'["rand"] = inbox["rand"]
  BY <1>1 DEF IInv, EpochTypeOK, Services
<1>8. EpochTypeOK'
  BY <1>1, <1>4, <1>5, <1>6, <1>7 DEF IInv, EpochTypeOK, SameManager
<1>9. ChannelInv'
  BY <1>1, <1>5, <1>6 DEF IInv, ChannelInv, SameManager
<1>10. InboxInv'
  BY <1>1, <1>6, <1>7 DEF IInv, InboxInv, Reader, Services
<1>11. PipeInv'
  BY <1>1, <1>3, <1>4, <1>6 DEF IInv, PipeInv
<1>12. ChangeInv'
  <2>1. ChangeOK(em.epoch, committed, 2, proofs, pipe.logical, pipe.notify, reconfig)
    <3>1. Len(todo) # 0
      BY <1>3
    <3> QED
      BY <3>1, Arguments, ChangeSteps
  <2> QED
    BY <1>1, <1>3, <1>4, <1>5, <1>6, <2>1 DEF ChangeInv, SameManager
<1> QED
  BY <1>4, <1>8, <1>9, <1>10, <1>11, <1>12 DEF IInv
(* sync_to notifies exactly when the commit has not. *)
LEMMA SyncToInv ==
  ASSUME IInv, SyncTo
  PROVE  IInv'
<1>1. /\ todo # <<>> /\ todo' = Tail(todo) /\ sync_to(em.epoch)
      /\ UNCHANGED <<em, rm, inbox, tasks, proofs, committed, faults>>
  BY DEF SyncTo, At
<1>2. todo \in Seq(Steps) /\ TodoInv /\ pipe \in Pipes /\ em.epoch \in Nat
  BY DEF IInv, EpochTypeOK, Managers
<1>3. Len(todo) = 2
  BY <1>1, <1>2, StepsLeft DEF SyncTo
<1>4. TodoInv' /\ todo' \in Seq(Steps) /\ Len(todo') = 1
  BY <1>1, <1>3, StepTaken
<1>5. Len(todo) # 0 /\ Len(todo) \in 1 .. 3 /\ Len(todo) \in 1 .. 2
  BY <1>3
<1>6. /\ pipe' \in Pipes /\ pipe'.epoch = pipe.epoch /\ pipe'.qs = pipe.qs
      /\ pipe'.sending = pipe.sending /\ pipe'.notify = pipe.notify
      /\ reconfig' \in SUBSET Nat
  BY <1>1, <1>2, Arguments DEF sync_to, Pipes
<1>7. EpochTypeOK'
  BY <1>1, <1>4, <1>6 DEF IInv, EpochTypeOK
<1>8. ChannelInv' /\ InboxInv'
  BY <1>1, <1>6 DEF IInv, ChannelInv, InboxInv, Reader
<1>9. PipeInv'
  BY <1>1, <1>5, <1>6 DEF IInv, PipeInv
<1>10. ChangeInv'
  <2>1. CASE pipe.logical >= em.epoch
    <3>1. UNCHANGED <<reconfig, pipe>>
      BY <1>1, <2>1 DEF sync_to
    <3>2. ChangeOK(em.epoch, committed, 1, proofs, pipe.logical, pipe.notify, reconfig)
      BY <1>5, Arguments, ChangeSteps
    <3> QED
      BY <1>1, <1>4, <3>1, <3>2 DEF ChangeInv
  <2>2. CASE ~(pipe.logical >= em.epoch)
    <3>1. /\ reconfig' = {em.epoch + 1} /\ pipe'.logical = em.epoch
          /\ pipe'.notify = pipe.notify
      BY <1>1, <1>2, <2>2 DEF sync_to, Pipes
    <3>2. pipe.logical < em.epoch
      BY <2>2, Arguments
    <3>3. ChangeOK(em.epoch, committed, 1, proofs, em.epoch, pipe.notify, {em.epoch + 1})
      BY <1>5, <3>2, Arguments, ChangeSteps
    <3> QED
      BY <1>1, <1>4, <3>1, <3>3 DEF ChangeInv
  <2> QED
    BY <2>1, <2>2
<1> QED
  BY <1>4, <1>7, <1>8, <1>9, <1>10 DEF IInv

(* The next epoch starts with new channels and nothing in them. *)
LEMMA AwaitInv ==
  ASSUME IInv, AwaitReconfig
  PROVE  IInv'
<1>1. PICK e \in reconfig :
        /\ em' = start_new_epoch(em, e) /\ rm' = NewRoundManager(e)
        /\ pipe' = StartPipeline(StartQuorumStore(pipe, e), e)
  BY DEF AwaitReconfig
<1>2. /\ todo # <<>> /\ reconfig' = {} /\ todo' = <<>>
      /\ UNCHANGED <<inbox, tasks, proofs, committed, faults>>
  BY DEF AwaitReconfig, At
<1>3. todo \in Seq(Steps) /\ TodoInv /\ pipe \in Pipes /\ em \in Managers /\ e \in Nat
  BY DEF IInv, EpochTypeOK
<1>4. Len(todo) = 1
  BY <1>2, <1>3, StepsLeft DEF AwaitReconfig
<1>5. Len(todo) # 0 /\ Len(todo) \in 1 .. 3 /\ Len(todo) \in 1 .. 2
  BY <1>4
<1>6. pipe.epoch = {} /\ pipe.qs = {} /\ pipe.sending = {}
  BY <1>5 DEF IInv, PipeInv
<1>7. \A s \in Services : inbox[s] = {}
  BY <1>6 DEF IInv, InboxInv, Reader
<1>8. /\ em' \in Managers /\ em'.epoch = e
      /\ em'.round_manager_tx = {e} /\ em'.buffered_proposal_tx = {e}
      /\ em'.quorum_store_msg_tx = {e} /\ em'.rand_manager_msg_tx = {e} /\ em'.commit_tx = {e}
  BY <1>1, <1>3, StartedEpoch
<1>9. rm' \in RoundManagers /\ rm'.epoch = {e} /\ rm'.inbox = {}
  BY <1>1, <1>3, StartedEpoch DEF NewRoundManager
<1>10. /\ pipe' \in Pipes /\ pipe'.epoch = {e} /\ pipe'.qs = {e}
       /\ pipe'.sending = pipe.sending /\ pipe'.logical = pipe.logical
       /\ pipe'.notify = pipe.notify
  <2> DEFINE p == StartPipeline(StartQuorumStore(pipe, e), e)
  <2>1. /\ p \in Pipes /\ p.epoch = {e} /\ p.qs = {e} /\ p.sending = pipe.sending
        /\ p.logical = pipe.logical /\ p.notify = pipe.notify
    BY <1>3 DEF StartPipeline, StartQuorumStore, Pipes
  <2> HIDE DEF p
  <2>2. pipe' = p
    BY <1>1 DEF p
  <2> QED
    BY <2>1, <2>2
<1>11. todo' \in Seq(Steps) /\ Len(todo') = 0
  BY <1>2
<1>12. EpochTypeOK'
  BY <1>2, <1>8, <1>9, <1>10, <1>11 DEF IInv, EpochTypeOK
<1>13. TodoInv' /\ PipeInv'
  BY <1>6, <1>10, <1>11 DEF TodoInv, PipeInv
<1>14. ChannelInv'
  BY <1>2, <1>8, <1>9, <1>10 DEF IInv, ChannelInv
<1>15. InboxInv'
  BY <1>2, <1>7, <1>9 DEF InboxInv
<1>16. ChangeInv'
  <2>1. ChangeOK(e, committed, 0, proofs, pipe.logical, pipe.notify, {})
    <3>1. committed = em.epoch /\ e = em.epoch + 1 /\ pipe.logical = em.epoch /\ Len(pipe.notify) = 0
      BY <1>5, Arguments DEF ChangeOK
    <3>2. em.epoch \in Nat /\ \A i \in 1 .. Len(proofs) : proofs[i] <= committed
      BY Arguments DEF ChangeOK
    <3>3. /\ e \in {committed, committed + 1} /\ e # 0
          /\ pipe.logical <= e /\ pipe.logical # e
      BY <3>1, <3>2
    <3>4. Len(pipe.notify) <= 1 /\ ~(Len(pipe.notify) # 0)
      BY <3>1
    <3> QED
      BY <3>2, <3>3, <3>4 DEF ChangeOK
  <2> QED
    BY <1>2, <1>8, <1>10, <1>11, <2>1 DEF ChangeInv
<1> QED
  BY <1>12, <1>13, <1>14, <1>15, <1>16 DEF IInv

(* A restart begins with new channels. *)
LEMMA CrashInv ==
  ASSUME IInv, Crash
  PROVE  IInv'
<1>1. PICK e \in {committed, committed + 1} \ {0} : Boot(e)
  BY DEF Crash
<1>2. committed \in Nat /\ faults \in Nat
  BY DEF IInv, EpochTypeOK
<1>3. committed' = committed /\ faults' = faults + 1
  BY DEF Crash
<1>4. e \in Nat \ {0} /\ faults' \in Nat
  BY <1>2, <1>3
<1>5. committed' \in Nat /\ e \in {committed', committed' + 1}
  BY <1>2, <1>3
<1> QED
  BY <1>1, <1>4, <1>5, BootInv

-----------------------------------------------------------------------------
(* The first epoch. *)
LEMMA InitInv == Init => IInv
<1> SUFFICES ASSUME Init PROVE IInv
  OBVIOUS
<1>1. Fresh \in Managers /\ NewPipe \in Pipes /\ 1 \in Nat
  BY FreshTypes
<1>2. /\ em \in Managers /\ em.epoch = 1
      /\ em.round_manager_tx = {1} /\ em.buffered_proposal_tx = {1}
      /\ em.quorum_store_msg_tx = {1} /\ em.rand_manager_msg_tx = {1} /\ em.commit_tx = {1}
  BY <1>1, StartedEpoch DEF Init
<1>3. /\ rm \in RoundManagers /\ rm.epoch = {1} /\ rm.inbox = {} /\ inbox = NoInbox
      /\ tasks = {} /\ todo = <<>> /\ proofs = <<>> /\ reconfig = {}
      /\ committed = 0 /\ faults = 0
  BY <1>1, StartedEpoch DEF Init, NewRoundManager
<1>4. /\ pipe \in Pipes /\ pipe.epoch = {1} /\ pipe.qs = {1} /\ pipe.sending = {}
      /\ pipe.logical = 0 /\ pipe.notify = <<>>
  <2>1. pipe = StartPipeline(StartQuorumStore(NewPipe, 1), 1)
    BY DEF Init
  <2>2. NewPipe.sending = {} /\ NewPipe.logical = 0 /\ NewPipe.notify = <<>>
    BY DEF NewPipe
  <2> QED
    BY <1>1, <2>1, <2>2, StartedEpoch
<1>5. EpochTypeOK
  BY <1>2, <1>3, <1>4 DEF EpochTypeOK, NoInbox
<1>6. TodoInv /\ ChannelInv /\ PipeInv
  BY <1>2, <1>3, <1>4 DEF TodoInv, ChannelInv, PipeInv
<1>7. InboxInv
  BY <1>3 DEF InboxInv, NoInbox
<1>8. ChangeInv
  <2>1. 1 \in Nat \ {0} /\ 0 \in Nat /\ 1 \in {0, 0 + 1}
    OBVIOUS
  <2>2. ChangeOK(1, 0, 0, <<>>, 0, <<>>, {})
    BY <2>1, ChangeBegins
  <2> QED
    BY <1>2, <1>3, <1>4, <2>2 DEF ChangeInv
<1> QED
  BY <1>5, <1>6, <1>7, <1>8 DEF IInv

(* Every step keeps the invariant. *)
LEMMA NextInv == IInv /\ [Next]_vars => IInv'
<1> SUFFICES ASSUME IInv, [Next]_vars PROVE IInv'
  OBVIOUS
<1>1. CASE UNCHANGED vars
  BY <1>1, Unmoved, WithinEpoch DEF vars
<1>2. CASE \E p \in Peer, k \in DirectKinds, e \in Epochs : ReceiveMessage(p, k, e)
  BY <1>2, ReceiveMessageInv
<1>3. CASE \E p \in Peer, k \in RpcKinds, e \in Epochs : ReceiveRpc(p, k, e)
  BY <1>3, ReceiveRpcInv
<1>4. CASE request_sync_info \/ PersistBoundary \/ SyncUseless \/ Crash
  BY <1>4, PollInv, PersistInv, RoundManagerInv, CrashInv
<1>5. CASE Internal
  BY <1>5, VerifiedInv, ServeInv, LocalTimeoutInv, BlockSyncInv, PollInv, SendInv, NotifyInv,
     RoundManagerInv, SyncSucceedsInv, ReceiveProofInv, CloseInv, EndEpochInv,
     StopQuorumStoreInv, SyncToInv, AwaitInv DEF Internal
<1> QED
  BY <1>1, <1>2, <1>3, <1>4, <1>5 DEF Next

(* The invariant gives EpochsKeptApart. *)
LEMMA InvImplies == IInv => EpochsKeptApart
  BY DEF IInv, InboxInv, PipeInv, ChangeInv, ChangeOK, EpochsKeptApart

(* The managers of an epoch are handed what is of that epoch, the pipeline commits with    *)
(* the state of its epoch, and the node runs the epoch after the last boundary committed,  *)
(* or that epoch again, for any number of epochs, peers, messages in flight, failed        *)
(* synchronizations and crashes (epoch_manager.rs, state_computer.rs).                     *)
THEOREM EpochsApart == Spec => []EpochsKeptApart
  BY InitInv, NextInv, InvImplies, PTL DEF Spec
=============================================================================
