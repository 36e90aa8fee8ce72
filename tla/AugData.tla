------------------------------ MODULE AugData ------------------------------
(***************************************************************************)
(* The augmented data that randomness rests on.  At the start of an epoch  *)
(* a validator recovers its augmented key pair from its database or makes  *)
(* a new one, broadcasts its augmented data, collects a quorum of          *)
(* signatures on it and broadcasts the certified data.  A validator signs  *)
(* what it stored first.  Nodes crash and restart at any point.            *)
(*                                                                         *)
(* Data is identified with the key it derives from.  A faulty author sends *)
(* any data to anybody; its messages pass the checks of RandMessage.       *)
(***************************************************************************)
EXTENDS Integers, FiniteSets

CONSTANTS
  Validator, Faulty,   \* all, and the faulty ones
  Broadcaster,         \* the authors whose data is followed
  MaxKeys,             \* bound: key pairs a node generates
  QuorumPower,         \* quorum_voting_power, every validator with one vote
  MaxEpoch, MaxCrashes

ASSUME AugAssumption ==
  /\ IsFiniteSet(Validator) /\ Faulty \subseteq Validator /\ Broadcaster \subseteq Validator
  /\ MaxKeys \in Nat /\ MaxEpoch \in Nat /\ MaxCrashes \in Nat
  /\ QuorumPower \in Nat
  /\ 2 * QuorumPower > Cardinality(Validator) + Cardinality(Faulty)

VARIABLES
  db,       \* Validator -> [key, aug, certified]: the rand database
  mem,      \* Validator -> [up, epoch, key, aug, certified]: what the process holds
  sigs,     \* Broadcaster -> signatures its builder has, with the data signed
  sent,     \* certified data that was put together
  made,     \* Validator -> number of key pairs it generated
  crashes
vars == <<db, mem, sigs, sent, made, crashes>>

Key == 1 .. MaxKeys
Honest == Validator \ Faulty
Datum == [epoch : 1 .. MaxEpoch, author : Broadcaster, data : Key]
Of(S, author) == {d \in S : d.author = author}
Down == [up |-> FALSE, epoch |-> 0, key |-> 0, aug |-> {}, certified |-> {}]

-----------------------------------------------------------------------------
\* filter_by_epoch
filter_by_epoch(S, epoch) == {d \in S : d.epoch = epoch}

RecoveredKeys_None(n, epoch) == {}

\* get_key_pair_bytes: the stored key pair, if it is of this epoch.
RecoveredKeys(n, epoch) == {k.key : k \in {x \in db[n].key : x.epoch = epoch}}

\* try_get_rand_config_for_new_epoch and AugDataStore::new: a new key pair is
\* stored before it is used, and the data of other epochs is removed.
\* broadcast_aug_data then adds the node's own data, of an earlier run or of the
\* key, before it sends it.
StartEpoch(n, epoch) ==
  LET old == RecoveredKeys(n, epoch)
      key == IF old = {} THEN made[n] + 1 ELSE CHOOSE k \in old : TRUE
      aug == filter_by_epoch(db[n].aug, epoch)
      mine == IF n \notin Broadcaster \/ Of(aug, n) # {} THEN {}
              ELSE {[epoch |-> epoch, author |-> n, data |-> key]}
      certified == filter_by_epoch(db[n].certified, epoch)
  IN /\ key \in Key
     /\ made' = [made EXCEPT ![n] = IF key > @ THEN key ELSE @]
     /\ db' = [db EXCEPT ![n] = [key |-> {[epoch |-> epoch, key |-> key]},
                                 aug |-> aug \union mine, certified |-> certified]]
     /\ mem' = [mem EXCEPT ![n] = [up |-> TRUE, epoch |-> epoch, key |-> key,
                                   aug |-> aug \union mine, certified |-> certified]]
     /\ sigs' = IF n \in Broadcaster THEN [sigs EXCEPT ![n] = {}] ELSE sigs
     /\ UNCHANGED <<sent, crashes>>

\* The node starts, in the epoch it was in or the next.
Start ==
  \E n \in Honest, epoch \in 1 .. MaxEpoch :
    /\ IF mem[n].up THEN epoch = mem[n].epoch + 1
       ELSE \A k \in db[n].key : epoch \in {k.epoch, k.epoch + 1}
    /\ StartEpoch(n, epoch)

Crash ==
  /\ crashes < MaxCrashes
  /\ \E n \in Honest :
       /\ mem[n].up
       /\ mem' = [mem EXCEPT ![n] = Down]
       /\ sigs' = IF n \in Broadcaster THEN [sigs EXCEPT ![n] = {}] ELSE sigs
  /\ crashes' = crashes + 1
  /\ UNCHANGED <<db, sent, made>>

-----------------------------------------------------------------------------
\* What an author sends: its own data, or anything if it is faulty.
Sends(d) ==
  IF d.author \in Faulty THEN TRUE
  ELSE mem[d.author].up /\ d \in mem[d.author].aug

add_aug_data_Unsaved(n, d) ==
  /\ \A x \in Of(mem[n].aug, d.author) : x = d
  /\ mem' = [mem EXCEPT ![n].aug = @ \union {d}]
  /\ UNCHANGED db

\* AugDataStore::add_aug_data: data that differs from what the node has is
\* refused, new data is stored, then signed.
add_aug_data(n, d) ==
  /\ \A x \in Of(mem[n].aug, d.author) : x = d
  /\ db' = [db EXCEPT ![n].aug = @ \union {d}]
  /\ mem' = [mem EXCEPT ![n].aug = @ \union {d}]

\* A node gets AugData and its signature gets back to the author, or is lost.
ReceiveAugData ==
  /\ \E n \in Honest, d \in Datum, lost \in BOOLEAN :
       /\ mem[n].up /\ d.epoch = mem[n].epoch /\ Sends(d)
       /\ add_aug_data(n, d)
       /\ sigs' = IF lost THEN sigs
                  ELSE [sigs EXCEPT ![d.author] = @ \union {[by |-> n, on |-> d]}]
       /\ <<sigs', mem'>> # <<sigs, mem>>
  /\ UNCHANGED <<sent, made, crashes>>

\* check_voting_power: faulty nodes sign anything.
Enough(a, d) ==
  Cardinality({s.by : s \in {x \in sigs[a] : x.on = d}}) + Cardinality(Faulty) >= QuorumPower

\* AugDataCertBuilder::add: a quorum of signatures.
Certify ==
  /\ \E a \in Broadcaster : \E d \in {s.on : s \in sigs[a]} :
       /\ d \notin sent
       /\ Enough(a, d)
       /\ sent' = sent \union {d}
  /\ UNCHANGED <<db, mem, sigs, made, crashes>>

\* AugDataStore::add_certified_aug_data: the first certified data of an author is
\* stored and augments the public keys.
ReceiveCertifiedAugData ==
  /\ \E n \in Honest, d \in sent :
       /\ mem[n].up /\ d.epoch = mem[n].epoch
       /\ Of(mem[n].certified, d.author) = {}
       /\ db' = [db EXCEPT ![n].certified = @ \union {d}]
       /\ mem' = [mem EXCEPT ![n].certified = @ \union {d}]
  /\ UNCHANGED <<sigs, sent, made, crashes>>

-----------------------------------------------------------------------------
Init ==
  /\ db = [n \in Honest |-> [key |-> {}, aug |-> {}, certified |-> {}]]
  /\ mem = [n \in Honest |-> Down]
  /\ sigs = [a \in Broadcaster |-> {}]
  /\ sent = {} /\ made = [n \in Honest |-> 0] /\ crashes = 0

Next == Start \/ Crash \/ ReceiveAugData \/ Certify \/ ReceiveCertifiedAugData

Spec == Init /\ [][Next]_vars

-----------------------------------------------------------------------------
(* Properties *)

\* In an epoch all validators that have certified data of an author have the
\* same, whatever crashes and whatever the author sends; and the shares of an
\* honest author, which it makes with the key it holds, verify against it.  So
\* any two validators derive the same randomness.
SharesVerify ==
  /\ \A m, n \in Honest : \A d \in mem[m].certified, e \in mem[n].certified :
       d.author = e.author /\ d.epoch = e.epoch => d = e
  /\ \A m \in Honest, a \in Broadcaster \ Faulty : \A d \in Of(mem[m].certified, a) :
       mem[a].up /\ mem[a].epoch = d.epoch => mem[a].key = d.data

=============================================================================
