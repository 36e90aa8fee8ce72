--------------------------- MODULE AugData_proofs ---------------------------
(***************************************************************************)
(* SharesVerify for any number of validators, keys, epochs and crashes.    *)
(* What an honest author broadcasts in an epoch is settled by its database *)
(* before anybody sees it.  A faulty author may send anything, but each    *)
(* honest validator stores and signs one of it per epoch, and two quorums  *)
(* share an honest validator.                                              *)
(***************************************************************************)
EXTENDS AugData, FiniteSetTheorems, TLAPS

(* The provers for the steps that name none, in the order they are tried. *)
USE SMT, Zenon, SMTT(30), ZenonT(30)

KeyPairs == [epoch : 1 .. MaxEpoch, key : Key]
Rows == [key : SUBSET KeyPairs, aug : SUBSET Datum, certified : SUBSET Datum]
Processes == [up : BOOLEAN, epoch : 0 .. MaxEpoch, key : 0 .. MaxKeys,
              aug : SUBSET Datum, certified : SUBSET Datum]

(* The values of the fields of RandDb, AugDataStore and AugDataCertBuilder. *)
AugTypeOK ==
  /\ db \in [Honest -> Rows]
  /\ mem \in [Honest -> Processes]
  /\ sigs \in [Broadcaster -> SUBSET [by : Honest, on : Datum]]
  /\ sent \in SUBSET Datum
  /\ made \in [Honest -> 0 .. MaxKeys]
  /\ crashes \in Nat

(* Data that a validator has stored, signed or certified. *)
Seen(d) ==
  \/ \E n \in Honest : d \in db[n].aug
  \/ \E a \in Broadcaster : \E s \in sigs[a] : s.on = d
  \/ d \in sent

(* d is not newer than the epoch of n, and stored by n if it is of that epoch. *)
Settled(n, d) ==
  \E k \in db[n].key : d.epoch <= k.epoch /\ (d.epoch = k.epoch => d \in db[n].aug)

(* A row of the database: one key pair, data of its epoch, one datum per author, *)
(* and the node's own datum made of its key.                                     *)
RowInv(n) ==
  /\ \A j, k \in db[n].key : j = k
  /\ \A d \in db[n].aug \cup db[n].certified : \E k \in db[n].key : d.epoch = k.epoch
  /\ \A d, e \in db[n].aug : d.author = e.author => d = e
  /\ n \in Broadcaster => \A k \in db[n].key : \E d \in db[n].aug : d.author = n /\ d.data = k.key
  /\ db[n].certified \subseteq sent

(* What the process holds is what its database has. *)
MemInv(n) ==
  /\ mem[n].up => /\ db[n].key = {[epoch |-> mem[n].epoch, key |-> mem[n].key]}
                  /\ mem[n].aug = db[n].aug /\ mem[n].certified = db[n].certified
  /\ ~mem[n].up => mem[n].certified = {}

(* An honest author has one datum per epoch. *)
HonestInv ==
  /\ \A d \in Datum : Seen(d) /\ d.author \in Honest => Settled(d.author, d)
  /\ \A d, e \in Datum :
       Seen(d) /\ Seen(e) /\ d.author \in Honest /\ d.author = e.author /\ d.epoch = e.epoch => d = e

(* Whatever an author sends, an honest validator signs one datum of it per epoch, and *)
(* certified data has the signatures.                                                 *)
SignedInv ==
  /\ \A a \in Broadcaster : \A s \in sigs[a] : s.on.author = a /\ Settled(s.by, s.on)
  /\ \A a \in Broadcaster : \A s, t \in sigs[a] :
       s.by = t.by /\ s.on.epoch = t.on.epoch => s.on = t.on
  /\ \A d \in sent : d.author \in Faulty => Enough(d.author, d)

IInv ==
  /\ AugTypeOK
  /\ \A n \in Honest : RowInv(n) /\ MemInv(n)
  /\ HonestInv
  /\ SignedInv

-----------------------------------------------------------------------------
(* Signers of a datum, and why two quorums of them meet in an honest validator. *)
Signers(a, d) == {s.by : s \in {x \in sigs[a] : x.on = d}}

(* The honest validators are finitely many. *)
LEMMA HonestFinite == IsFiniteSet(Honest) /\ Cardinality(Honest) \in Nat /\ Cardinality(Faulty) \in Nat
                      /\ Cardinality(Honest) = Cardinality(Validator) - Cardinality(Faulty)
<1>1. IsFiniteSet(Validator) /\ IsFiniteSet(Faulty) /\ IsFiniteSet(Honest)
  BY AugAssumption, FS_Subset DEF Honest
<1>2. Cardinality(Validator) \in Nat /\ Cardinality(Faulty) \in Nat /\ Cardinality(Honest) \in Nat
  BY <1>1, FS_CardinalityType
<1>3. Validator = Honest \cup Faulty /\ Honest \cap Faulty = {}
  BY AugAssumption DEF Honest
<1>4. Cardinality(Validator) = Cardinality(Honest) + Cardinality(Faulty) - Cardinality(Honest \cap Faulty)
  BY <1>1, <1>3, FS_Union
<1>5. Cardinality(Honest \cap Faulty) = 0
  BY <1>3, FS_EmptySet
<1> QED
  BY <1>1, <1>2, <1>4, <1>5

(* Two quorums of signers share an honest validator. *)
LEMMA QuorumsMeet ==
  ASSUME NEW A, NEW B, A \subseteq Honest, B \subseteq Honest,
         Cardinality(A) + Cardinality(Faulty) >= QuorumPower,
         Cardinality(B) + Cardinality(Faulty) >= QuorumPower
  PROVE  A \cap B # {}
<1>1. IsFiniteSet(A) /\ IsFiniteSet(B)
  BY HonestFinite, FS_Subset
<1>2. Cardinality(A) \in Nat /\ Cardinality(B) \in Nat /\ Cardinality(Validator) \in Nat
  BY <1>1, AugAssumption, FS_CardinalityType
<1>3. Cardinality(A) + Cardinality(B) > Cardinality(Honest)
  BY <1>2, HonestFinite, AugAssumption
<1> QED
  BY <1>3, HonestFinite, FS_MajoritiesIntersect

(* The signatures recorded are those of honest validators. *)
LEMMA SignersHonest == ASSUME AugTypeOK, NEW a \in Broadcaster, NEW d PROVE Signers(a, d) \subseteq Honest
  BY DEF AugTypeOK, Signers

(* Certified data of one author and epoch is one datum. *)
LEMMA OneCertified ==
  ASSUME IInv, NEW d \in sent, NEW e \in sent, d.author = e.author, d.epoch = e.epoch
  PROVE  d = e
<1>1. d \in Datum /\ e \in Datum /\ Seen(d) /\ Seen(e)
  BY DEF IInv, AugTypeOK, Seen
<1>2. d.author \in Broadcaster
  BY <1>1 DEF Datum
<1>3. CASE d.author \in Honest
  BY <1>1, <1>3 DEF IInv, HonestInv
<1>4. CASE d.author \notin Honest
  <2>1. d.author \in Faulty
    BY <1>2, <1>4, AugAssumption DEF Honest
  <2>2. Enough(d.author, d) /\ Enough(d.author, e)
    BY <2>1 DEF IInv, SignedInv
  <2>3. Signers(d.author, d) \cap Signers(d.author, e) # {}
    BY <1>2, <2>2, QuorumsMeet, SignersHonest DEF Enough, Signers, IInv
  <2>4. PICK s \in sigs[d.author], t \in sigs[d.author] : s.by = t.by /\ s.on = d /\ t.on = e
    BY <2>3 DEF Signers
  <2> QED
    BY <1>2, <2>4 DEF IInv, SignedInv
<1> QED
  BY <1>3, <1>4

(* The invariant gives SharesVerify. *)
LEMMA InvImplies == IInv => SharesVerify
<1> SUFFICES ASSUME IInv PROVE SharesVerify
  OBVIOUS
<1>1. \A m \in Honest : mem[m].certified \subseteq sent
  <2> SUFFICES ASSUME NEW m \in Honest PROVE mem[m].certified \subseteq sent
    OBVIOUS
  <2>1. RowInv(m) /\ MemInv(m)
    BY DEF IInv
  <2> QED
    BY <2>1 DEF RowInv, MemInv
<1>2. ASSUME NEW m \in Honest, NEW a \in Broadcaster \ Faulty, NEW d \in Of(mem[m].certified, a),
             mem[a].up, mem[a].epoch = d.epoch
      PROVE  mem[a].key = d.data
  <2>1. d \in Datum /\ Seen(d) /\ d.author = a /\ a \in Honest
    BY <1>1, AugAssumption DEF Of, Seen, IInv, AugTypeOK, Honest
  <2>2. Settled(a, d)
    BY <2>1 DEF IInv, HonestInv
  <2>3. db[a].key = {[epoch |-> mem[a].epoch, key |-> mem[a].key]}
    BY <1>2, <2>1 DEF IInv, MemInv
  <2>4. d \in db[a].aug
    BY <1>2, <2>2, <2>3 DEF Settled
  <2>5. PICK e \in db[a].aug : e.author = a /\ e.data = mem[a].key
    <3> DEFINE k == [epoch |-> mem[a].epoch, key |-> mem[a].key]
    <3>1. k \in db[a].key /\ k.key = mem[a].key
      BY <2>3
    <3>2. RowInv(a)
      BY <2>1 DEF IInv
    <3> QED
      BY <3>1, <3>2 DEF RowInv
  <2> QED
    BY <2>1, <2>4, <2>5 DEF IInv, RowInv
<1>3. \A m, n \in Honest : \A d \in mem[m].certified, e \in mem[n].certified :
         d.author = e.author /\ d.epoch = e.epoch => d = e
  BY <1>1, OneCertified
<1> QED
  BY <1>2, <1>3 DEF SharesVerify

(* Before any broadcast nothing is stored. *)
LEMMA InitInv == Init => IInv
<1> SUFFICES ASSUME Init PROVE IInv
  OBVIOUS
<1>1. AugTypeOK
  BY AugAssumption DEF Init, AugTypeOK, Rows, Processes, Down, Key
<1>2. \A n \in Honest : RowInv(n) /\ MemInv(n)
  BY DEF Init, RowInv, MemInv, Down
<1>3. HonestInv
  BY DEF Init, HonestInv, Seen
<1>4. SignedInv
  BY DEF Init, SignedInv
<1> QED
  BY <1>1, <1>2, <1>3, <1>4 DEF IInv

-----------------------------------------------------------------------------
(* A row and a process that a step leaves alone stay right. *)
LEMMA RowFrame ==
  ASSUME NEW n \in Honest, RowInv(n), MemInv(n),
         db'[n] = db[n], mem'[n] = mem[n], sent \subseteq sent'
  PROVE  RowInv(n)' /\ MemInv(n)'
<1>1. RowInv(n)'
  BY DEF RowInv
<1>2. MemInv(n)'
  BY DEF MemInv
<1> QED
  BY <1>1, <1>2

(* What StartEpoch does, with the key and the new datum of the node by name. *)
LEMMA StartEffect ==
  ASSUME IInv, NEW n \in Honest, NEW epoch \in 1 .. MaxEpoch, StartEpoch(n, epoch)
  PROVE  \E key \in Key, mine \in SUBSET Datum :
           /\ mine = {} \/ mine = {[epoch |-> epoch, author |-> n, data |-> key]}
           /\ mine # {} <=> n \in Broadcaster /\ Of(filter_by_epoch(db[n].aug, epoch), n) = {}
           /\ \A k \in db[n].key : k.epoch = epoch => k.key = key
           /\ db' = [db EXCEPT ![n] =
                 [key |-> {[epoch |-> epoch, key |-> key]},
                  aug |-> filter_by_epoch(db[n].aug, epoch) \cup mine,
                  certified |-> filter_by_epoch(db[n].certified, epoch)]]
           /\ mem' = [mem EXCEPT ![n] =
                 [up |-> TRUE, epoch |-> epoch, key |-> key,
                  aug |-> filter_by_epoch(db[n].aug, epoch) \cup mine,
                  certified |-> filter_by_epoch(db[n].certified, epoch)]]
           /\ sigs' = (IF n \in Broadcaster THEN [sigs EXCEPT ![n] = {}] ELSE sigs)
           /\ made' = [made EXCEPT ![n] = IF key > @ THEN key ELSE @]
           /\ UNCHANGED <<sent, crashes>>
<1> DEFINE old == RecoveredKeys(n, epoch)
           key == IF old = {} THEN made[n] + 1 ELSE CHOOSE k \in old : TRUE
           aug == filter_by_epoch(db[n].aug, epoch)
           mine == IF n \notin Broadcaster \/ Of(aug, n) # {} THEN {}
                   ELSE {[epoch |-> epoch, author |-> n, data |-> key]}
<1>1. key \in Key
  BY DEF StartEpoch
<1>2. mine \in SUBSET Datum
  BY <1>1 DEF Datum
<1>3. \A k \in db[n].key : k.epoch = epoch => k.key = key
  <2> SUFFICES ASSUME NEW k \in db[n].key, k.epoch = epoch PROVE k.key = key
    OBVIOUS
  <2>1. k.key \in old
    BY DEF RecoveredKeys
  <2>2. \A x \in old : x = k.key
    BY DEF RecoveredKeys, IInv, RowInv
  <2> QED
    BY <2>1, <2>2
<1>4. mine # {} <=> n \in Broadcaster /\ Of(aug, n) = {}
  OBVIOUS
<1>5. mine = {} \/ mine = {[epoch |-> epoch, author |-> n, data |-> key]}
  OBVIOUS
<1>6. /\ made' = [made EXCEPT ![n] = IF key > @ THEN key ELSE @]
      /\ db' = [db EXCEPT ![n] = [key |-> {[epoch |-> epoch, key |-> key]},
                                  aug |-> aug \cup mine,
                                  certified |-> filter_by_epoch(db[n].certified, epoch)]]
      /\ mem' = [mem EXCEPT ![n] = [up |-> TRUE, epoch |-> epoch, key |-> key,
                                    aug |-> aug \cup mine,
                                    certified |-> filter_by_epoch(db[n].certified, epoch)]]
      /\ sigs' = (IF n \in Broadcaster THEN [sigs EXCEPT ![n] = {}] ELSE sigs)
      /\ UNCHANGED <<sent, crashes>>
  BY DEF StartEpoch
<1> HIDE DEF key, mine
<1> QED
  BY <1>1, <1>2, <1>3, <1>4, <1>5, <1>6

(* A node moves from an epoch to the next, or starts again in the same one. *)
LEMMA StartInv == ASSUME IInv, Start PROVE IInv'
<1>1. PICK n \in Honest, epoch \in 1 .. MaxEpoch :
        /\ IF mem[n].up THEN epoch = mem[n].epoch + 1
           ELSE \A k \in db[n].key : epoch \in {k.epoch, k.epoch + 1}
        /\ StartEpoch(n, epoch)
  BY DEF Start
<1>2. PICK key \in Key, mine \in SUBSET Datum :
           /\ mine = {} \/ mine = {[epoch |-> epoch, author |-> n, data |-> key]}
           /\ mine # {} <=> n \in Broadcaster /\ Of(filter_by_epoch(db[n].aug, epoch), n) = {}
           /\ \A k \in db[n].key : k.epoch = epoch => k.key = key
           /\ db' = [db EXCEPT ![n] =
                 [key |-> {[epoch |-> epoch, key |-> key]},
                  aug |-> filter_by_epoch(db[n].aug, epoch) \cup mine,
                  certified |-> filter_by_epoch(db[n].certified, epoch)]]
           /\ mem' = [mem EXCEPT ![n] =
                 [up |-> TRUE, epoch |-> epoch, key |-> key,
                  aug |-> filter_by_epoch(db[n].aug, epoch) \cup mine,
                  certified |-> filter_by_epoch(db[n].certified, epoch)]]
           /\ sigs' = (IF n \in Broadcaster THEN [sigs EXCEPT ![n] = {}] ELSE sigs)
           /\ made' = [made EXCEPT ![n] = IF key > @ THEN key ELSE @]
           /\ UNCHANGED <<sent, crashes>>
  BY <1>1, StartEffect
<1> DEFINE aug == filter_by_epoch(db[n].aug, epoch)
           certified == filter_by_epoch(db[n].certified, epoch)
<1>3. /\ aug \subseteq db[n].aug /\ \A d \in db[n].aug : d \in aug <=> d.epoch = epoch
      /\ certified \subseteq db[n].certified /\ \A d \in certified : d.epoch = epoch
  BY DEF filter_by_epoch
<1>4. /\ \A k \in db[n].key : k.epoch \in Nat /\ epoch \in {k.epoch, k.epoch + 1}
      /\ epoch \in Nat
  <2>1. CASE mem[n].up
    BY <1>1, <2>1 DEF IInv, MemInv, AugTypeOK, Processes
  <2>2. CASE ~mem[n].up
    BY <1>1, <2>2 DEF IInv, AugTypeOK, Rows, KeyPairs
  <2> QED
    BY <2>1, <2>2
<1>5. AugTypeOK'
  <2>1. aug \cup mine \in SUBSET Datum /\ certified \in SUBSET Datum
    BY <1>3 DEF IInv, AugTypeOK, Rows
  <2>2. key \in 0 .. MaxKeys /\ epoch \in 0 .. MaxEpoch
    BY <1>2, AugAssumption DEF Key
  <2>3. {[epoch |-> epoch, key |-> key]} \in SUBSET KeyPairs
    BY <1>2 DEF KeyPairs
  <2>4. db' \in [Honest -> Rows]
    BY <1>2, <2>1, <2>3 DEF IInv, AugTypeOK, Rows
  <2>5. mem' \in [Honest -> Processes]
    BY <1>2, <2>1, <2>2 DEF IInv, AugTypeOK, Processes
  <2>6. sigs' \in [Broadcaster -> SUBSET [by : Honest, on : Datum]]
    BY <1>2 DEF IInv, AugTypeOK
  <2>7. made' \in [Honest -> 0 .. MaxKeys]
    BY <1>2, <2>2 DEF IInv, AugTypeOK
  <2> QED
    BY <1>2, <2>4, <2>5, <2>6, <2>7 DEF IInv, AugTypeOK
<1>6. /\ db'[n].key = {[epoch |-> epoch, key |-> key]}
      /\ db'[n].aug = aug \cup mine /\ db'[n].certified = certified
      /\ \A m \in Honest : m # n => db'[m] = db[m] /\ mem'[m] = mem[m]
      /\ mem'[n].up /\ mem'[n].epoch = epoch /\ mem'[n].key = key
      /\ mem'[n].aug = aug \cup mine /\ mem'[n].certified = certified
      /\ \A d \in mine : d.epoch = epoch /\ d.author = n /\ d.data = key
  BY <1>2 DEF IInv, AugTypeOK
<1>7. RowInv(n) /\ MemInv(n)
  BY DEF IInv
<1>8. RowInv(n)'
  <2>1. \A d \in db'[n].aug \cup db'[n].certified : d.epoch = epoch
    BY <1>3, <1>6
  <2>2. \A d, e \in db'[n].aug : d.author = e.author => d = e
    BY <1>2, <1>3, <1>6, <1>7 DEF RowInv, Of
  <2>3. n \in Broadcaster => \E d \in db'[n].aug : d.author = n /\ d.data = key
    <3> SUFFICES ASSUME n \in Broadcaster PROVE \E d \in db'[n].aug : d.author = n /\ d.data = key
      OBVIOUS
    <3>1. CASE mine # {}
      BY <1>6, <3>1
    <3>2. CASE mine = {}
      <4>1. PICK d \in aug : d.author = n
        BY <1>2, <3>2 DEF Of
      <4>2. PICK k \in db[n].key : d.epoch = k.epoch
        BY <1>3, <1>7, <4>1 DEF RowInv
      <4>3. k.key = key
        BY <1>2, <1>3, <4>1, <4>2
      <4>4. PICK e \in db[n].aug : e.author = n /\ e.data = k.key
        BY <1>7 DEF RowInv
      <4> QED
        BY <1>3, <1>6, <1>7, <4>1, <4>3, <4>4 DEF RowInv
    <3> QED
      BY <3>1, <3>2
  <2>4. db'[n].certified \subseteq sent'
    BY <1>2, <1>3, <1>6, <1>7 DEF RowInv
  <2> QED
    BY <1>6, <2>1, <2>2, <2>3, <2>4 DEF RowInv
<1>9. \A m \in Honest : RowInv(m)' /\ MemInv(m)'
  <2> SUFFICES ASSUME NEW m \in Honest PROVE RowInv(m)' /\ MemInv(m)'
    OBVIOUS
  <2>1. CASE m = n
    BY <1>6, <1>8, <2>1 DEF MemInv
  <2>2. CASE m # n
    <3>1. db'[m] = db[m] /\ mem'[m] = mem[m] /\ sent' = sent
      BY <1>2, <1>6, <2>2
    <3>2. RowInv(m) /\ MemInv(m)
      BY DEF IInv
    <3> QED
      BY <3>1, <3>2, RowFrame
  <2> QED
    BY <2>1, <2>2
<1>10. \A m \in Honest, d \in Datum : Settled(m, d) => Settled(m, d)'
  <2> SUFFICES ASSUME NEW m \in Honest, NEW d \in Datum, Settled(m, d) PROVE Settled(m, d)'
    OBVIOUS
  <2>1. CASE m # n
    BY <1>6, <2>1 DEF Settled
  <2>2. CASE m = n
    <3>1. PICK k \in db[n].key : d.epoch <= k.epoch /\ (d.epoch = k.epoch => d \in db[n].aug)
      BY <2>2 DEF Settled
    <3>2. d.epoch \in Nat
      BY DEF Datum
    <3>3. d.epoch <= epoch /\ (d.epoch = epoch => d \in db'[n].aug)
      BY <1>3, <1>4, <1>6, <3>1, <3>2
    <3>4. \E j \in db'[n].key : j.epoch = epoch
      BY <1>6
    <3> QED
      BY <2>2, <3>3, <3>4 DEF Settled
  <2> QED
    BY <2>1, <2>2
<1>11. \A a \in Broadcaster : sigs'[a] \subseteq sigs[a] /\ (a # n => sigs'[a] = sigs[a])
  BY <1>2 DEF IInv, AugTypeOK
<1>12. \A d \in Datum : Seen(d)' => Seen(d) \/ d \in mine
  <2> SUFFICES ASSUME NEW d \in Datum, Seen(d)', d \notin mine PROVE Seen(d)
    OBVIOUS
  <2>1. CASE \E m \in Honest : d \in db'[m].aug
    BY <1>3, <1>6, <2>1 DEF Seen
  <2>2. CASE \E a \in Broadcaster : \E s \in sigs'[a] : s.on = d
    BY <1>11, <2>2 DEF Seen
  <2>3. CASE d \in sent'
    BY <1>2, <2>3 DEF Seen
  <2> QED
    BY <2>1, <2>2, <2>3 DEF Seen
<1>13. \A d \in mine, e \in Datum : ~(Seen(e) /\ e.author = n /\ e.epoch = epoch)
  <2> SUFFICES ASSUME NEW d \in mine, NEW e \in Datum, Seen(e), e.author = n, e.epoch = epoch PROVE FALSE
    OBVIOUS
  <2>1. PICK k \in db[n].key : e.epoch <= k.epoch /\ (e.epoch = k.epoch => e \in db[n].aug)
    BY DEF IInv, HonestInv, Settled
  <2>2. e \in db[n].aug
    BY <1>4, <2>1
  <2> QED
    BY <1>2, <1>3, <2>2 DEF Of
<1>14. HonestInv'
  <2>1. \A d \in mine : Settled(n, d)'
    BY <1>4, <1>6 DEF Settled
  <2>2. ASSUME NEW d \in Datum, Seen(d)', d.author \in Honest PROVE Settled(d.author, d)'
    BY <1>6, <1>10, <1>12, <2>1, <2>2 DEF IInv, HonestInv
  <2>3. ASSUME NEW d \in Datum, NEW e \in Datum, Seen(d)', Seen(e)', d.author \in Honest,
               d.author = e.author, d.epoch = e.epoch
        PROVE  d = e
    BY <1>2, <1>6, <1>12, <1>13, <2>3 DEF IInv, HonestInv
  <2> QED
    BY <2>2, <2>3 DEF HonestInv
<1>15. SignedInv'
  <2>1. \A a \in Broadcaster : \A s \in sigs'[a] : s.by \in Honest /\ s.on \in Datum
    BY <1>5 DEF AugTypeOK
  <2>2. \A a \in Broadcaster : \A s \in sigs'[a] : s.on.author = a /\ Settled(s.by, s.on)'
    BY <1>10, <1>11, <2>1 DEF IInv, SignedInv
  <2>3. \A d \in sent' : d.author \in Faulty => Enough(d.author, d)'
    BY <1>2, <1>11 DEF IInv, SignedInv, AugTypeOK, Datum, Honest, Enough
  <2>4. \A a \in Broadcaster : \A s, t \in sigs'[a] :
           s.by = t.by /\ s.on.epoch = t.on.epoch => s.on = t.on
    <3>1. \A a \in Broadcaster : \A s, t \in sigs[a] :
             s.by = t.by /\ s.on.epoch = t.on.epoch => s.on = t.on
      BY DEF IInv, SignedInv
    <3> QED
      BY <1>11, <3>1
  <2> QED
    BY <2>2, <2>3, <2>4 DEF SignedInv
<1> QED
  BY <1>5, <1>9, <1>14, <1>15 DEF IInv

(* A crash keeps what is on disk. *)
LEMMA CrashInv == ASSUME IInv, Crash PROVE IInv'
<1>1. PICK n \in Honest :
        /\ mem' = [mem EXCEPT ![n] = Down]
        /\ sigs' = IF n \in Broadcaster THEN [sigs EXCEPT ![n] = {}] ELSE sigs
  BY DEF Crash
<1>2. UNCHANGED <<db, sent, made>> /\ crashes' = crashes + 1
  BY DEF Crash
<1>3. AugTypeOK'
  <2>1. Down \in Processes
    BY AugAssumption DEF Down, Processes
  <2> QED
    BY <1>1, <1>2, <2>1 DEF IInv, AugTypeOK
<1>4. \A m \in Honest : RowInv(m)' /\ MemInv(m)'
  <2> SUFFICES ASSUME NEW m \in Honest PROVE RowInv(m)' /\ MemInv(m)'
    OBVIOUS
  <2>1. RowInv(m) /\ MemInv(m)
    BY DEF IInv
  <2>2. RowInv(m)'
    BY <1>2, <2>1 DEF RowInv
  <2>3. mem'[m] = mem[m] \/ mem'[m] = Down
    BY <1>1 DEF IInv, AugTypeOK
  <2> QED
    BY <1>2, <2>1, <2>2, <2>3 DEF MemInv, Down
<1>5. \A a \in Broadcaster : sigs'[a] \subseteq sigs[a] /\ (a # n => sigs'[a] = sigs[a])
  BY <1>1 DEF IInv, AugTypeOK
<1>6. HonestInv'
  <2>1. \A d \in Datum : Seen(d)' => Seen(d)
    BY <1>2, <1>5 DEF Seen
  <2>2. \A m \in Honest, d \in Datum : Settled(m, d) => Settled(m, d)'
    BY <1>2 DEF Settled
  <2> QED
    BY <2>1, <2>2 DEF IInv, HonestInv
<1>7. SignedInv'
  <2>1. \A a \in Broadcaster : \A s \in sigs'[a] : s.on.author = a /\ Settled(s.by, s.on)'
    BY <1>2, <1>5 DEF IInv, SignedInv, Settled
  <2>2. \A d \in sent' : d.author \in Faulty => Enough(d.author, d)'
    BY <1>2, <1>5 DEF IInv, SignedInv, AugTypeOK, Datum, Honest, Enough
  <2> QED
    BY <1>5, <2>1, <2>2 DEF IInv, SignedInv
<1> QED
  BY <1>3, <1>4, <1>6, <1>7 DEF IInv

(* More signatures leave a quorum a quorum. *)
LEMMA EnoughGrows ==
  ASSUME AugTypeOK, AugTypeOK', NEW a \in Broadcaster, NEW d, sigs[a] \subseteq sigs'[a], Enough(a, d)
  PROVE  Enough(a, d)'
<1>1. Signers(a, d) \subseteq Signers(a, d)' /\ Signers(a, d)' \subseteq Honest
  BY DEF Signers, AugTypeOK
<1>2. IsFiniteSet(Signers(a, d)') /\ IsFiniteSet(Signers(a, d))
  BY <1>1, HonestFinite, FS_Subset
<1>3. Cardinality(Signers(a, d)) <= Cardinality(Signers(a, d)')
  BY <1>1, <1>2, FS_Subset
<1>4. Cardinality(Signers(a, d)) \in Nat /\ Cardinality(Signers(a, d)') \in Nat
  BY <1>2, FS_CardinalityType
<1>5. Cardinality(Signers(a, d)) + Cardinality(Faulty) >= QuorumPower
  BY DEF Enough, Signers
<1>6. Cardinality(Signers(a, d)') + Cardinality(Faulty) >= QuorumPower
  BY <1>3, <1>4, <1>5, HonestFinite, AugAssumption
<1> QED
  BY <1>6 DEF Enough, Signers

(* A validator stores the first datum of a broadcaster and signs what it has stored. *)
LEMMA ReceiveAugDataInv == ASSUME IInv, ReceiveAugData PROVE IInv'
<1>1. PICK n \in Honest, d \in Datum, lost \in BOOLEAN :
        /\ mem[n].up /\ d.epoch = mem[n].epoch /\ Sends(d)
        /\ add_aug_data(n, d)
        /\ sigs' = IF lost THEN sigs
                   ELSE [sigs EXCEPT ![d.author] = @ \union {[by |-> n, on |-> d]}]
  BY DEF ReceiveAugData
<1>2. UNCHANGED <<sent, made, crashes>>
  BY DEF ReceiveAugData
<1>3. d.author \in Broadcaster
  BY DEF Datum
<1>4. /\ db'[n] = [db[n] EXCEPT !.aug = @ \union {d}]
      /\ mem'[n] = [mem[n] EXCEPT !.aug = @ \union {d}]
      /\ \A m \in Honest : m # n => db'[m] = db[m] /\ mem'[m] = mem[m]
      /\ db' \in [Honest -> Rows] /\ mem' \in [Honest -> Processes]
  <2>1. /\ db' = [db EXCEPT ![n] = [db[n] EXCEPT !.aug = @ \union {d}]]
        /\ mem' = [mem EXCEPT ![n] = [mem[n] EXCEPT !.aug = @ \union {d}]]
    BY <1>1 DEF add_aug_data
  <2>2. db \in [Honest -> Rows] /\ mem \in [Honest -> Processes]
    BY DEF IInv, AugTypeOK
  <2>3. [db[n] EXCEPT !.aug = @ \union {d}] \in Rows
    BY <2>2 DEF Rows
  <2>4. [mem[n] EXCEPT !.aug = @ \union {d}] \in Processes
    BY <2>2 DEF Processes
  <2> QED
    BY <2>1, <2>2, <2>3, <2>4
<1>5. /\ db'[n].key = db[n].key /\ db'[n].aug = db[n].aug \cup {d}
      /\ db'[n].certified = db[n].certified
      /\ mem'[n].up = mem[n].up /\ mem'[n].epoch = mem[n].epoch /\ mem'[n].key = mem[n].key
      /\ mem'[n].aug = mem[n].aug \cup {d} /\ mem'[n].certified = mem[n].certified
  BY <1>4 DEF IInv, AugTypeOK, Rows, Processes
<1>6. \A a \in Broadcaster :
         /\ sigs[a] \subseteq sigs'[a]
         /\ \A s \in sigs'[a] : s \in sigs[a] \/ (a = d.author /\ s = [by |-> n, on |-> d])
  BY <1>1, <1>3 DEF IInv, AugTypeOK
<1>7. AugTypeOK'
  <2>1. [by |-> n, on |-> d] \in [by : Honest, on : Datum]
    OBVIOUS
  <2>2. sigs' \in [Broadcaster -> SUBSET [by : Honest, on : Datum]]
    BY <1>1, <1>3, <2>1 DEF IInv, AugTypeOK
  <2> QED
    BY <1>2, <1>4, <2>2 DEF IInv, AugTypeOK
<1>8. RowInv(n) /\ MemInv(n)
  BY DEF IInv
<1>9. /\ \A k \in db[n].key : k.epoch = d.epoch
      /\ \E k \in db[n].key : k.epoch = d.epoch
      /\ \A x \in db[n].aug : x.author = d.author => x = d
      /\ mem[n].aug = db[n].aug
  <2> DEFINE key == [epoch |-> mem[n].epoch, key |-> mem[n].key]
  <2>1. db[n].key = {key} /\ key.epoch = d.epoch /\ mem[n].aug = db[n].aug
    BY <1>1, <1>8 DEF MemInv
  <2>2. \A x \in mem[n].aug : x.author = d.author => x = d
    BY <1>1 DEF add_aug_data, Of
  <2> HIDE DEF key
  <2> QED
    BY <2>1, <2>2
<1>10. \A m \in Honest : RowInv(m)' /\ MemInv(m)'
  <2> SUFFICES ASSUME NEW m \in Honest PROVE RowInv(m)' /\ MemInv(m)'
    OBVIOUS
  <2>1. CASE m = n
    <3>1. RowInv(n)'
      BY <1>2, <1>5, <1>8, <1>9 DEF RowInv
    <3> QED
      BY <1>1, <1>5, <1>8, <2>1, <3>1 DEF MemInv
  <2>2. CASE m # n
    <3>1. db'[m] = db[m] /\ mem'[m] = mem[m] /\ sent' = sent
      BY <1>2, <1>4, <2>2
    <3>2. RowInv(m) /\ MemInv(m)
      BY DEF IInv
    <3> QED
      BY <3>1, <3>2, RowFrame
  <2> QED
    BY <2>1, <2>2
<1>11. \A m \in Honest : \A e : Settled(m, e) => Settled(m, e)'
  BY <1>4, <1>5 DEF Settled
<1>12. Settled(n, d)'
  <2>1. d.epoch \in Nat
    BY DEF Datum
  <2>2. PICK k \in db[n].key : k.epoch = d.epoch
    BY <1>9
  <2>3. k \in db'[n].key /\ d \in db'[n].aug
    BY <1>5, <2>2
  <2>4. d.epoch <= k.epoch
    BY <2>1, <2>2
  <2> QED
    BY <2>3, <2>4 DEF Settled
<1>13. d.author \in Honest => Seen(d)
  BY <1>1 DEF Sends, Seen, IInv, MemInv, Honest
<1>14. \A e \in Datum : Seen(e)' => Seen(e) \/ e = d
  <2> SUFFICES ASSUME NEW e \in Datum, Seen(e)', e # d PROVE Seen(e)
    OBVIOUS
  <2>1. CASE \E m \in Honest : e \in db'[m].aug
    BY <1>4, <1>5, <2>1 DEF Seen
  <2>2. CASE \E a \in Broadcaster : \E s \in sigs'[a] : s.on = e
    <3>1. PICK a \in Broadcaster : \E s \in sigs'[a] : s.on = e
      BY <2>2
    <3>2. PICK s \in sigs'[a] : s.on = e
      BY <3>1
    <3>3. s # [by |-> n, on |-> d]
      BY <3>2
    <3>4. s \in sigs[a]
      BY <1>6, <3>3
    <3> QED
      BY <3>2, <3>4 DEF Seen
  <2>3. CASE e \in sent'
    BY <1>2, <2>3 DEF Seen
  <2> QED
    BY <2>1, <2>2, <2>3 DEF Seen
<1>15. HonestInv'
  BY <1>11, <1>13, <1>14 DEF IInv, HonestInv
<1>16. SignedInv'
  <2>1. ASSUME NEW a \in Broadcaster, NEW s \in sigs'[a] PROVE s.on.author = a /\ Settled(s.by, s.on)'
    <3>1. CASE s \in sigs[a]
      <4>1. s.by \in Honest
        BY <3>1 DEF IInv, AugTypeOK
      <4>2. s.on.author = a /\ Settled(s.by, s.on)
        BY <3>1 DEF IInv, SignedInv
      <4> QED
        BY <1>11, <4>1, <4>2
    <3>2. CASE a = d.author /\ s = [by |-> n, on |-> d]
      BY <1>12, <3>2
    <3> QED
      BY <1>6, <3>1, <3>2
  <2>2. ASSUME NEW t \in sigs[d.author], t.by = n, t.on.epoch = d.epoch PROVE t.on = d
    <3>1. t.on.author = d.author /\ Settled(n, t.on)
      BY <1>3, <2>2 DEF IInv, SignedInv
    <3> QED
      BY <1>9, <2>2, <3>1 DEF Settled
  <2>3. ASSUME NEW a \in Broadcaster, NEW s \in sigs'[a], NEW t \in sigs'[a],
               s.by = t.by, s.on.epoch = t.on.epoch
        PROVE  s.on = t.on
    <3>1. CASE s \in sigs[a] /\ t \in sigs[a]
      BY <2>3, <3>1 DEF IInv, SignedInv
    <3>2. CASE s \notin sigs[a] /\ t \notin sigs[a]
      BY <1>6, <3>2
    <3>3. CASE s \in sigs[a] /\ t \notin sigs[a]
      <4>1. a = d.author /\ t.by = n /\ t.on = d
        BY <1>6, <3>3
      <4> QED
        BY <2>2, <2>3, <3>3, <4>1
    <3>4. CASE s \notin sigs[a] /\ t \in sigs[a]
      <4>1. a = d.author /\ s.by = n /\ s.on = d
        BY <1>6, <3>4
      <4> QED
        BY <2>2, <2>3, <3>4, <4>1
    <3> QED
      BY <3>1, <3>2, <3>3, <3>4
  <2>4. ASSUME NEW e \in sent', e.author \in Faulty PROVE Enough(e.author, e)'
    <3>1. e \in sent /\ e.author \in Broadcaster
      BY <1>2 DEF IInv, AugTypeOK, Datum
    <3>2. Enough(e.author, e)
      BY <2>4, <3>1 DEF IInv, SignedInv
    <3>3. AugTypeOK
      BY DEF IInv
    <3> QED
      BY <1>6, <1>7, <3>1, <3>2, <3>3, EnoughGrows
  <2> QED
    BY <2>1, <2>3, <2>4 DEF SignedInv
<1> QED
  BY <1>7, <1>10, <1>15, <1>16 DEF IInv

(* A broadcaster with enough signatures certifies its datum. *)
LEMMA CertifyInv == ASSUME IInv, Certify PROVE IInv'
<1>0. PICK a \in Broadcaster : \E s \in sigs[a] : Enough(a, s.on) /\ sent' = sent \union {s.on}
  BY DEF Certify
<1>1. PICK s \in sigs[a] : Enough(a, s.on) /\ sent' = sent \union {s.on}
  BY <1>0
<1>2. UNCHANGED <<db, mem, sigs, made, crashes>>
  BY DEF Certify
<1>3. s.on \in Datum /\ s.on.author = a
  BY DEF IInv, AugTypeOK, SignedInv
<1>4. AugTypeOK'
  BY <1>1, <1>2, <1>3 DEF IInv, AugTypeOK
<1>5. \A n \in Honest : RowInv(n)' /\ MemInv(n)'
  <2> SUFFICES ASSUME NEW n \in Honest PROVE RowInv(n)' /\ MemInv(n)'
    OBVIOUS
  <2>1. db'[n] = db[n] /\ mem'[n] = mem[n] /\ sent \subseteq sent'
    BY <1>1, <1>2
  <2>2. RowInv(n) /\ MemInv(n)
    BY DEF IInv
  <2> QED
    BY <2>1, <2>2, RowFrame
<1>6. HonestInv'
  <2>1. \A d \in Datum : Seen(d)' => Seen(d)
    BY <1>1, <1>2 DEF Seen
  <2>2. \A n \in Honest, d \in Datum : Settled(n, d) => Settled(n, d)'
    BY <1>2 DEF Settled
  <2> QED
    BY <2>1, <2>2 DEF IInv, HonestInv
<1>7. SignedInv'
  <2>1. \A b \in Broadcaster : \A t \in sigs'[b] : t.on.author = b /\ Settled(t.by, t.on)'
    BY <1>2 DEF IInv, SignedInv, Settled
  <2>2. \A d \in sent : d.author \in Faulty => Enough(d.author, d)'
    BY <1>2 DEF IInv, SignedInv, Enough
  <2>3. Enough(s.on.author, s.on)'
    BY <1>1, <1>2, <1>3 DEF Enough
  <2> QED
    BY <1>1, <1>2, <2>1, <2>2, <2>3 DEF IInv, SignedInv
<1> QED
  BY <1>4, <1>5, <1>6, <1>7 DEF IInv

(* Certified data is stored and gives the key its shares are checked with. *)
LEMMA ReceiveCertifiedInv == ASSUME IInv, ReceiveCertifiedAugData PROVE IInv'
<1>1. PICK n \in Honest, d \in sent :
        /\ mem[n].up /\ d.epoch = mem[n].epoch
        /\ db' = [db EXCEPT ![n].certified = @ \union {d}]
        /\ mem' = [mem EXCEPT ![n].certified = @ \union {d}]
  BY DEF ReceiveCertifiedAugData
<1>2. UNCHANGED <<sigs, sent, made, crashes>>
  BY DEF ReceiveCertifiedAugData
<1>3. /\ db' \in [Honest -> Rows] /\ mem' \in [Honest -> Processes]
      /\ \A m \in Honest : m # n => db'[m] = db[m] /\ mem'[m] = mem[m]
      /\ db'[n].key = db[n].key /\ db'[n].aug = db[n].aug
      /\ db'[n].certified = db[n].certified \cup {d}
      /\ mem'[n].up = mem[n].up /\ mem'[n].epoch = mem[n].epoch /\ mem'[n].key = mem[n].key
      /\ mem'[n].aug = mem[n].aug /\ mem'[n].certified = mem[n].certified \cup {d}
  BY <1>1 DEF IInv, AugTypeOK, Rows, Processes
<1>4. AugTypeOK'
  BY <1>2, <1>3 DEF IInv, AugTypeOK
<1>5. \A m \in Honest : RowInv(m)' /\ MemInv(m)'
  <2> SUFFICES ASSUME NEW m \in Honest PROVE RowInv(m)' /\ MemInv(m)'
    OBVIOUS
  <2>1. RowInv(m) /\ MemInv(m)
    BY DEF IInv
  <2>2. CASE m = n
    <3> DEFINE key == [epoch |-> mem[n].epoch, key |-> mem[n].key]
    <3>1. \E k \in db[n].key : d.epoch = k.epoch
      <4>1. db[n].key = {key} /\ key.epoch = d.epoch
        BY <1>1, <2>1, <2>2 DEF MemInv
      <4> HIDE DEF key
      <4> QED
        BY <4>1
    <3> QED
      BY <1>1, <1>2, <1>3, <2>1, <2>2, <3>1 DEF RowInv, MemInv
  <2>3. CASE m # n
    <3>1. db'[m] = db[m] /\ mem'[m] = mem[m] /\ sent' = sent
      BY <1>2, <1>3, <2>3
    <3> QED
      BY <2>1, <3>1, RowFrame
  <2> QED
    BY <2>2, <2>3
<1>6. \A m \in Honest : db'[m].key = db[m].key /\ db'[m].aug = db[m].aug
  BY <1>3
<1>7. HonestInv'
  <2>1. \A e \in Datum : Seen(e)' => Seen(e)
    BY <1>2, <1>6 DEF Seen
  <2>2. \A m \in Honest, e \in Datum : Settled(m, e) => Settled(m, e)'
    BY <1>6 DEF Settled
  <2> QED
    BY <2>1, <2>2 DEF IInv, HonestInv
<1>8. SignedInv'
  <2>1. \A m \in Honest, e \in Datum : Settled(m, e) => Settled(m, e)'
    BY <1>6 DEF Settled
  <2>2. \A a \in Broadcaster : \A s \in sigs[a] : s.by \in Honest /\ s.on \in Datum
    BY DEF IInv, AugTypeOK
  <2> QED
    BY <1>2, <2>1, <2>2 DEF IInv, SignedInv, Enough
<1> QED
  BY <1>4, <1>5, <1>7, <1>8 DEF IInv

(* Every step keeps the invariant. *)
LEMMA NextInv == IInv /\ [Next]_vars => IInv'
<1> SUFFICES ASSUME IInv, [Next]_vars PROVE IInv'
  OBVIOUS
<1>1. CASE UNCHANGED vars
  <2>1. AugTypeOK'
    BY <1>1 DEF vars, IInv, AugTypeOK
  <2>2. ASSUME NEW n \in Honest PROVE RowInv(n)' /\ MemInv(n)'
    <3>1. db'[n] = db[n] /\ mem'[n] = mem[n] /\ sent' = sent
      BY <1>1 DEF vars
    <3>2. RowInv(n) /\ MemInv(n)
      BY DEF IInv
    <3> QED
      BY <3>1, <3>2, RowFrame
  <2>3. \A n, d : Settled(n, d)' = Settled(n, d)
    BY <1>1 DEF vars, Settled
  <2>4. \A d : Seen(d)' = Seen(d)
    BY <1>1 DEF vars, Seen
  <2>5. \A a, d : Enough(a, d)' = Enough(a, d)
    BY <1>1 DEF vars, Enough
  <2>6. HonestInv'
    BY <2>3, <2>4 DEF IInv, HonestInv
  <2>7. SignedInv'
    BY <1>1, <2>3, <2>5 DEF vars, IInv, SignedInv
  <2> QED
    BY <2>1, <2>2, <2>6, <2>7 DEF IInv
<1> QED
  BY <1>1, StartInv, CrashInv, ReceiveAugDataInv, CertifyInv, ReceiveCertifiedInv DEF Next

(* In an epoch all validators hold the same certified data of an author, and the shares   *)
(* of an honest author verify against it: for any number of validators, keys, epochs and  *)
(* crashes, when two quorums share an honest validator (aug_data_store.rs,                *)
(* reliable_broadcast_state.rs).                                                          *)
THEOREM SharesAlwaysVerify == Spec => []SharesVerify
  BY InitInv, NextInv, InvImplies, PTL DEF Spec
=============================================================================
