--------------------------- MODULE CPMachineProofs ---------------------------
(***************************************************************************)
(* Lemmas about the operators of KaySa and CPMachine, for the proofs about *)
(* CP alone and about the KaYs that run it.  Every operation of the SA and *)
(* key store keeps the record well typed and the reference counts right;   *)
(* every entry function, and so every pass of SM_STEP, takes a node that   *)
(* is NodeOK to one that is NodeOK; and what each entry function does to   *)
(* the fields the proofs look at.                                          *)
(***************************************************************************)
EXTENDS CPMachine, TLAPS

SaOK(sa) == sa \in SaRecord /\ ReferencesCounted(sa)

(* The operation that leads from sa to t keeps the store right and brings  *)
(* no freed (or not yet distributed) key back to life.                     *)
Keeps(sa, t) == SaOK(t) /\ \A i \in KN : sa.user[i] = 0 => t.user[i] = 0

(* Operations that keep the store right compose. *)
LEMMA KeepsTransitive ==
  ASSUME NEW r, NEW s, NEW t, Keeps(r, s), Keeps(s, t)
  PROVE  Keeps(r, t)
BY DEF Keeps

(* A call that returns early keeps the store right. *)
LEMMA KeepsReflexive ==
  ASSUME NEW sa, SaOK(sa)
  PROVE  Keeps(sa, sa)
BY DEF Keeps

(* The key numbers, with NULL, and the ANs, as the provers need them. *)
LEMMA KIFacts ==
  /\ KN \subseteq KI /\ NoKey \in KI /\ NoKey \notin KN
  /\ KI = KN \cup {NoKey}
  /\ NoAN \notin AN /\ AN = {0, 1, 2, 3}
BY MaxKNAssumption DEF KN, KI, NoKey, AN, NoAN

(* Installing j under AN a moves one reference. *)
LEMMA InstalledAtUpdate ==
  ASSUME NEW f \in [AN -> KI], NEW a \in AN, NEW j \in KI, NEW k \in KN
  PROVE  /\ InstalledAt(f, k) \in Nat
         /\ f[a] = k => InstalledAt(f, k) >= 1
         /\ InstalledAt([f EXCEPT ![a] = j], k)
              = InstalledAt(f, k) - One(f[a] = k) + One(j = k)
BY KIFacts DEF InstalledAt, One

(* Releasing a reference of a counted key keeps it counted. *)
LEMMA DeinitCounts ==
  ASSUME NEW user \in [KN -> Nat], NEW k,
         NEW refs \in [KN -> Nat], k \in KN => refs[k] >= 1,
         \A i \in KN : CountedAt(user[i], refs[i])
  PROVE  /\ deinit_if(user, k) \in [KN -> Nat]
         /\ \A i \in KN : CountedAt(deinit_if(user, k)[i],
                                    IF i = k THEN refs[i] - 1 ELSE refs[i])
         /\ \A i \in KN : user[i] = 0 => deinit_if(user, k)[i] = 0
BY DEF deinit_if, deinit_data_key, CountedAt

(* The references to a SAK can be counted. *)
LEMMA ReferencesNat ==
  ASSUME NEW sa \in SaRecord, NEW k \in KN
  PROVE  References(sa, k) \in Nat
<1>1. InstalledAt(sa.rxsa, k) \in Nat /\ InstalledAt(sa.txsa, k) \in Nat
  BY InstalledAtUpdate, KIFacts DEF SaRecord
<1> QED BY <1>1 DEF References, One

(* ieee802_1x_delete_receive_sa releases exactly the reference of the SA. *)
LEMMA DeleteReceiveKeeps ==
  ASSUME NEW sa, SaOK(sa), NEW a \in AN
  PROVE  Keeps(sa, delete_receive_sa(sa, a))
<1> DEFINE t == delete_receive_sa(sa, a)
           refs == [i \in KN |-> References(sa, i)]
           k == sa.rxsa[a]
<1>1. sa \in SaRecord /\ ReferencesCounted(sa)  BY DEF SaOK
<1>2. sa.user \in [KN -> Nat] /\ sa.rxsa \in [AN -> KI] /\ k \in KI
  BY <1>1 DEF SaRecord
<1>3. refs \in [KN -> Nat]  BY <1>1, ReferencesNat
<1>4. k \in KN => refs[k] >= 1
  <2>1. SUFFICES ASSUME k \in KN PROVE refs[k] >= 1  OBVIOUS
  <2>2. InstalledAt(sa.rxsa, k) >= 1 /\ InstalledAt(sa.rxsa, k) \in Nat
    BY <2>1, <1>2, InstalledAtUpdate
  <2>3. InstalledAt(sa.txsa, k) \in Nat
    BY <2>1, <1>1, InstalledAtUpdate, KIFacts DEF SaRecord
  <2> QED BY <2>1, <2>2, <2>3 DEF References, One
<1>5. \A i \in KN : CountedAt(sa.user[i], refs[i])
  BY <1>1 DEF ReferencesCounted
<1>6. /\ deinit_if(sa.user, k) \in [KN -> Nat]
      /\ \A i \in KN : CountedAt(deinit_if(sa.user, k)[i],
                                 IF i = k THEN refs[i] - 1 ELSE refs[i])
      /\ \A i \in KN : sa.user[i] = 0 => deinit_if(sa.user, k)[i] = 0
  BY <1>2, <1>3, <1>4, <1>5, DeinitCounts
<1>7. t \in SaRecord
  BY <1>1, <1>6, KIFacts, ZenonT(60) DEF delete_receive_sa, SaRecord
<1>8. ASSUME NEW i \in KN PROVE References(t, i) = IF i = k THEN refs[i] - 1 ELSE refs[i]
  <2>1. /\ t.sak = sa.sak /\ t.txsa = sa.txsa
        /\ t.rxsa = [sa.rxsa EXCEPT ![a] = NoKey]
    BY <1>1 DEF delete_receive_sa, SaRecord
  <2>2. InstalledAt(t.rxsa, i) = InstalledAt(sa.rxsa, i) - One(k = i) + One(NoKey = i)
    BY <2>1, <1>2, KIFacts, InstalledAtUpdate
  <2>3. InstalledAt(sa.rxsa, i) \in Nat /\ InstalledAt(sa.txsa, i) \in Nat
    BY <1>1, InstalledAtUpdate, KIFacts DEF SaRecord
  <2> QED BY <2>1, <2>2, <2>3, KIFacts DEF References, One
<1>9. t.user = deinit_if(sa.user, k)
  BY <1>1 DEF delete_receive_sa, SaRecord
<1> QED BY <1>6, <1>7, <1>8, <1>9 DEF Keeps, SaOK, ReferencesCounted

(* ieee802_1x_delete_transmit_sa releases exactly the reference of the SA. *)
LEMMA DeleteTransmitKeeps ==
  ASSUME NEW sa, SaOK(sa), NEW a \in AN
  PROVE  Keeps(sa, delete_transmit_sa(sa, a))
<1> DEFINE t == delete_transmit_sa(sa, a)
           refs == [i \in KN |-> References(sa, i)]
           k == sa.txsa[a]
<1>1. sa \in SaRecord /\ ReferencesCounted(sa)  BY DEF SaOK
<1>2. sa.user \in [KN -> Nat] /\ sa.txsa \in [AN -> KI] /\ k \in KI
  BY <1>1 DEF SaRecord
<1>3. refs \in [KN -> Nat]  BY <1>1, ReferencesNat
<1>4. k \in KN => refs[k] >= 1
  <2>1. SUFFICES ASSUME k \in KN PROVE refs[k] >= 1  OBVIOUS
  <2>2. InstalledAt(sa.txsa, k) >= 1 /\ InstalledAt(sa.txsa, k) \in Nat
    BY <2>1, <1>2, InstalledAtUpdate
  <2>3. InstalledAt(sa.rxsa, k) \in Nat
    BY <2>1, <1>1, InstalledAtUpdate, KIFacts DEF SaRecord
  <2> QED BY <2>1, <2>2, <2>3 DEF References, One
<1>5. \A i \in KN : CountedAt(sa.user[i], refs[i])
  BY <1>1 DEF ReferencesCounted
<1>6. /\ deinit_if(sa.user, k) \in [KN -> Nat]
      /\ \A i \in KN : CountedAt(deinit_if(sa.user, k)[i],
                                 IF i = k THEN refs[i] - 1 ELSE refs[i])
      /\ \A i \in KN : sa.user[i] = 0 => deinit_if(sa.user, k)[i] = 0
  BY <1>2, <1>3, <1>4, <1>5, DeinitCounts
<1>7. t \in SaRecord
  BY <1>1, <1>6, KIFacts, ZenonT(60) DEF delete_transmit_sa, SaRecord
<1>8. ASSUME NEW i \in KN PROVE References(t, i) = IF i = k THEN refs[i] - 1 ELSE refs[i]
  <2>1. /\ t.sak = sa.sak /\ t.rxsa = sa.rxsa
        /\ t.txsa = [sa.txsa EXCEPT ![a] = NoKey]
    BY <1>1 DEF delete_transmit_sa, SaRecord
  <2>2. InstalledAt(t.txsa, i) = InstalledAt(sa.txsa, i) - One(k = i) + One(NoKey = i)
    BY <2>1, <1>2, KIFacts, InstalledAtUpdate
  <2>3. InstalledAt(sa.txsa, i) \in Nat /\ InstalledAt(sa.rxsa, i) \in Nat
    BY <1>1, InstalledAtUpdate, KIFacts DEF SaRecord
  <2> QED BY <2>1, <2>2, <2>3, KIFacts DEF References, One
<1>9. t.user = deinit_if(sa.user, k)
  BY <1>1 DEF delete_transmit_sa, SaRecord
<1> QED BY <1>6, <1>7, <1>8, <1>9 DEF Keeps, SaOK, ReferencesCounted

(* A free AN of the receive, of the transmit SC gets an SA with a listed key. *)
LEMMA InitReceiveKeeps ==
  ASSUME NEW sa, SaOK(sa), NEW a \in AN, NEW k, Listed(sa, k), sa.rxsa[a] = NoKey
  PROVE  Keeps(sa, init_receive_sa(sa, a, k))
<1> DEFINE t == init_receive_sa(sa, a, k)
<1>1. sa \in SaRecord /\ ReferencesCounted(sa) /\ k \in KN  BY DEF SaOK, Listed
<1>2. /\ t \in SaRecord
      /\ t.sak = sa.sak /\ t.txsa = sa.txsa
      /\ t.rxsa = [sa.rxsa EXCEPT ![a] = k]
      /\ t.user = [sa.user EXCEPT ![k] = sa.user[k] + 1]
  <2>1. [sa.rxsa EXCEPT ![a] = k] \in [AN -> KI]
    BY <1>1, KIFacts DEF SaRecord
  <2>2. use_data_key(sa.user, k) \in [KN -> Nat]
    BY <1>1 DEF use_data_key, SaRecord
  <2>3. t \in SaRecord
    BY <1>1, <2>1, <2>2 DEF init_receive_sa, SaRecord
  <2>4. t.user = use_data_key(sa.user, k)
    BY <1>1 DEF init_receive_sa, SaRecord
  <2> QED BY <1>1, <2>3, <2>4 DEF init_receive_sa, use_data_key, SaRecord
<1>3. ASSUME NEW i \in KN PROVE References(t, i) = References(sa, i) + One(i = k)
  <2>1. InstalledAt(t.rxsa, i) = InstalledAt(sa.rxsa, i) - One(NoKey = i) + One(k = i)
    BY <1>1, <1>2, KIFacts, InstalledAtUpdate DEF SaRecord
  <2>2. InstalledAt(sa.rxsa, i) \in Nat /\ InstalledAt(sa.txsa, i) \in Nat
    BY <1>1, InstalledAtUpdate, KIFacts DEF SaRecord
  <2> QED BY <1>2, <2>1, <2>2, KIFacts DEF References, One
<1>4. References(sa, k) >= 1
  <2>1. InstalledAt(sa.rxsa, k) \in Nat /\ InstalledAt(sa.txsa, k) \in Nat
    BY <1>1, InstalledAtUpdate, KIFacts DEF SaRecord
  <2> QED BY <2>1 DEF References, One, Listed
<1>5. \A i \in KN : References(sa, i) \in Nat /\ CountedAt(sa.user[i], References(sa, i))
  BY <1>1, ReferencesNat DEF ReferencesCounted
<1>6. sa.user \in [KN -> Nat]  BY <1>1 DEF SaRecord
<1> QED BY <1>1, <1>2, <1>3, <1>4, <1>5, <1>6
        DEF Keeps, SaOK, ReferencesCounted, CountedAt, One

(* The same of ieee802_1x_kay_init_transmit_sa. *)
LEMMA InitTransmitKeeps ==
  ASSUME NEW sa, SaOK(sa), NEW a \in AN, NEW k, Listed(sa, k), sa.txsa[a] = NoKey
  PROVE  Keeps(sa, init_transmit_sa(sa, a, k))
<1> DEFINE t == init_transmit_sa(sa, a, k)
<1>1. sa \in SaRecord /\ ReferencesCounted(sa) /\ k \in KN  BY DEF SaOK, Listed
<1>2. /\ t \in SaRecord
      /\ t.sak = sa.sak /\ t.rxsa = sa.rxsa
      /\ t.txsa = [sa.txsa EXCEPT ![a] = k]
      /\ t.user = [sa.user EXCEPT ![k] = sa.user[k] + 1]
  <2>1. [sa.txsa EXCEPT ![a] = k] \in [AN -> KI]
    BY <1>1, KIFacts DEF SaRecord
  <2>2. use_data_key(sa.user, k) \in [KN -> Nat]
    BY <1>1 DEF use_data_key, SaRecord
  <2>3. t \in SaRecord
    BY <1>1, <2>1, <2>2 DEF init_transmit_sa, SaRecord
  <2>4. t.user = use_data_key(sa.user, k)
    BY <1>1 DEF init_transmit_sa, SaRecord
  <2> QED BY <1>1, <2>3, <2>4 DEF init_transmit_sa, use_data_key, SaRecord
<1>3. ASSUME NEW i \in KN PROVE References(t, i) = References(sa, i) + One(i = k)
  <2>1. InstalledAt(t.txsa, i) = InstalledAt(sa.txsa, i) - One(NoKey = i) + One(k = i)
    BY <1>1, <1>2, KIFacts, InstalledAtUpdate DEF SaRecord
  <2>2. InstalledAt(sa.txsa, i) \in Nat /\ InstalledAt(sa.rxsa, i) \in Nat
    BY <1>1, InstalledAtUpdate, KIFacts DEF SaRecord
  <2> QED BY <1>2, <2>1, <2>2, KIFacts DEF References, One
<1>4. References(sa, k) >= 1
  <2>1. InstalledAt(sa.txsa, k) \in Nat /\ InstalledAt(sa.rxsa, k) \in Nat
    BY <1>1, InstalledAtUpdate, KIFacts DEF SaRecord
  <2> QED BY <2>1 DEF References, One, Listed
<1>5. \A i \in KN : References(sa, i) \in Nat /\ CountedAt(sa.user[i], References(sa, i))
  BY <1>1, ReferencesNat DEF ReferencesCounted
<1>6. sa.user \in [KN -> Nat]  BY <1>1 DEF SaRecord
<1> QED BY <1>1, <1>2, <1>3, <1>4, <1>5, <1>6
        DEF Keeps, SaOK, ReferencesCounted, CountedAt, One

(* Fields other than the keys, the SAs and their counts do not matter. *)
LEMMA SameStoreKeeps ==
  ASSUME NEW sa, SaOK(sa), NEW t \in SaRecord,
         t.sak = sa.sak, t.user = sa.user, t.rxsa = sa.rxsa, t.txsa = sa.txsa
  PROVE  Keeps(sa, t)
BY DEF Keeps, SaOK, ReferencesCounted, References

(* ieee802_1x_kay_deinit_receive_sc releases one reference per receive SA. *)
LEMMA DeinitReceiveScKeeps ==
  ASSUME NEW sa, SaOK(sa)
  PROVE  Keeps(sa, deinit_receive_sc(sa))
<1> DEFINE d0 == delete_receive_sa(sa, 0)
           d1 == delete_receive_sa(d0, 1)
           d2 == delete_receive_sa(d1, 2)
           d3 == delete_receive_sa(d2, 3)
           t  == [d3 EXCEPT !.rxsc = FALSE]
<1>1. Keeps(sa, d0) /\ SaOK(d0)  BY DeleteReceiveKeeps, KIFacts DEF Keeps
<1>2. Keeps(d0, d1) /\ SaOK(d1)  BY <1>1, DeleteReceiveKeeps, KIFacts DEF Keeps
<1>3. Keeps(d1, d2) /\ SaOK(d2)  BY <1>2, DeleteReceiveKeeps, KIFacts DEF Keeps
<1>4. Keeps(d2, d3) /\ SaOK(d3)  BY <1>3, DeleteReceiveKeeps, KIFacts DEF Keeps
<1>5. Keeps(sa, d3)  BY <1>1, <1>2, <1>3, <1>4 DEF Keeps
<1> HIDE DEF d3
<1>6. Keeps(d3, t)
  <2>1. d3 \in SaRecord  BY <1>4 DEF SaOK
  <2>2. /\ t \in SaRecord
        /\ t.sak = d3.sak /\ t.user = d3.user /\ t.rxsa = d3.rxsa /\ t.txsa = d3.txsa
    BY <2>1 DEF SaRecord
  <2> QED BY <1>4, <2>2, SameStoreKeeps
<1>7. Keeps(sa, t)  BY <1>5, <1>6, KeepsTransitive
<1>8. deinit_receive_sc(sa) = IF sa.rxsc THEN t ELSE sa
  BY DEF deinit_receive_sc, d3
<1> QED BY <1>7, <1>8, KeepsReflexive

(* Deleting all transmit SAs releases one reference per transmit SA. *)
LEMMA DeleteTransmitSasKeeps ==
  ASSUME NEW sa, SaOK(sa)
  PROVE  Keeps(sa, delete_transmit_sas(sa))
<1> DEFINE d0 == delete_transmit_sa(sa, 0)
           d1 == delete_transmit_sa(d0, 1)
           d2 == delete_transmit_sa(d1, 2)
           d3 == delete_transmit_sa(d2, 3)
<1>1. Keeps(sa, d0) /\ SaOK(d0)  BY DeleteTransmitKeeps, KIFacts DEF Keeps
<1>2. Keeps(d0, d1) /\ SaOK(d1)  BY <1>1, DeleteTransmitKeeps, KIFacts DEF Keeps
<1>3. Keeps(d1, d2) /\ SaOK(d2)  BY <1>2, DeleteTransmitKeeps, KIFacts DEF Keeps
<1>4. Keeps(d2, d3) /\ SaOK(d3)  BY <1>3, DeleteTransmitKeeps, KIFacts DEF Keeps
<1>5. Keeps(sa, d3)  BY <1>1, <1>2, <1>3, <1>4 DEF Keeps
<1> QED BY <1>5 DEF delete_transmit_sas

(* ieee802_1x_kay_set_latest_sa_attr copies attributes and no more. *)
LEMMA SetLatestKeeps ==
  ASSUME NEW sa, SaOK(sa),
         NEW lki \in KI, NEW lan \in AN, NEW ltx \in BOOLEAN, NEW lrx \in BOOLEAN
  PROVE  Keeps(sa, set_latest_sa_attr(sa, lki, lan, ltx, lrx))
<1> DEFINE t == set_latest_sa_attr(sa, lki, lan, ltx, lrx)
<1>1. sa \in SaRecord  BY DEF SaOK
<1>2. /\ t \in SaRecord
      /\ t.sak = sa.sak /\ t.user = sa.user /\ t.rxsa = sa.rxsa /\ t.txsa = sa.txsa
  BY <1>1 DEF set_latest_sa_attr, SaRecord
<1> QED BY <1>2, SameStoreKeeps

(* ieee802_1x_kay_set_old_sa_attr copies attributes and no more. *)
LEMMA SetOldKeeps ==
  ASSUME NEW sa, SaOK(sa),
         NEW oki \in KI, NEW oan \in AN, NEW otx \in BOOLEAN, NEW orx \in BOOLEAN
  PROVE  Keeps(sa, set_old_sa_attr(sa, oki, oan, otx, orx))
<1> DEFINE t == set_old_sa_attr(sa, oki, oan, otx, orx)
<1>1. sa \in SaRecord  BY DEF SaOK
<1>2. /\ t \in SaRecord
      /\ t.sak = sa.sak /\ t.user = sa.user /\ t.rxsa = sa.rxsa /\ t.txsa = sa.txsa
  BY <1>1 DEF set_old_sa_attr, SaRecord
<1> QED BY <1>2, SameStoreKeeps

(* What the removal of one SA leaves alone. *)
LEMMA DeleteReceiveFrame ==
  ASSUME NEW sa \in SaRecord, NEW a \in AN
  PROVE  LET t == delete_receive_sa(sa, a)
         IN  /\ t.sak = sa.sak /\ t.txsa = sa.txsa /\ t.txuse = sa.txuse
             /\ t.rxsa = [sa.rxsa EXCEPT ![a] = NoKey]
             /\ t.rxuse = sa.rxuse \ {a}
             /\ t.principal = sa.principal /\ t.rxsc = sa.rxsc /\ t.new_key = sa.new_key
BY DEF delete_receive_sa, SaRecord

(* The same of the removal of a transmit SA. *)
LEMMA DeleteTransmitFrame ==
  ASSUME NEW sa \in SaRecord, NEW a \in AN
  PROVE  LET t == delete_transmit_sa(sa, a)
         IN  /\ t.sak = sa.sak /\ t.rxsa = sa.rxsa /\ t.rxuse = sa.rxuse
             /\ t.txsa = [sa.txsa EXCEPT ![a] = NoKey]
             /\ t.txuse = sa.txuse \ {a}
             /\ t.principal = sa.principal /\ t.rxsc = sa.rxsc /\ t.new_key = sa.new_key
BY DEF delete_transmit_sa, SaRecord

(* ieee802_1x_kay_create_sas: the SAs that had the AN release their key, *)
(* the new ones hold the listed key.                                      *)
LEMMA CreateSasKeeps ==
  ASSUME NEW sa, SaOK(sa), NEW k \in KI
  PROVE  Keeps(sa, create_sas(sa, k))
<1>1. CASE ~(sa.principal /\ Listed(sa, k))
  BY <1>1, KeepsReflexive DEF create_sas
<1>2. CASE sa.principal /\ Listed(sa, k)
  <2> DEFINE a  == sa.sak[k]
             r1 == delete_receive_sa(sa, a)
             r2 == init_receive_sa(r1, a, k)
             rx == IF sa.rxsc THEN r2 ELSE sa
             t1 == delete_transmit_sa(rx, a)
             t2 == init_transmit_sa(t1, a, k)
             t  == [t2 EXCEPT !.to_use_sak = TRUE]
  <2>1. sa \in SaRecord /\ k \in KN /\ a \in AN
    BY <1>2, KIFacts DEF SaOK, SaRecord, Listed
  <2>2. Keeps(sa, r1) /\ SaOK(r1)  BY <2>1, DeleteReceiveKeeps DEF Keeps
  <2>3. r1.sak = sa.sak /\ r1.rxsa[a] = NoKey
    BY <2>1, DeleteReceiveFrame, ZenonT(60) DEF SaRecord
  <2>4. Listed(r1, k)  BY <1>2, <2>3 DEF Listed
  <2>5. Keeps(r1, r2) /\ SaOK(r2)  BY <2>1, <2>2, <2>3, <2>4, InitReceiveKeeps DEF Keeps
  <2>6. r2.sak = sa.sak
    <3>1. r1 \in SaRecord  BY <2>2 DEF SaOK
    <3> QED BY <3>1, <2>3 DEF init_receive_sa, SaRecord
  <2>7. Keeps(sa, rx) /\ SaOK(rx) /\ rx.sak = sa.sak
    BY <2>2, <2>5, <2>6, KeepsReflexive DEF Keeps
  <2> HIDE DEF rx
  <2>8. Keeps(rx, t1) /\ SaOK(t1)  BY <2>1, <2>7, DeleteTransmitKeeps DEF Keeps
  <2>9. t1.sak = sa.sak /\ t1.txsa[a] = NoKey
    <3>1. rx \in SaRecord /\ rx.txsa \in [AN -> KI]  BY <2>7 DEF SaOK, SaRecord
    <3>2. t1.sak = rx.sak /\ t1.txsa = [rx.txsa EXCEPT ![a] = NoKey]
      BY <2>1, <3>1, DeleteTransmitFrame
    <3> QED BY <2>1, <2>7, <3>1, <3>2
  <2>10. Listed(t1, k)  BY <1>2, <2>9 DEF Listed
  <2>11. Keeps(t1, t2) /\ SaOK(t2)  BY <2>1, <2>8, <2>9, <2>10, InitTransmitKeeps DEF Keeps
  <2> HIDE DEF t2
  <2>12. /\ t \in SaRecord
         /\ t.sak = t2.sak /\ t.user = t2.user /\ t.rxsa = t2.rxsa /\ t.txsa = t2.txsa
    BY <2>11 DEF SaRecord, SaOK
  <2>13. Keeps(t2, t)  BY <2>11, <2>12, SameStoreKeeps
  <2>14. Keeps(sa, t)  BY <2>7, <2>8, <2>11, <2>13, KeepsTransitive
  <2>15. create_sas(sa, k) = t
    BY <1>2, Zenon DEF create_sas, rx, t2
  <2> QED BY <2>14, <2>15
<1> QED BY <1>1, <1>2

(* What DeleteSasAt does: k loses its SAs under AN a, nothing else changes. *)
LEMMA DeleteSasAtKeeps ==
  ASSUME NEW sa, SaOK(sa), NEW a \in AN, NEW k \in KN
  PROVE  LET t == DeleteSasAt(sa, a, k)
         IN  /\ Keeps(sa, t) /\ SaOK(t)
             /\ t.sak = sa.sak /\ t.principal = sa.principal
             /\ t.rxsc = sa.rxsc /\ t.new_key = sa.new_key
             /\ t.rxsa[a] # k /\ t.txsa[a] # k
             /\ \A b \in AN : t.rxsa[b] \in {sa.rxsa[b], NoKey} /\ t.txsa[b] \in {sa.txsa[b], NoKey}
<1> DEFINE tx == IF sa.txsa[a] = k THEN delete_transmit_sa(sa, a) ELSE sa
           t  == IF tx.rxsa[a] = k THEN delete_receive_sa(tx, a) ELSE tx
<1>1. sa \in SaRecord /\ sa.txsa \in [AN -> KI] /\ sa.rxsa \in [AN -> KI]
  BY DEF SaOK, SaRecord
<1>2. /\ Keeps(sa, tx) /\ SaOK(tx)
      /\ tx.sak = sa.sak /\ tx.principal = sa.principal
      /\ tx.rxsc = sa.rxsc /\ tx.new_key = sa.new_key /\ tx.rxsa = sa.rxsa
      /\ tx.txsa[a] # k /\ \A b \in AN : tx.txsa[b] \in {sa.txsa[b], NoKey}
  <2>1. CASE sa.txsa[a] = k
    <3>1. Keeps(sa, delete_transmit_sa(sa, a))  BY DeleteTransmitKeeps
    <3>2. tx = delete_transmit_sa(sa, a)  BY <2>1
    <3>3. /\ tx.sak = sa.sak /\ tx.principal = sa.principal
          /\ tx.rxsc = sa.rxsc /\ tx.new_key = sa.new_key /\ tx.rxsa = sa.rxsa
          /\ tx.txsa = [sa.txsa EXCEPT ![a] = NoKey]
      BY <1>1, <3>2, DeleteTransmitFrame
    <3> QED BY <1>1, <3>1, <3>2, <3>3, KIFacts DEF Keeps
  <2>2. CASE sa.txsa[a] # k
    BY <2>2, KeepsReflexive DEF Keeps
  <2> QED BY <2>1, <2>2
<1> HIDE DEF tx
<1>3. tx \in SaRecord /\ tx.rxsa \in [AN -> KI]  BY <1>2 DEF SaOK, SaRecord
<1>4. /\ Keeps(tx, t) /\ SaOK(t)
      /\ t.sak = tx.sak /\ t.principal = tx.principal
      /\ t.rxsc = tx.rxsc /\ t.new_key = tx.new_key /\ t.txsa = tx.txsa
      /\ t.rxsa[a] # k /\ \A b \in AN : t.rxsa[b] \in {tx.rxsa[b], NoKey}
  <2>1. CASE tx.rxsa[a] = k
    <3>1. Keeps(tx, delete_receive_sa(tx, a))  BY <1>2, DeleteReceiveKeeps
    <3>2. t = delete_receive_sa(tx, a)  BY <2>1
    <3>3. /\ t.sak = tx.sak /\ t.principal = tx.principal
          /\ t.rxsc = tx.rxsc /\ t.new_key = tx.new_key /\ t.txsa = tx.txsa
          /\ t.rxsa = [tx.rxsa EXCEPT ![a] = NoKey]
      BY <1>3, <3>2, DeleteReceiveFrame
    <3> QED BY <1>3, <3>1, <3>2, <3>3, KIFacts DEF Keeps
  <2>2. CASE tx.rxsa[a] # k
    BY <1>2, <2>2, KeepsReflexive DEF Keeps
  <2> QED BY <2>1, <2>2
<1>5. DeleteSasAt(sa, a, k) = t  BY Zenon DEF DeleteSasAt, tx
<1> HIDE DEF t
<1>6. Keeps(sa, t)  BY <1>2, <1>4, KeepsTransitive
<1> QED BY <1>2, <1>4, <1>5, <1>6

(* A listed key without SAs is freed when it leaves the list. *)
LEMMA UnlistKeeps ==
  ASSUME NEW sa, SaOK(sa), NEW k \in KN, Listed(sa, k),
         \A b \in AN : sa.rxsa[b] # k /\ sa.txsa[b] # k
  PROVE  Keeps(sa, [sa EXCEPT !.sak  = [@ EXCEPT ![k] = NoAN],
                              !.user = deinit_data_key(@, k)])
<1> DEFINE t == [sa EXCEPT !.sak  = [@ EXCEPT ![k] = NoAN],
                           !.user = deinit_data_key(@, k)]
           refs == [i \in KN |-> References(sa, i)]
<1>1. sa \in SaRecord /\ sa.user \in [KN -> Nat] /\ sa.sak \in [KN -> AN \cup {NoAN}]
  BY DEF SaOK, SaRecord
<1>2. refs \in [KN -> Nat] /\ \A i \in KN : CountedAt(sa.user[i], refs[i])
  BY <1>1, ReferencesNat DEF SaOK, ReferencesCounted
<1>3. InstalledAt(sa.rxsa, k) = 0 /\ InstalledAt(sa.txsa, k) = 0
  BY KIFacts DEF InstalledAt, One
<1>4. refs[k] = 1  BY <1>3 DEF References, One, Listed
<1>5. deinit_data_key(sa.user, k) = deinit_if(sa.user, k)  BY DEF deinit_if
<1>6. /\ deinit_data_key(sa.user, k) \in [KN -> Nat]
      /\ \A i \in KN : CountedAt(deinit_data_key(sa.user, k)[i],
                                 IF i = k THEN refs[i] - 1 ELSE refs[i])
      /\ \A i \in KN : sa.user[i] = 0 => deinit_data_key(sa.user, k)[i] = 0
  <2> HIDE DEF refs
  <2>1. k \in KI /\ (k \in KN => refs[k] >= 1)  BY <1>4 DEF KI, KN
  <2>2. /\ deinit_if(sa.user, k) \in [KN -> Nat]
        /\ \A i \in KN : CountedAt(deinit_if(sa.user, k)[i],
                                   IF i = k THEN refs[i] - 1 ELSE refs[i])
        /\ \A i \in KN : sa.user[i] = 0 => deinit_if(sa.user, k)[i] = 0
    BY <1>1, <1>2, <2>1, DeinitCounts
  <2> QED BY <1>5, <2>2
<1>7. [sa.sak EXCEPT ![k] = NoAN] \in [KN -> AN \cup {NoAN}]  BY <1>1
<1>8. /\ t \in SaRecord /\ t.rxsa = sa.rxsa /\ t.txsa = sa.txsa
      /\ t.sak = [sa.sak EXCEPT ![k] = NoAN] /\ t.user = deinit_data_key(sa.user, k)
  BY <1>1, <1>6, <1>7 DEF SaRecord
<1>9. ASSUME NEW i \in KN
      PROVE  References(t, i) = IF i = k THEN refs[i] - 1 ELSE refs[i]
  <2> HIDE DEF t
  <2>1. InstalledAt(sa.rxsa, i) \in Nat /\ InstalledAt(sa.txsa, i) \in Nat
    BY <1>1, InstalledAtUpdate, KIFacts DEF SaRecord
  <2>2. CASE i = k
    BY <1>1, <1>3, <1>4, <1>8, <2>2 DEF References, One
  <2>3. CASE i # k
    BY <1>1, <1>8, <2>1, <2>3 DEF References, One
  <2> QED BY <2>2, <2>3
<1> HIDE DEF t
<1>10. Keeps(sa, t)  BY <1>6, <1>8, <1>9 DEF Keeps, SaOK, ReferencesCounted
<1> QED BY <1>10 DEF t

(* ieee802_1x_kay_delete_sas releases every SA of the key and its entry. *)
LEMMA DeleteSasKeeps ==
  ASSUME NEW sa, SaOK(sa), NEW k \in KI
  PROVE  Keeps(sa, delete_sas(sa, k))
<1>1. CASE ~sa.principal \/ k \notin KN
  BY <1>1, KeepsReflexive DEF delete_sas
<1>2. CASE sa.principal /\ k \in KN
  <2> DEFINE d0 == DeleteSasAt(sa, 0, k)
             d1 == DeleteSasAt(d0, 1, k)
             d2 == DeleteSasAt(d1, 2, k)
             d3 == DeleteSasAt(d2, 3, k)
             d  == [d3 EXCEPT !.new_key = NewKeyAfterDelete(sa, k)]
             t  == [d EXCEPT !.sak  = [@ EXCEPT ![k] = NoAN],
                             !.user = deinit_data_key(@, k)]
  <2> k \in KN  BY <1>2
  <2>1. /\ Keeps(sa, d0) /\ SaOK(d0) /\ d0.sak = sa.sak
        /\ d0.rxsa[0] # k /\ d0.txsa[0] # k
    BY DeleteSasAtKeeps, KIFacts
  <2> HIDE DEF d0
  <2>2. /\ Keeps(d0, d1) /\ SaOK(d1) /\ d1.sak = d0.sak
        /\ d1.rxsa[1] # k /\ d1.txsa[1] # k
        /\ \A b \in AN : d1.rxsa[b] \in {d0.rxsa[b], NoKey} /\ d1.txsa[b] \in {d0.txsa[b], NoKey}
    BY <2>1, DeleteSasAtKeeps, KIFacts
  <2> HIDE DEF d1
  <2>3. /\ Keeps(d1, d2) /\ SaOK(d2) /\ d2.sak = d1.sak
        /\ d2.rxsa[2] # k /\ d2.txsa[2] # k
        /\ \A b \in AN : d2.rxsa[b] \in {d1.rxsa[b], NoKey} /\ d2.txsa[b] \in {d1.txsa[b], NoKey}
    BY <2>2, DeleteSasAtKeeps, KIFacts
  <2> HIDE DEF d2
  <2>4. /\ Keeps(d2, d3) /\ SaOK(d3) /\ d3.sak = d2.sak
        /\ d3.rxsa[3] # k /\ d3.txsa[3] # k
        /\ \A b \in AN : d3.rxsa[b] \in {d2.rxsa[b], NoKey} /\ d3.txsa[b] \in {d2.txsa[b], NoKey}
    BY <2>3, DeleteSasAtKeeps, KIFacts
  <2> HIDE DEF d3
  <2>5. \A b \in AN : d3.rxsa[b] # k /\ d3.txsa[b] # k
    BY <2>1, <2>2, <2>3, <2>4, KIFacts
  <2>6. Keeps(sa, d3)  BY <2>1, <2>2, <2>3, <2>4 DEF Keeps
  <2>7. NewKeyAfterDelete(sa, k) \in KI
    BY KIFacts DEF NewKeyAfterDelete, SaOK, SaRecord
  <2>8. /\ d \in SaRecord /\ d.sak = d3.sak /\ d.user = d3.user
        /\ d.rxsa = d3.rxsa /\ d.txsa = d3.txsa
    BY <2>4, <2>7 DEF SaOK, SaRecord
  <2> HIDE DEF d
  <2>9. Keeps(d3, d) /\ SaOK(d)  BY <2>4, <2>8, SameStoreKeeps DEF Keeps
  <2>10. Keeps(sa, d)  BY <2>6, <2>9, KeepsTransitive
  <2>11. CASE Listed(sa, k)
    <3>1. Listed(d, k)  BY <2>1, <2>2, <2>3, <2>4, <2>8, <2>11 DEF Listed
    <3>2. Keeps(d, t)  BY <2>5, <2>8, <2>9, <3>1, UnlistKeeps
    <3>3. delete_sas(sa, k) = t
      BY <1>2, <2>11, Zenon DEF delete_sas, d0, d1, d2, d3, d
    <3> QED BY <2>10, <3>2, <3>3, KeepsTransitive
  <2>12. CASE ~Listed(sa, k)
    <3>1. delete_sas(sa, k) = d
      BY <1>2, <2>12, Zenon DEF delete_sas, d0, d1, d2, d3, d
    <3> QED BY <2>10, <3>1
  <2> QED BY <2>11, <2>12
<1> QED BY <1>1, <1>2

(* A SAK that enters the list for the first time. *)
LEMMA AddSakOK ==
  ASSUME NEW sa, SaOK(sa), NEW k \in KN, NEW an \in AN, sa.user[k] = 0
  PROVE  /\ SaOK(AddSak(sa, k, an))
         /\ \A i \in KN : i # k => AddSak(sa, k, an).user[i] = sa.user[i]
<1> DEFINE t == AddSak(sa, k, an)
<1>1. sa \in SaRecord /\ sa.user \in [KN -> Nat] /\ sa.sak \in [KN -> AN \cup {NoAN}]
  BY DEF SaOK, SaRecord
<1>2. /\ [sa.sak EXCEPT ![k] = an] \in [KN -> AN \cup {NoAN}]
      /\ [sa.user EXCEPT ![k] = 2] \in [KN -> Nat]
  BY <1>1
<1>3. /\ t \in SaRecord /\ t.rxsa = sa.rxsa /\ t.txsa = sa.txsa
      /\ t.sak = [sa.sak EXCEPT ![k] = an] /\ t.user = [sa.user EXCEPT ![k] = 2]
  BY <1>1, <1>2 DEF AddSak, SaRecord
<1>4. \A i \in KN : References(sa, i) \in Nat /\ CountedAt(sa.user[i], References(sa, i))
  BY <1>1, ReferencesNat DEF SaOK, ReferencesCounted
<1>5. References(sa, k) = 0  BY <1>4 DEF CountedAt
<1>6. \A i \in KN : InstalledAt(sa.rxsa, i) \in Nat /\ InstalledAt(sa.txsa, i) \in Nat
  BY <1>1, InstalledAtUpdate, KIFacts DEF SaRecord
<1>7. ASSUME NEW i \in KN PROVE CountedAt(t.user[i], References(t, i))
  <2>1. CASE i = k
    <3>1. InstalledAt(sa.rxsa, k) + InstalledAt(sa.txsa, k) = 0
      BY <1>5, <1>6 DEF References, One
    <3> QED BY <1>1, <1>3, <1>6, <2>1, <3>1, KIFacts DEF References, One, CountedAt
  <2>2. CASE i # k
    <3>1. References(t, i) = References(sa, i) /\ t.user[i] = sa.user[i]
      BY <1>1, <1>3, <2>2 DEF References
    <3> QED BY <1>4, <3>1
  <2> QED BY <2>1, <2>2
<1> QED BY <1>1, <1>3, <1>7 DEF SaOK, ReferencesCounted

(* The store of a new participant is right, and every key is free in it. *)
LEMMA FreshSaOK ==
  ASSUME NEW principal \in BOOLEAN
  PROVE  SaOK(FreshSa(principal)) /\ \A i \in KN : FreshSa(principal).user[i] = 0
<1>1. FreshSa(principal) \in SaRecord
  BY KIFacts DEF FreshSa, SaRecord
<1> QED BY <1>1, KIFacts
        DEF FreshSa, SaOK, ReferencesCounted, References, InstalledAt, One, CountedAt

-----------------------------------------------------------------------------
(* The port settings each state stands for: INIT and CHANGE close it, the  *)
(* states from SECURED on protect it, only they report it valid.           *)
Plain == {"INIT", "CHANGE", "ALLOWED", "AUTHENTICATED"}

PortOK(c) ==
  /\ c.state \notin Plain => c.protect_frames
  /\ c.state \in {"INIT", "CHANGE"} => ~c.controlled_port
  /\ c.port_valid => c.state \notin Plain

NodeOK(n) ==
  /\ n = [cp |-> n.cp, sa |-> n.sa]
  /\ n.cp \in CpRecord
  /\ SaOK(n.sa)
  /\ PortOK(n.cp)

(* m is a right successor of n. *)
Follows(n, m) == NodeOK(m) /\ Keeps(n.sa, m.sa)

-----------------------------------------------------------------------------
(* A step that changes CP's fields only, within their types and the port   *)
(* settings, is right.                                                     *)
LEMMA SameSaFollows ==
  ASSUME NEW n, NodeOK(n), NEW c \in CpRecord, PortOK(c)
  PROVE  Follows(n, [cp |-> c, sa |-> n.sa])
BY KeepsReflexive DEF Follows, NodeOK

(* Right steps compose. *)
LEMMA FollowsTransitive ==
  ASSUME NEW n, NEW m, NEW r, Follows(n, m), Follows(m, r)
  PROVE  Follows(n, r)
BY KeepsTransitive DEF Follows

(* Staying is right. *)
LEMMA FollowsReflexive ==
  ASSUME NEW n, NodeOK(n)
  PROVE  Follows(n, n)
BY KeepsReflexive DEF Follows, NodeOK

(* A node with its cp field replaced. *)
LEMMA NodeExcept ==
  ASSUME NEW n, NodeOK(n), NEW c
  PROVE  [n EXCEPT !.cp = c] = [cp |-> c, sa |-> n.sa]
BY DEF NodeOK

(* SM_STATE(CP, INIT) closes the port and forgets the keys. *)
LEMMA InitFollows ==
  ASSUME NEW d \in CpRecord, NEW s, SaOK(s)
  PROVE  Follows([cp |-> d, sa |-> s], CP_INIT([cp |-> d, sa |-> s]))
<1> DEFINE b == [d EXCEPT !.state = "INIT",
      !.controlled_port = FALSE, !.port_valid = FALSE, !.lki = NoKey, !.ltx = FALSE]
           c == [b EXCEPT !.lrx = FALSE,
      !.oki = NoKey, !.otx = FALSE, !.orx = FALSE, !.chgd_server = FALSE]
<1>1. CP_INIT([cp |-> d, sa |-> s]) = [cp |-> c, sa |-> s]  BY DEF CP_INIT
<1>2. NoKey \in KI  BY KIFacts
<1>3. b \in CpRecord  BY <1>2, ZenonT(60) DEF CpRecord, CPStates
<1>4. c \in CpRecord
  <2> HIDE DEF b
  <2> QED BY <1>2, <1>3, ZenonT(60) DEF CpRecord
<1>5. PortOK(c)  BY DEF CpRecord, PortOK, Plain
<1> HIDE DEF c
<1> QED BY <1>1, <1>4, <1>5, KeepsReflexive DEF Follows, NodeOK

(* SM_STATE(CP, CHANGE) closes the port and deletes both keys. *)
LEMMA ChangeFollows ==
  ASSUME NEW n, NodeOK(n)
  PROVE  Follows(n, CP_CHANGE(n))
<1> DEFINE c == [n.cp EXCEPT !.state = "CHANGE", !.port_valid = FALSE, !.controlled_port = FALSE]
           d == delete_sas(n.sa, n.cp.lki)
           t == delete_sas(d, n.cp.oki)
<1>1. CP_CHANGE(n) = [cp |-> c, sa |-> t]  BY DEF CP_CHANGE
<1>2. n.cp \in CpRecord /\ SaOK(n.sa)  BY DEF NodeOK
<1>3. n.cp.lki \in KI /\ n.cp.oki \in KI  BY <1>2 DEF CpRecord
<1>4. c \in CpRecord  BY <1>2 DEF CpRecord, CPStates
<1>5. PortOK(c)  BY <1>2 DEF CpRecord, PortOK, Plain
<1>6. Keeps(n.sa, d) /\ SaOK(d)  BY <1>2, <1>3, DeleteSasKeeps DEF Keeps
<1>7. Keeps(d, t)  BY <1>3, <1>6, DeleteSasKeeps
<1> HIDE DEF c, d, t
<1>8. Keeps(n.sa, t)  BY <1>6, <1>7, KeepsTransitive
<1> QED BY <1>1, <1>4, <1>5, <1>8 DEF Follows, NodeOK, Keeps

(* ALLOWED and AUTHENTICATED open the port, which is not reported valid. *)
LEMMA PlainFollows ==
  ASSUME NEW n, NodeOK(n), NEW s \in {"ALLOWED", "AUTHENTICATED"}
  PROVE  Follows(n, PlainPort(n, s))
<1> DEFINE c == [n.cp EXCEPT !.state = s,
      !.protect_frames = FALSE, !.port_valid = FALSE, !.controlled_port = TRUE]
<1>1. PlainPort(n, s) = [cp |-> c, sa |-> n.sa]  BY DEF PlainPort, NodeOK
<1>2. c \in CpRecord  BY ZenonT(60) DEF NodeOK, CpRecord, CPStates
<1>3. PortOK(c)  BY DEF NodeOK, CpRecord, PortOK, Plain
<1> HIDE DEF c
<1> QED BY <1>1, <1>2, <1>3, SameSaFollows

(* SM_STATE(CP, SECURED) turns protection on and reports the port valid. *)
LEMMA SecuredFollows ==
  ASSUME NEW n, NodeOK(n)
  PROVE  Follows(n, CP_SECURED(n))
<1> DEFINE c == [n.cp EXCEPT !.state = "SECURED",
      !.chgd_server = FALSE, !.protect_frames = TRUE,
      !.current_cipher = n.cp.cipher, !.port_valid = TRUE]
<1>1. CP_SECURED(n) = [cp |-> c, sa |-> n.sa]  BY DEF CP_SECURED, NodeOK
<1>2. c \in CpRecord  BY ZenonT(60) DEF NodeOK, CpRecord, CPStates
<1>3. PortOK(c)  BY DEF NodeOK, CpRecord, PortOK, Plain
<1> HIDE DEF c
<1> QED BY <1>1, <1>2, <1>3, SameSaFollows

(* ieee802_1x_kay_enable_rx_sas: whether or not the key has a receive SA   *)
(* to enable, the node it leaves is right.                                 *)
LEMMA EnableRxFollows ==
  ASSUME NEW n, NodeOK(n), NEW k
  PROVE  Follows(n, enable_rx_sas(n, k))
<1> DEFINE ans == RxAnsOf(n.sa, k)
           c == [n.cp EXCEPT !.using_receive_sas = TRUE, !.step_timer = TRUE]
           t == [n.sa EXCEPT !.rxuse = @ \cup ans]
           m == [cp |-> c, sa |-> t]
<1>1. ans \subseteq AN  BY DEF RxAnsOf
<1> HIDE DEF ans
<1>2. n.cp \in CpRecord /\ SaOK(n.sa) /\ n.sa \in SaRecord /\ PortOK(n.cp)
  BY DEF NodeOK, SaOK
<1>4. c \in CpRecord /\ PortOK(c)  BY <1>2 DEF CpRecord, PortOK
<1>5. t \in SaRecord  BY <1>1, <1>2 DEF SaRecord
<1>6. t.sak = n.sa.sak /\ t.user = n.sa.user /\ t.rxsa = n.sa.rxsa /\ t.txsa = n.sa.txsa
  BY <1>2 DEF SaRecord
<1>7. enable_rx_sas(n, k) = IF n.sa.principal /\ ans # {} THEN m ELSE n
  BY Zenon DEF enable_rx_sas, ans
<1> HIDE DEF c, t
<1>8. Keeps(n.sa, t)  BY <1>2, <1>5, <1>6, SameStoreKeeps
<1>9. Follows(n, m)  BY <1>4, <1>8 DEF Follows, NodeOK, Keeps
<1> QED BY <1>7, <1>9, FollowsReflexive

(* The same of ieee802_1x_kay_enable_tx_sas, which may compare a NULL key. *)
LEMMA EnableTxFollows ==
  ASSUME NEW n, NodeOK(n), NEW k
  PROVE  Follows(n, enable_tx_sas(n, k))
<1> DEFINE ans == TxAnsOf(n.sa, k)
           c == [n.cp EXCEPT !.using_transmit_sa = TRUE, !.step_timer = TRUE]
           t == [n.sa EXCEPT !.txuse = @ \cup ans]
           m == [cp |-> c, sa |-> t]
           f == [n.cp EXCEPT !.fault = TRUE]
           nf == [n EXCEPT !.cp = [@ EXCEPT !.fault = TRUE]]
           null == n.sa.principal /\ k = NoKey /\ \E a \in AN : n.sa.txsa[a] # NoKey
<1>1. ans \subseteq AN  BY DEF TxAnsOf
<1> HIDE DEF ans
<1>2. n.cp \in CpRecord /\ SaOK(n.sa) /\ n.sa \in SaRecord /\ PortOK(n.cp)
  BY DEF NodeOK, SaOK
<1>3. nf = [cp |-> f, sa |-> n.sa]  BY NodeExcept
<1>4. c \in CpRecord /\ PortOK(c) /\ f \in CpRecord /\ PortOK(f)
  BY <1>2, ZenonT(60) DEF CpRecord, PortOK
<1>5. t \in SaRecord  BY <1>1, <1>2 DEF SaRecord
<1>6. t.sak = n.sa.sak /\ t.user = n.sa.user /\ t.rxsa = n.sa.rxsa /\ t.txsa = n.sa.txsa
  BY <1>2 DEF SaRecord
<1>7. enable_tx_sas(n, k) = IF n.sa.principal /\ ans # {} THEN m
                            ELSE IF null THEN nf ELSE n
  BY Zenon DEF enable_tx_sas, ans
<1> HIDE DEF c, t, f, nf, null
<1>8. Keeps(n.sa, t)  BY <1>2, <1>5, <1>6, SameStoreKeeps
<1>9. Follows(n, m)  BY <1>4, <1>8 DEF Follows, NodeOK, Keeps
<1>10. Follows(n, nf)  BY <1>3, <1>4, SameSaFollows
<1> QED BY <1>7, <1>9, <1>10, FollowsReflexive

(* SM_STATE(CP, RECEIVE): the SAs of the distributed key are created, its  *)
(* receive SA enabled.                                                     *)
LEMMA ReceiveFollows ==
  ASSUME NEW n, NodeOK(n), n.cp.state \notin Plain
  PROVE  Follows(n, CP_RECEIVE(n)) /\ CP_RECEIVE(n).cp.state = "RECEIVE"
<1> DEFINE b  == [n.cp EXCEPT !.state = "RECEIVE",
                !.oki = n.cp.lki, !.oan = n.cp.lan, !.otx = n.cp.ltx, !.orx = n.cp.lrx]
           c  == [b EXCEPT !.lki = n.cp.dki, !.lan = n.cp.dan, !.ltx = FALSE, !.lrx = FALSE]
           s1 == set_old_sa_attr(n.sa, c.oki, c.oan, c.otx, c.orx)
           s2 == set_latest_sa_attr(s1, c.lki, c.lan, FALSE, FALSE)
           s3 == create_sas(s2, c.lki)
           p  == [cp |-> c, sa |-> s3]
           m  == enable_rx_sas(p, c.lki)
           e  == [m.cp EXCEPT !.new_sak = FALSE, !.all_receiving = FALSE]
           r  == [m EXCEPT !.cp = [@ EXCEPT !.new_sak = FALSE, !.all_receiving = FALSE]]
<1>1. n.cp \in CpRecord /\ SaOK(n.sa) /\ PortOK(n.cp)  BY DEF NodeOK
<1>1a. b \in CpRecord /\ b.state = "RECEIVE"  BY <1>1, ZenonT(60) DEF CpRecord, CPStates
<1>2. c \in CpRecord /\ c.state = "RECEIVE"
  <2> HIDE DEF b
  <2> QED BY <1>1, <1>1a, ZenonT(60) DEF CpRecord
<1>3. PortOK(c)  BY <1>1 DEF CpRecord, PortOK, Plain
<1>4. CP_RECEIVE(n) = r  BY Zenon DEF CP_RECEIVE
<1>5. c.oki \in KI /\ c.oan \in AN /\ c.otx \in BOOLEAN /\ c.orx \in BOOLEAN
      /\ c.lki \in KI /\ c.lan \in AN
  BY <1>2 DEF CpRecord
<1> HIDE DEF c
<1>6. Keeps(n.sa, s1) /\ SaOK(s1)  BY <1>1, <1>5, SetOldKeeps DEF Keeps
<1> HIDE DEF s1
<1>7. Keeps(s1, s2) /\ SaOK(s2)  BY <1>5, <1>6, SetLatestKeeps DEF Keeps
<1> HIDE DEF s2
<1>8. Keeps(s2, s3) /\ SaOK(s3)  BY <1>5, <1>7, CreateSasKeeps DEF Keeps
<1> HIDE DEF s3
<1>9. Keeps(n.sa, s3)  BY <1>6, <1>7, <1>8 DEF Keeps
<1>10. Follows(n, p) /\ NodeOK(p)  BY <1>2, <1>3, <1>8, <1>9 DEF Follows, NodeOK
<1>11. p.cp.state = "RECEIVE"  BY <1>2
<1>12. m.cp.state = p.cp.state
  <2> HIDE DEF p
  <2> QED BY <1>10 DEF enable_rx_sas, NodeOK, CpRecord
<1> HIDE DEF p
<1>13. Follows(p, m) /\ NodeOK(m)  BY <1>10, EnableRxFollows DEF Follows
<1> HIDE DEF m
<1>14. e \in CpRecord /\ e.state = "RECEIVE"
  BY <1>11, <1>12, <1>13, ZenonT(60) DEF NodeOK, CpRecord
<1>15. PortOK(e)  BY <1>13 DEF NodeOK, CpRecord, PortOK
<1>16. r = [cp |-> e, sa |-> m.sa]  BY <1>13 DEF NodeOK
<1> HIDE DEF e, r
<1>17. Follows(m, r)  BY <1>13, <1>14, <1>15, <1>16, SameSaFollows
<1> QED BY <1>4, <1>10, <1>13, <1>14, <1>16, <1>17, FollowsTransitive

(* SM_STATE(CP, RECEIVING) announces the receive SA. *)
LEMMA ReceivingFollows ==
  ASSUME NEW n, NodeOK(n), n.cp.state \notin Plain
  PROVE  Follows(n, CP_RECEIVING(n))
<1> DEFINE b == [n.cp EXCEPT !.state = "RECEIVING", !.lrx = TRUE,
                !.transmit_when = TRUE, !.transmit_timer = TransmitDelay]
           c == [b EXCEPT !.step_timer = TRUE,
                !.using_receive_sas = FALSE, !.server_transmitting = FALSE]
           t == set_latest_sa_attr(n.sa, c.lki, c.lan, c.ltx, TRUE)
<1>1. n.cp \in CpRecord /\ SaOK(n.sa) /\ PortOK(n.cp)  BY DEF NodeOK
<1>2. TransmitDelay \in Timers  BY DEF TransmitDelay, Timers
<1>3. b \in CpRecord /\ b.state = "RECEIVING" /\ PortOK(b)
  BY <1>1, <1>2, ZenonT(60) DEF CpRecord, CPStates, PortOK, Plain
<1>4. CP_RECEIVING(n) = [cp |-> c, sa |-> t]  BY Zenon DEF CP_RECEIVING
<1> HIDE DEF b
<1>5. c \in CpRecord /\ PortOK(c)  BY <1>3, ZenonT(60) DEF CpRecord, PortOK
<1>6. c.lki \in KI /\ c.lan \in AN /\ c.ltx \in BOOLEAN  BY <1>5 DEF CpRecord
<1> HIDE DEF c
<1>7. Keeps(n.sa, t)  BY <1>1, <1>6, SetLatestKeeps
<1> HIDE DEF t
<1> QED BY <1>4, <1>5, <1>7 DEF Follows, NodeOK, Keeps

(* SM_STATE(CP, READY) asks for an MKPDU. *)
LEMMA ReadyFollows ==
  ASSUME NEW n, NodeOK(n), n.cp.state \notin Plain
  PROVE  Follows(n, CP_READY(n))
<1> DEFINE c == [n.cp EXCEPT !.state = "READY", !.new_info = TRUE]
<1>1. CP_READY(n) = [cp |-> c, sa |-> n.sa]  BY NodeExcept DEF CP_READY
<1>2. c \in CpRecord /\ PortOK(c)  BY ZenonT(60) DEF NodeOK, CpRecord, CPStates, PortOK, Plain
<1> HIDE DEF c
<1> QED BY <1>1, <1>2, SameSaFollows

(* SM_STATE(CP, TRANSMIT) opens the port, which is protected by then. *)
LEMMA TransmitFollows ==
  ASSUME NEW n, NodeOK(n), n.cp.state \notin Plain
  PROVE  Follows(n, CP_TRANSMIT(n))
<1> DEFINE c == [n.cp EXCEPT !.state = "TRANSMIT", !.controlled_port = TRUE, !.ltx = TRUE]
           t == set_latest_sa_attr(n.sa, c.lki, c.lan, TRUE, c.lrx)
           p == [cp |-> c, sa |-> t]
           m == enable_tx_sas(p, c.lki)
           e == [m.cp EXCEPT !.all_receiving = FALSE, !.server_transmitting = FALSE]
           r == [m EXCEPT !.cp = e]
<1>1. n.cp \in CpRecord /\ SaOK(n.sa) /\ PortOK(n.cp)  BY DEF NodeOK
<1>2. c \in CpRecord /\ PortOK(c)  BY <1>1, ZenonT(60) DEF CpRecord, CPStates, PortOK, Plain
<1>3. CP_TRANSMIT(n) = r  BY Zenon DEF CP_TRANSMIT
<1>4. c.lki \in KI /\ c.lan \in AN /\ c.lrx \in BOOLEAN  BY <1>2 DEF CpRecord
<1> HIDE DEF c
<1>5. Keeps(n.sa, t)  BY <1>1, <1>4, SetLatestKeeps
<1> HIDE DEF t
<1>6. Follows(n, p) /\ NodeOK(p)  BY <1>2, <1>5 DEF Follows, NodeOK, Keeps
<1> HIDE DEF p
<1>7. Follows(p, m) /\ NodeOK(m)  BY <1>6, EnableTxFollows DEF Follows
<1> HIDE DEF m
<1>7a. m.cp \in CpRecord /\ PortOK(m.cp)  BY <1>7 DEF NodeOK
<1>8. e \in CpRecord /\ PortOK(e)  BY <1>7a, ZenonT(60) DEF CpRecord, PortOK
<1> HIDE DEF e
<1>9. r = [cp |-> e, sa |-> m.sa]  BY <1>7, NodeExcept
<1> HIDE DEF r
<1>10. Follows(m, r)  BY <1>7, <1>8, <1>9, SameSaFollows
<1> QED BY <1>3, <1>6, <1>7, <1>10, FollowsTransitive

(* SM_STATE(CP, TRANSMITTING) starts to retire the old key. *)
LEMMA TransmittingFollows ==
  ASSUME NEW n, NodeOK(n), n.cp.state \notin Plain
  PROVE  Follows(n, CP_TRANSMITTING(n))
<1> DEFINE b == [n.cp EXCEPT !.state = "TRANSMITTING",
                !.retire_when = n.cp.orx,
                !.retire_timer = IF n.cp.orx THEN RetireDelay ELSE 0]
           c == [b EXCEPT !.otx = FALSE, !.new_info = TRUE, !.using_transmit_sa = FALSE]
           t == set_old_sa_attr(n.sa, c.oki, c.oan, FALSE, c.orx)
<1>1. n.cp \in CpRecord /\ SaOK(n.sa) /\ PortOK(n.cp)  BY DEF NodeOK
<1>2. (IF n.cp.orx THEN RetireDelay ELSE 0) \in Timers
  BY DEF TransmitDelay, RetireDelay, Timers
<1>3. b \in CpRecord /\ PortOK(b)
  BY <1>1, <1>2, ZenonT(60) DEF CpRecord, CPStates, PortOK, Plain
<1>4. CP_TRANSMITTING(n) = [cp |-> c, sa |-> t]  BY Zenon DEF CP_TRANSMITTING
<1> HIDE DEF b
<1>5. c \in CpRecord /\ PortOK(c)  BY <1>3, ZenonT(60) DEF CpRecord, PortOK
<1>6. c.oki \in KI /\ c.oan \in AN /\ c.orx \in BOOLEAN  BY <1>5 DEF CpRecord
<1> HIDE DEF c
<1>7. Keeps(n.sa, t)  BY <1>1, <1>6, SetOldKeeps
<1> HIDE DEF t
<1> QED BY <1>4, <1>5, <1>7 DEF Follows, NodeOK, Keeps

(* SM_STATE(CP, ABANDON) deletes the latest key. *)
LEMMA AbandonFollows ==
  ASSUME NEW n, NodeOK(n), n.cp.state \notin Plain
  PROVE  Follows(n, CP_ABANDON(n)) /\ CP_ABANDON(n).cp.state = "ABANDON"
<1> DEFINE c  == [n.cp EXCEPT !.state = "ABANDON", !.lrx = FALSE, !.lki = NoKey,
                !.new_sak = FALSE]
           s1 == set_latest_sa_attr(n.sa, n.cp.lki, n.cp.lan, n.cp.ltx, FALSE)
           s2 == delete_sas(s1, n.cp.lki)
           s3 == set_latest_sa_attr(s2, NoKey, n.cp.lan, n.cp.ltx, FALSE)
<1>1. n.cp \in CpRecord /\ SaOK(n.sa) /\ PortOK(n.cp)  BY DEF NodeOK
<1>2. NoKey \in KI  BY KIFacts
<1>3. c \in CpRecord /\ PortOK(c) /\ c.state = "ABANDON"
  BY <1>1, <1>2, ZenonT(60) DEF CpRecord, CPStates, PortOK, Plain
<1>4. CP_ABANDON(n) = [cp |-> c, sa |-> s3]  BY Zenon DEF CP_ABANDON
<1>5. n.cp.lki \in KI /\ n.cp.lan \in AN /\ n.cp.ltx \in BOOLEAN  BY <1>1 DEF CpRecord
<1> HIDE DEF c
<1>6. Keeps(n.sa, s1) /\ SaOK(s1)  BY <1>1, <1>5, SetLatestKeeps DEF Keeps
<1> HIDE DEF s1
<1>7. Keeps(s1, s2) /\ SaOK(s2)  BY <1>5, <1>6, DeleteSasKeeps DEF Keeps
<1> HIDE DEF s2
<1>8. Keeps(s2, s3) /\ SaOK(s3)  BY <1>2, <1>5, <1>7, SetLatestKeeps DEF Keeps
<1> HIDE DEF s3
<1>9. Keeps(n.sa, s3)  BY <1>6, <1>7, <1>8 DEF Keeps
<1> QED BY <1>3, <1>4, <1>8, <1>9 DEF Follows, NodeOK

(* SM_STATE(CP, RETIRE) forgets the old key. *)
LEMMA RetireFollows ==
  ASSUME NEW n, NodeOK(n), n.cp.state \notin Plain
  PROVE  Follows(n, CP_RETIRE(n))
<1> DEFINE c == [n.cp EXCEPT !.state = "RETIRE", !.oki = NoKey, !.orx = FALSE, !.otx = FALSE]
           t == set_old_sa_attr(n.sa, NoKey, c.oan, FALSE, FALSE)
<1>1. n.cp \in CpRecord /\ SaOK(n.sa) /\ PortOK(n.cp)  BY DEF NodeOK
<1>2. NoKey \in KI  BY KIFacts
<1>3. c \in CpRecord /\ PortOK(c)
  BY <1>1, <1>2, ZenonT(60) DEF CpRecord, CPStates, PortOK, Plain
<1>4. CP_RETIRE(n) = [cp |-> c, sa |-> t]  BY Zenon DEF CP_RETIRE
<1>5. c.oan \in AN  BY <1>3 DEF CpRecord
<1> HIDE DEF c
<1>6. Keeps(n.sa, t)  BY <1>1, <1>2, <1>5, SetOldKeeps
<1> HIDE DEF t
<1> QED BY <1>3, <1>4, <1>6 DEF Follows, NodeOK, Keeps

(* One pass of SM_STEP(CP) takes a right node to a right node. *)
LEMMA StepFollows ==
  ASSUME NEW n, NodeOK(n)
  PROVE  Follows(n, SM_STEP(n))
<1> DEFINE s == n.cp.state
<1>0. s \in CPStates  BY DEF NodeOK, CpRecord
<1>1. CASE s \in Plain
  <2>1. Follows(n, CP_CHANGE(n))  BY ChangeFollows
  <2>2. Follows(n, CP_ALLOWED(n)) /\ Follows(n, CP_AUTHENTICATED(n))
    BY PlainFollows DEF CP_ALLOWED, CP_AUTHENTICATED
  <2>3. Follows(n, CP_SECURED(n))  BY SecuredFollows
  <2>4. Follows(n, StepCHANGE(n))
    BY <2>2, <2>3, FollowsReflexive DEF StepCHANGE
  <2> QED BY <1>1, <2>1, <2>4, FollowsReflexive, Zenon DEF SM_STEP, Plain
<1>2. CASE s \notin Plain
  <2>1. Follows(n, n)  BY FollowsReflexive
  <2>2. Follows(n, CP_CHANGE(n))  BY ChangeFollows
  <2>3. Follows(n, CP_RECEIVE(n)) /\ NodeOK(CP_RECEIVE(n))
        /\ CP_RECEIVE(n).cp.state \notin Plain
    BY <1>2, ReceiveFollows DEF Follows, Plain
  <2>4. Follows(n, CP_RETIRE(n))  BY <1>2, RetireFollows
  <2>5. Follows(n, StepSecured(n)) /\ Follows(n, StepABANDON(n))
    BY <2>1, <2>2, <2>3, <2>4, Zenon DEF StepSecured, StepABANDON
  <2>6. Follows(n, StepRECEIVING(n))
    <3> DEFINE m == IF n.cp.new_sak \/ changed_connect(n.cp) THEN CP_ABANDON(n) ELSE n
    <3>1. Follows(n, m) /\ NodeOK(m) /\ m.cp.state \notin Plain
      <4>1. CASE n.cp.new_sak \/ changed_connect(n.cp)
        BY <1>2, <4>1, AbandonFollows DEF Follows, Plain
      <4>2. CASE ~(n.cp.new_sak \/ changed_connect(n.cp))
        BY <1>2, <2>1, <4>2 DEF Follows
      <4> QED BY <4>1, <4>2
    <3>2. StepRECEIVING(n) = IF ~m.cp.elected_self THEN CP_READY(m)
             ELSE IF m.cp.all_receiving \/ ~m.cp.transmit_when THEN CP_TRANSMIT(m) ELSE m
      BY Zenon DEF StepRECEIVING
    <3> HIDE DEF m
    <3>3. Follows(m, CP_READY(m)) /\ Follows(m, CP_TRANSMIT(m))
      BY <3>1, ReadyFollows, TransmitFollows
    <3>4. Follows(n, CP_READY(m)) /\ Follows(n, CP_TRANSMIT(m))
      BY <3>1, <3>3, FollowsTransitive
    <3> QED BY <3>1, <3>2, <3>4
  <2>7. Follows(n, StepREADY(n))
    <3> DEFINE m == IF n.cp.new_sak \/ changed_connect(n.cp) THEN CP_RECEIVE(n) ELSE n
    <3>1. Follows(n, m) /\ NodeOK(m) /\ m.cp.state \notin Plain
      BY <1>2, <2>1, <2>3
    <3>2. StepREADY(n) = IF m.cp.server_transmitting THEN CP_TRANSMIT(m) ELSE m
      BY Zenon DEF StepREADY
    <3> HIDE DEF m
    <3>3. Follows(m, CP_TRANSMIT(m))  BY <3>1, TransmitFollows
    <3>4. Follows(n, CP_TRANSMIT(m))  BY <3>1, <3>3, FollowsTransitive
    <3> QED BY <3>1, <3>2, <3>4
  <2>8. Follows(n, CP_RECEIVING(n)) /\ Follows(n, CP_TRANSMITTING(n))
    BY <1>2, ReceivingFollows, TransmittingFollows
  <2>9. s \in CPStates \ Plain  BY <1>0, <1>2
  <2> QED BY <2>9, <2>1, <2>4, <2>5, <2>6, <2>7, <2>8, Zenon DEF SM_STEP, Plain, CPStates
<1> QED BY <1>1, <1>2

(* A new CP on a new participant is right and holds no key. *)
LEMMA CpSmInitOK ==
  ASSUME NEW x \in Ciphers, NEW p \in BOOLEAN
  PROVE  LET m == cp_sm_init(x, FreshSa(p))
         IN  NodeOK(m) /\ \A k \in KN : m.sa.user[k] = 0
<1> DEFINE d == InitialCp(x)
           s == FreshSa(p)
           n == [cp |-> d, sa |-> s]
           i == CP_INIT(n)
           m == SM_STEP(i)
<1>1. d \in CpRecord
  BY KIFacts DEF InitialCp, CpRecord, CPStates, Connect, Timers, NoTimer
<1>2. SaOK(s) /\ \A k \in KN : s.user[k] = 0  BY FreshSaOK
<1>3. cp_sm_init(x, FreshSa(p)) = m  BY Zenon DEF cp_sm_init
<1>4. n.sa = s  OBVIOUS
<1> HIDE DEF d, s
<1>5. Follows(n, i) /\ NodeOK(i)  BY <1>1, <1>2, InitFollows DEF Follows
<1> HIDE DEF n, i
<1>6. Follows(i, m)  BY <1>5, StepFollows
<1> HIDE DEF m
<1>7. Follows(n, m)  BY <1>5, <1>6, FollowsTransitive
<1> QED BY <1>2, <1>3, <1>4, <1>7 DEF Follows, Keeps

-----------------------------------------------------------------------------
(* What the entry functions do to the store. *)

(* Creating the SAs of k may give it a receive SA. *)
Receivable(s, k) ==
  /\ s.principal
  /\ k \in KN
  /\ s.sak[k] # NoAN \/ \E a \in AN : s.rxsa[a] = k

(* The SAs that the two flags stand for are enabled. *)
RxEnabled(n) == \E a \in n.sa.rxuse : n.sa.rxsa[a] = n.cp.lki
TxEnabled(n) == \E a \in n.sa.txuse : n.sa.txsa[a] = n.cp.lki

SameSas(s, t) ==
  /\ t.principal = s.principal /\ t.rxsc = s.rxsc /\ t.sak = s.sak
  /\ t.rxsa = s.rxsa /\ t.txsa = s.txsa /\ t.rxuse = s.rxuse /\ t.txuse = s.txuse

(* t is s without some of the keys in K. *)
Trims(s, t, K) ==
  /\ t.principal = s.principal /\ t.rxsc = s.rxsc
  /\ \A k \in KN : k \notin K => t.sak[k] = s.sak[k]
  /\ \A k \in KN : s.sak[k] = NoAN => t.sak[k] = NoAN

(* ieee802_1x_kay_set_latest_sa_attr and set_old_sa_attr touch no SA. *)
LEMMA SetLatestSame ==
  ASSUME NEW s \in SaRecord, NEW i, NEW a, NEW tx, NEW rx
  PROVE  SameSas(s, set_latest_sa_attr(s, i, a, tx, rx))
BY DEF set_latest_sa_attr, SaRecord, SameSas

(* The same of the old key's attributes. *)
LEMMA SetOldSame ==
  ASSUME NEW s \in SaRecord, NEW i, NEW a, NEW tx, NEW rx
  PROVE  SameSas(s, set_old_sa_attr(s, i, a, tx, rx))
BY DEF set_old_sa_attr, SaRecord, SameSas

(* t is s without the receive SA of k under AN a. *)
Prunes(s, t, a, k) ==
  /\ t.sak = s.sak /\ t.principal = s.principal /\ t.rxsc = s.rxsc
  /\ t.rxsa[a] # k /\ \A b \in AN : t.rxsa[b] \in {s.rxsa[b], NoKey}

(* One turn of the loop over the SAs. *)
LEMMA DeleteSasAtPrunes ==
  ASSUME NEW s, SaOK(s), NEW a \in AN, NEW k \in KN
  PROVE  SaOK(DeleteSasAt(s, a, k)) /\ Prunes(s, DeleteSasAt(s, a, k), a, k)
BY DeleteSasAtKeeps DEF Prunes

(* ieee802_1x_kay_delete_sas takes k out of the list, and no SA of k can   *)
(* come back.                                                              *)
LEMMA DeleteSasTrims ==
  ASSUME NEW s, SaOK(s), NEW k \in KI, NEW t, t = delete_sas(s, k)
  PROVE  Trims(s, t, {k}) /\ ~Receivable(t, k)
<1>1. CASE ~s.principal \/ k \notin KN
  <2>1. t = s  BY <1>1 DEF delete_sas
  <2> QED BY <1>1, <2>1 DEF Trims, Receivable
<1>2. CASE s.principal /\ k \in KN
  <2> DEFINE d0 == DeleteSasAt(s, 0, k)
             d1 == DeleteSasAt(d0, 1, k)
             d2 == DeleteSasAt(d1, 2, k)
             d3 == DeleteSasAt(d2, 3, k)
             d  == [d3 EXCEPT !.new_key = NewKeyAfterDelete(s, k)]
             u  == [d EXCEPT !.sak  = [@ EXCEPT ![k] = NoAN],
                             !.user = deinit_data_key(@, k)]
  <2> k \in KN  BY <1>2
  <2>0. 0 \in AN /\ 1 \in AN /\ 2 \in AN /\ 3 \in AN  BY KIFacts
  <2>1. SaOK(d0) /\ Prunes(s, d0, 0, k)  BY <2>0, DeleteSasAtPrunes
  <2> HIDE DEF d0
  <2>2. SaOK(d1) /\ Prunes(d0, d1, 1, k)  BY <2>0, <2>1, DeleteSasAtPrunes
  <2> HIDE DEF d1
  <2>3. SaOK(d2) /\ Prunes(d1, d2, 2, k)  BY <2>0, <2>2, DeleteSasAtPrunes
  <2> HIDE DEF d2
  <2>4. SaOK(d3) /\ Prunes(d2, d3, 3, k)  BY <2>0, <2>3, DeleteSasAtPrunes
  <2> HIDE DEF d3
  <2>5. /\ d3.sak = s.sak /\ d3.principal = s.principal /\ d3.rxsc = s.rxsc
        /\ \A b \in AN : d3.rxsa[b] # k
    BY <2>1, <2>2, <2>3, <2>4, KIFacts DEF Prunes
  <2>6. d3 \in SaRecord  BY <2>4 DEF SaOK
  <2>7. /\ d.sak = s.sak /\ d.principal = s.principal /\ d.rxsc = s.rxsc
        /\ d.rxsa = d3.rxsa
    BY <2>5, <2>6 DEF SaRecord
  <2>8. NewKeyAfterDelete(s, k) \in KI
    BY KIFacts DEF NewKeyAfterDelete, SaOK, SaRecord
  <2>9. d \in SaRecord  BY <2>6, <2>8 DEF SaRecord
  <2> HIDE DEF d
  <2>10. s.sak \in [KN -> AN \cup {NoAN}]  BY DEF SaOK, SaRecord
  <2>11. CASE Listed(s, k)
    <3>1. t = u  BY <1>2, <2>11, Zenon DEF delete_sas, d0, d1, d2, d3, d
    <3>2. /\ t.sak = [s.sak EXCEPT ![k] = NoAN] /\ t.rxsa = d3.rxsa
          /\ t.principal = s.principal /\ t.rxsc = s.rxsc
      BY <2>7, <2>9, <3>1 DEF SaRecord
    <3> QED BY <2>5, <2>10, <3>2 DEF Trims, Receivable
  <2>12. CASE ~Listed(s, k)
    <3>1. t = d  BY <1>2, <2>12, Zenon DEF delete_sas, d0, d1, d2, d3, d
    <3> QED BY <2>5, <2>7, <2>12, <3>1 DEF Trims, Receivable, Listed
  <2> QED BY <2>11, <2>12
<1> QED BY <1>1, <1>2

(* ieee802_1x_kay_create_sas: the list stays, a listed key of a participant *)
(* with a receive SC has a receive SA, and a key that is not Receivable     *)
(* gets none.                                                               *)
LEMMA CreateSasEffect ==
  ASSUME NEW s, SaOK(s), NEW k \in KI, NEW t, t = create_sas(s, k)
  PROVE  /\ t.principal = s.principal /\ t.rxsc = s.rxsc /\ t.sak = s.sak
         /\ s.principal /\ s.rxsc /\ Listed(s, k) => \E a \in AN : t.rxsa[a] = k
         /\ ~Receivable(s, k) => t = s
<1>0. s \in SaRecord  BY DEF SaOK
<1>1. CASE ~(s.principal /\ Listed(s, k))
  BY <1>1 DEF create_sas
<1>2. CASE s.principal /\ Listed(s, k)
  <2> DEFINE a  == s.sak[k]
             r1 == delete_receive_sa(s, a)
             r2 == init_receive_sa(r1, a, k)
             rx == IF s.rxsc THEN r2 ELSE s
             t1 == delete_transmit_sa(rx, a)
             t2 == init_transmit_sa(t1, a, k)
             u  == [t2 EXCEPT !.to_use_sak = TRUE]
  <2>1. k \in KN /\ a \in AN  BY <1>0, <1>2, KIFacts DEF SaRecord, Listed
  <2>2. /\ r1.sak = s.sak /\ r1.principal = s.principal /\ r1.rxsc = s.rxsc
        /\ r1.rxsa = [s.rxsa EXCEPT ![a] = NoKey]
    BY <1>0, <2>1, DeleteReceiveFrame
  <2>3. SaOK(r1) /\ r1 \in SaRecord  BY <2>1, DeleteReceiveKeeps DEF Keeps, SaOK
  <2>3a. r1.rxsa[a] = NoKey  BY <1>0, <2>1, <2>2 DEF SaRecord
  <2>3b. Listed(r1, k)  BY <1>2, <2>2 DEF Listed
  <2> HIDE DEF r1
  <2>4. /\ r2.sak = s.sak /\ r2.principal = s.principal /\ r2.rxsc = s.rxsc
        /\ r2.rxsa = [r1.rxsa EXCEPT ![a] = k]
    BY <2>2, <2>3 DEF init_receive_sa, SaRecord
  <2>5. r2.rxsa[a] = k  BY <2>1, <2>3, <2>4 DEF SaRecord
  <2>6. SaOK(r2)
    BY <2>1, <2>3, <2>3a, <2>3b, InitReceiveKeeps DEF Keeps
  <2> HIDE DEF r2
  <2>7. /\ rx.sak = s.sak /\ rx.principal = s.principal /\ rx.rxsc = s.rxsc
        /\ SaOK(rx) /\ rx \in SaRecord /\ (s.rxsc => rx.rxsa[a] = k)
    BY <1>0, <2>4, <2>5, <2>6 DEF SaOK
  <2> HIDE DEF rx
  <2>8. /\ t1.sak = s.sak /\ t1.principal = s.principal /\ t1.rxsc = s.rxsc
        /\ t1.rxsa = rx.rxsa
    BY <2>1, <2>7, DeleteTransmitFrame
  <2>9. t1 \in SaRecord  BY <2>1, <2>7, DeleteTransmitKeeps DEF Keeps, SaOK
  <2> HIDE DEF t1
  <2>10. /\ u.sak = t1.sak /\ u.principal = t1.principal /\ u.rxsc = t1.rxsc
         /\ u.rxsa = t1.rxsa
    BY <2>9 DEF init_transmit_sa, SaRecord
  <2>11. t = u  BY <1>2, Zenon DEF create_sas, r1, r2, rx, t1, t2
  <2> HIDE DEF u
  <2> QED BY <1>2, <2>1, <2>7, <2>8, <2>10, <2>11 DEF Receivable, Listed
<1> QED BY <1>1, <1>2

-----------------------------------------------------------------------------
(* What the entry functions do to CP. *)

(* No entry function but SECURED touches what changed_connect looks at. *)
Steady(c, d) ==
  /\ d.connect = c.connect /\ d.elected_self = c.elected_self
  /\ d.cipher = c.cipher /\ d.dki = c.dki
  /\ d.chgd_server = c.chgd_server /\ d.current_cipher = c.current_cipher

(* The flags and keys that most entry functions leave alone. *)
SameFlags(c, d) ==
  /\ d.new_sak = c.new_sak /\ d.lki = c.lki /\ d.oki = c.oki /\ d.lrx = c.lrx
  /\ d.using_receive_sas = c.using_receive_sas
  /\ d.using_transmit_sa = c.using_transmit_sa

SameList(s, t) == t.principal = s.principal /\ t.rxsc = s.rxsc /\ t.sak = s.sak

(* SM_STATE(CP, CHANGE). *)
LEMMA ChangeEffect ==
  ASSUME NEW n, NodeOK(n), NEW y, y = CP_CHANGE(n)
  PROVE  /\ y.cp.state = "CHANGE" /\ Steady(n.cp, y.cp) /\ SameFlags(n.cp, y.cp)
         /\ Trims(n.sa, y.sa, {n.cp.lki, n.cp.oki})
<1>1. n.cp \in CpRecord /\ SaOK(n.sa)  BY DEF NodeOK
<1>2. n.cp.lki \in KI /\ n.cp.oki \in KI  BY <1>1 DEF CpRecord
<1>3. PICK d : d = delete_sas(n.sa, n.cp.lki)  OBVIOUS
<1>4. PICK t : t = delete_sas(d, n.cp.oki)  OBVIOUS
<1>5. SaOK(d)  BY <1>1, <1>2, <1>3, DeleteSasKeeps DEF Keeps
<1>6. Trims(n.sa, d, {n.cp.lki})  BY <1>1, <1>2, <1>3, DeleteSasTrims
<1>7. Trims(d, t, {n.cp.oki})  BY <1>2, <1>4, <1>5, DeleteSasTrims
<1>8. Trims(n.sa, t, {n.cp.lki, n.cp.oki})  BY <1>6, <1>7 DEF Trims
<1>9. y.sa = t  BY <1>3, <1>4 DEF CP_CHANGE
<1>10. y.cp = [n.cp EXCEPT !.state = "CHANGE", !.port_valid = FALSE, !.controlled_port = FALSE]
  BY DEF CP_CHANGE
<1>11. y.cp.state = "CHANGE" /\ Steady(n.cp, y.cp) /\ SameFlags(n.cp, y.cp)
  BY <1>1, <1>10 DEF CpRecord, Steady, SameFlags
<1> QED BY <1>8, <1>9, <1>11

(* ALLOWED and AUTHENTICATED. *)
LEMMA PlainEffect ==
  ASSUME NEW n, NodeOK(n), NEW s, NEW y, y = PlainPort(n, s)
  PROVE  /\ y.cp.state = s /\ Steady(n.cp, y.cp) /\ SameFlags(n.cp, y.cp)
         /\ y.sa = n.sa
<1>1. n.cp \in CpRecord /\ n = [cp |-> n.cp, sa |-> n.sa]  BY DEF NodeOK
<1>2. /\ y.cp = [n.cp EXCEPT !.state = s, !.protect_frames = FALSE,
                             !.port_valid = FALSE, !.controlled_port = TRUE]
      /\ y.sa = n.sa
  BY <1>1 DEF PlainPort
<1> QED BY <1>1, <1>2 DEF CpRecord, Steady, SameFlags

(* SM_STATE(CP, SECURED): the connection is no longer a changed one. *)
LEMMA SecuredEffect ==
  ASSUME NEW n, NodeOK(n), NEW y, y = CP_SECURED(n)
  PROVE  /\ y.cp.state = "SECURED" /\ y.cp.connect = n.cp.connect
         /\ y.cp.elected_self = n.cp.elected_self /\ y.cp.dki = n.cp.dki
         /\ changed_connect(y.cp) <=> n.cp.connect # "SECURE"
         /\ SameFlags(n.cp, y.cp)
         /\ y.sa = n.sa
<1>1. n.cp \in CpRecord /\ n = [cp |-> n.cp, sa |-> n.sa]  BY DEF NodeOK
<1>2. /\ y.cp = [n.cp EXCEPT !.state = "SECURED", !.chgd_server = FALSE,
                             !.protect_frames = TRUE,
                             !.current_cipher = n.cp.cipher, !.port_valid = TRUE]
      /\ y.sa = n.sa
  BY <1>1 DEF CP_SECURED
<1> QED BY <1>1, <1>2 DEF CpRecord, SameFlags, changed_connect, changed_cipher

(* SM_STATE(CP, RECEIVING): using_receive_sas has served. *)
LEMMA ReceivingEffect ==
  ASSUME NEW n, NodeOK(n), NEW y, y = CP_RECEIVING(n)
  PROVE  /\ y.cp.state = "RECEIVING" /\ Steady(n.cp, y.cp)
         /\ y.cp.new_sak = n.cp.new_sak /\ y.cp.lki = n.cp.lki /\ y.cp.oki = n.cp.oki
         /\ y.cp.lrx = TRUE /\ y.cp.transmit_when = TRUE
         /\ y.cp.using_receive_sas = FALSE /\ y.cp.server_transmitting = FALSE
         /\ y.cp.using_transmit_sa = n.cp.using_transmit_sa
         /\ y.cp.all_receiving = n.cp.all_receiving
         /\ SameSas(n.sa, y.sa)
<1>1. n.cp \in CpRecord /\ n.sa \in SaRecord  BY DEF NodeOK, SaOK
<1>2. PICK c : c = [n.cp EXCEPT !.state = "RECEIVING", !.lrx = TRUE,
                !.transmit_when = TRUE, !.transmit_timer = TransmitDelay,
                !.step_timer = TRUE,
                !.using_receive_sas = FALSE, !.server_transmitting = FALSE]
  OBVIOUS
<1>3. y = [cp |-> c, sa |-> set_latest_sa_attr(n.sa, c.lki, c.lan, c.ltx, TRUE)]
  BY <1>2, Zenon DEF CP_RECEIVING
<1>4. SameSas(n.sa, y.sa)
  <2>1. PICK t : t = set_latest_sa_attr(n.sa, c.lki, c.lan, c.ltx, TRUE)  OBVIOUS
  <2>2. SameSas(n.sa, t)  BY <1>1, <2>1, SetLatestSame
  <2>3. y = [cp |-> c, sa |-> t]  BY <1>3, <2>1, Zenon
  <2> QED BY <2>2, <2>3
<1>5. y.cp = c  BY <1>3
<1> QED BY <1>1, <1>2, <1>4, <1>5 DEF CpRecord, Steady

(* SM_STATE(CP, READY). *)
LEMMA ReadyEffect ==
  ASSUME NEW n, NodeOK(n), NEW y, y = CP_READY(n)
  PROVE  /\ y.cp.state = "READY" /\ Steady(n.cp, y.cp) /\ SameFlags(n.cp, y.cp)
         /\ y.cp.server_transmitting = n.cp.server_transmitting
         /\ y.sa = n.sa
<1>1. n.cp \in CpRecord /\ n = [cp |-> n.cp, sa |-> n.sa]  BY DEF NodeOK
<1>2. /\ y.cp = [n.cp EXCEPT !.state = "READY", !.new_info = TRUE] /\ y.sa = n.sa
  BY <1>1 DEF CP_READY
<1> QED BY <1>1, <1>2 DEF CpRecord, Steady, SameFlags

(* SM_STATE(CP, TRANSMITTING): using_transmit_sa has served. *)
LEMMA TransmittingEffect ==
  ASSUME NEW n, NodeOK(n), NEW y, y = CP_TRANSMITTING(n)
  PROVE  /\ y.cp.state = "TRANSMITTING" /\ Steady(n.cp, y.cp)
         /\ y.cp.new_sak = n.cp.new_sak /\ y.cp.lki = n.cp.lki /\ y.cp.oki = n.cp.oki
         /\ y.cp.lrx = n.cp.lrx /\ y.cp.using_receive_sas = n.cp.using_receive_sas
         /\ y.cp.using_transmit_sa = FALSE
         /\ SameSas(n.sa, y.sa)
<1>1. n.cp \in CpRecord /\ n.sa \in SaRecord  BY DEF NodeOK, SaOK
<1>2. PICK c : c = [n.cp EXCEPT !.state = "TRANSMITTING",
                !.retire_when = n.cp.orx,
                !.retire_timer = IF n.cp.orx THEN RetireDelay ELSE 0,
                !.otx = FALSE, !.new_info = TRUE, !.using_transmit_sa = FALSE]
  OBVIOUS
<1>3. y = [cp |-> c, sa |-> set_old_sa_attr(n.sa, c.oki, c.oan, FALSE, c.orx)]
  BY <1>2, Zenon DEF CP_TRANSMITTING
<1>4. SameSas(n.sa, y.sa)
  <2>1. PICK t : t = set_old_sa_attr(n.sa, c.oki, c.oan, FALSE, c.orx)  OBVIOUS
  <2>2. SameSas(n.sa, t)  BY <1>1, <2>1, SetOldSame
  <2>3. y = [cp |-> c, sa |-> t]  BY <1>3, <2>1, Zenon
  <2> QED BY <2>2, <2>3
<1>5. y.cp = c  BY <1>3
<1> QED BY <1>1, <1>2, <1>4, <1>5 DEF CpRecord, Steady

(* SM_STATE(CP, RETIRE). *)
LEMMA RetireEffect ==
  ASSUME NEW n, NodeOK(n), NEW y, y = CP_RETIRE(n)
  PROVE  /\ y.cp.state = "RETIRE" /\ Steady(n.cp, y.cp)
         /\ y.cp.new_sak = n.cp.new_sak /\ y.cp.lki = n.cp.lki /\ y.cp.oki = NoKey
         /\ y.cp.lrx = n.cp.lrx /\ y.cp.using_receive_sas = n.cp.using_receive_sas
         /\ y.cp.using_transmit_sa = n.cp.using_transmit_sa
         /\ SameSas(n.sa, y.sa)
<1>1. n.cp \in CpRecord /\ n.sa \in SaRecord  BY DEF NodeOK, SaOK
<1>2. PICK c : c = [n.cp EXCEPT !.state = "RETIRE", !.oki = NoKey, !.orx = FALSE, !.otx = FALSE]
  OBVIOUS
<1>3. y = [cp |-> c, sa |-> set_old_sa_attr(n.sa, NoKey, c.oan, FALSE, FALSE)]
  BY <1>2, Zenon DEF CP_RETIRE
<1>4. SameSas(n.sa, y.sa)
  <2>1. PICK t : t = set_old_sa_attr(n.sa, NoKey, c.oan, FALSE, FALSE)  OBVIOUS
  <2>2. SameSas(n.sa, t)  BY <1>1, <2>1, SetOldSame
  <2>3. y = [cp |-> c, sa |-> t]  BY <1>3, <2>1, Zenon
  <2> QED BY <2>2, <2>3
<1>5. y.cp = c  BY <1>3
<1> QED BY <1>1, <1>2, <1>4, <1>5 DEF CpRecord, Steady

(* SM_STATE(CP, ABANDON): the latest key is gone for good. *)
LEMMA AbandonEffect ==
  ASSUME NEW n, NodeOK(n), NEW y, y = CP_ABANDON(n)
  PROVE  /\ y.cp.state = "ABANDON" /\ Steady(n.cp, y.cp)
         /\ y.cp.new_sak = FALSE /\ y.cp.lki = NoKey /\ y.cp.oki = n.cp.oki
         /\ y.cp.lrx = FALSE /\ y.cp.using_receive_sas = n.cp.using_receive_sas
         /\ y.cp.using_transmit_sa = n.cp.using_transmit_sa
         /\ y.cp.server_transmitting = n.cp.server_transmitting
         /\ Trims(n.sa, y.sa, {n.cp.lki}) /\ ~Receivable(y.sa, n.cp.lki)
<1>1. n.cp \in CpRecord /\ SaOK(n.sa) /\ n.sa \in SaRecord  BY DEF NodeOK, SaOK
<1>2. n.cp.lki \in KI /\ n.cp.lan \in AN /\ n.cp.ltx \in BOOLEAN  BY <1>1 DEF CpRecord
<1>3. PICK s1 : s1 = set_latest_sa_attr(n.sa, n.cp.lki, n.cp.lan, n.cp.ltx, FALSE)  OBVIOUS
<1>4. PICK s2 : s2 = delete_sas(s1, n.cp.lki)  OBVIOUS
<1>5. PICK s3 : s3 = set_latest_sa_attr(s2, NoKey, n.cp.lan, n.cp.ltx, FALSE)  OBVIOUS
<1>6. SameSas(n.sa, s1) /\ SaOK(s1)  BY <1>1, <1>2, <1>3, SetLatestSame, SetLatestKeeps DEF Keeps
<1>7. Trims(s1, s2, {n.cp.lki}) /\ ~Receivable(s2, n.cp.lki) /\ SaOK(s2)
  BY <1>2, <1>4, <1>6, DeleteSasTrims, DeleteSasKeeps DEF Keeps
<1>8. SameSas(s2, s3)  BY <1>5, <1>7, SetLatestSame DEF SaOK
<1>9. Trims(n.sa, s3, {n.cp.lki}) /\ ~Receivable(s3, n.cp.lki)
  BY <1>6, <1>7, <1>8 DEF Trims, Receivable, SameSas
<1>10. y.sa = s3  BY <1>3, <1>4, <1>5 DEF CP_ABANDON
<1>11. y.cp = [n.cp EXCEPT !.state = "ABANDON", !.lrx = FALSE, !.lki = NoKey, !.new_sak = FALSE]
  BY DEF CP_ABANDON
<1>12. /\ y.cp.state = "ABANDON" /\ Steady(n.cp, y.cp)
       /\ y.cp.new_sak = FALSE /\ y.cp.lki = NoKey /\ y.cp.oki = n.cp.oki
       /\ y.cp.lrx = FALSE /\ y.cp.using_receive_sas = n.cp.using_receive_sas
       /\ y.cp.using_transmit_sa = n.cp.using_transmit_sa
       /\ y.cp.server_transmitting = n.cp.server_transmitting
  BY <1>1, <1>11 DEF CpRecord, Steady
<1> QED BY <1>9, <1>10, <1>12

RxOutcome(c, s, k, m) ==
  \/ /\ s.principal /\ k # NoKey /\ s.rxsc
     /\ \E a \in AN : s.rxsa[a] = k
     /\ m.cp = [c EXCEPT !.using_receive_sas = TRUE, !.step_timer = TRUE]
     /\ SameList(s, m.sa) /\ m.sa.rxsa = s.rxsa
     /\ \E a \in m.sa.rxuse : m.sa.rxsa[a] = k
  \/ /\ m.cp = c /\ m.sa = s
     /\ ~(s.principal /\ k # NoKey /\ s.rxsc /\ \E a \in AN : s.rxsa[a] = k)

TxOutcome(c, s, k, m) ==
  \/ /\ k # NoKey
     /\ m.cp = [c EXCEPT !.using_transmit_sa = TRUE, !.step_timer = TRUE]
     /\ SameList(s, m.sa)
     /\ \E a \in m.sa.txuse : m.sa.txsa[a] = k
  \/ m.cp = [c EXCEPT !.fault = TRUE] /\ m.sa = s
  \/ m.cp = c /\ m.sa = s

(* ieee802_1x_kay_enable_rx_sas: the flag is set exactly when an SA of the *)
(* key is enabled.                                                         *)
LEMMA EnableRxEffect ==
  ASSUME NEW c \in CpRecord, NEW s \in SaRecord, NEW k \in KI,
         NEW m, m = enable_rx_sas([cp |-> c, sa |-> s], k)
  PROVE  RxOutcome(c, s, k, m)
<1>1. PICK ans : ans = RxAnsOf(s, k)  OBVIOUS
<1>2. ans = {a \in AN : k # NoKey /\ s.rxsc /\ s.rxsa[a] = k}  BY <1>1 DEF RxAnsOf
<1>3. m = IF s.principal /\ ans # {}
          THEN [cp |-> [c EXCEPT !.using_receive_sas = TRUE, !.step_timer = TRUE],
                sa |-> [s EXCEPT !.rxuse = @ \cup ans]]
          ELSE [cp |-> c, sa |-> s]
  BY <1>1 DEF enable_rx_sas
<1>4. CASE s.principal /\ ans # {}
  <2>1. m.cp = [c EXCEPT !.using_receive_sas = TRUE, !.step_timer = TRUE]
        /\ m.sa = [s EXCEPT !.rxuse = @ \cup ans]
    BY <1>3, <1>4
  <2>2. SameList(s, m.sa) /\ m.sa.rxsa = s.rxsa /\ m.sa.rxuse = s.rxuse \cup ans
    BY <2>1 DEF SaRecord, SameList
  <2>3. PICK a \in ans : TRUE  BY <1>4
  <2>4. a \in AN /\ k # NoKey /\ s.rxsc /\ s.rxsa[a] = k  BY <1>2, <2>3
  <2> QED BY <1>4, <2>1, <2>2, <2>3, <2>4 DEF RxOutcome
<1>5. CASE ~(s.principal /\ ans # {})
  BY <1>2, <1>3, <1>5 DEF RxOutcome
<1> QED BY <1>4, <1>5

(* ieee802_1x_kay_enable_tx_sas, the same; a NULL key enables nothing. *)
LEMMA EnableTxEffect ==
  ASSUME NEW c \in CpRecord, NEW s \in SaRecord, NEW k \in KI,
         NEW m, m = enable_tx_sas([cp |-> c, sa |-> s], k)
  PROVE  TxOutcome(c, s, k, m)
<1>1. PICK ans : ans = TxAnsOf(s, k)  OBVIOUS
<1>2. ans = {a \in AN : k # NoKey /\ s.txsa[a] = k}  BY <1>1 DEF TxAnsOf
<1>3. PICK null \in BOOLEAN :
        null = (s.principal /\ k = NoKey /\ \E a \in AN : s.txsa[a] # NoKey)
  OBVIOUS
<1>3a. PICK p : p = [cp |-> c, sa |-> s]  OBVIOUS
<1>3b. m = IF s.principal /\ ans # {}
           THEN [cp |-> [c EXCEPT !.using_transmit_sa = TRUE, !.step_timer = TRUE],
                 sa |-> [s EXCEPT !.txuse = @ \cup ans]]
           ELSE IF null THEN [p EXCEPT !.cp = [@ EXCEPT !.fault = TRUE]] ELSE p
  BY <1>1, <1>3, <1>3a, Zenon DEF enable_tx_sas
<1>3c. [p EXCEPT !.cp = [@ EXCEPT !.fault = TRUE]] = [cp |-> [c EXCEPT !.fault = TRUE], sa |-> s]
  <2>1. PICK f : f = [p.cp EXCEPT !.fault = TRUE]  OBVIOUS
  <2>2. [p EXCEPT !.cp = f] = [cp |-> f, sa |-> s]  BY <1>3a
  <2>3. f = [c EXCEPT !.fault = TRUE]  BY <1>3a, <2>1
  <2>4. [p EXCEPT !.cp = [@ EXCEPT !.fault = TRUE]] = [p EXCEPT !.cp = f]  BY <2>1, Zenon
  <2> QED BY <2>2, <2>3, <2>4, Zenon
<1>4. CASE s.principal /\ ans # {}
  <2>1. m.cp = [c EXCEPT !.using_transmit_sa = TRUE, !.step_timer = TRUE]
        /\ m.sa = [s EXCEPT !.txuse = @ \cup ans]
    BY <1>3b, <1>4
  <2>2. SameList(s, m.sa) /\ m.sa.txsa = s.txsa /\ m.sa.txuse = s.txuse \cup ans
    BY <2>1 DEF SaRecord, SameList
  <2>3. PICK a \in ans : TRUE  BY <1>4
  <2>4. a \in AN /\ k # NoKey /\ s.txsa[a] = k  BY <1>2, <2>3
  <2> QED BY <1>4, <2>1, <2>2, <2>3, <2>4 DEF TxOutcome
<1>5. CASE ~(s.principal /\ ans # {})
  <2>1. CASE null  BY <1>3b, <1>3c, <1>5, <2>1 DEF TxOutcome
  <2>2. CASE ~null  BY <1>3a, <1>3b, <1>5, <2>2 DEF TxOutcome
  <2> QED BY <2>1, <2>2
<1> QED BY <1>4, <1>5

(* SM_STATE(CP, RECEIVE): using_receive_sas is what it was or stands for   *)
(* the new latest key, and certainly the latter when that key is listed.   *)
LEMMA ReceiveEffect ==
  ASSUME NEW n, NodeOK(n), NEW y, y = CP_RECEIVE(n)
  PROVE  /\ y.cp.state = "RECEIVE" /\ Steady(n.cp, y.cp)
         /\ y.cp.new_sak = FALSE /\ y.cp.all_receiving = FALSE
         /\ y.cp.lki = n.cp.dki /\ y.cp.oki = n.cp.lki /\ y.cp.lrx = FALSE
         /\ y.cp.using_transmit_sa = n.cp.using_transmit_sa
         /\ y.cp.server_transmitting = n.cp.server_transmitting
         /\ SameList(n.sa, y.sa)
         /\ \/ y.cp.using_receive_sas = n.cp.using_receive_sas
            \/ RxEnabled(y) /\ Receivable(n.sa, n.cp.dki)
         /\ n.sa.principal /\ n.sa.rxsc /\ Listed(n.sa, n.cp.dki) => RxEnabled(y)
<1> DEFINE k  == n.cp.dki
           c  == [n.cp EXCEPT !.state = "RECEIVE",
                !.oki = n.cp.lki, !.oan = n.cp.lan, !.otx = n.cp.ltx, !.orx = n.cp.lrx,
                !.lki = n.cp.dki, !.lan = n.cp.dan, !.ltx = FALSE, !.lrx = FALSE]
           s1 == set_old_sa_attr(n.sa, c.oki, c.oan, c.otx, c.orx)
           s2 == set_latest_sa_attr(s1, c.lki, c.lan, FALSE, FALSE)
           s3 == create_sas(s2, c.lki)
           m  == enable_rx_sas([cp |-> c, sa |-> s3], c.lki)
<1>1. n.cp \in CpRecord /\ SaOK(n.sa) /\ n.sa \in SaRecord  BY DEF NodeOK, SaOK
<1>2. y = [m EXCEPT !.cp = [@ EXCEPT !.new_sak = FALSE, !.all_receiving = FALSE]]
  BY Zenon DEF CP_RECEIVE
<1>3. /\ c.state = "RECEIVE" /\ Steady(n.cp, c)
      /\ c.lki = k /\ c.oki = n.cp.lki /\ c.lrx = FALSE
      /\ c.using_transmit_sa = n.cp.using_transmit_sa
      /\ c.using_receive_sas = n.cp.using_receive_sas
      /\ c.server_transmitting = n.cp.server_transmitting
  BY <1>1 DEF CpRecord, Steady
<1>4. c \in CpRecord
  <2> DEFINE b  == [n.cp EXCEPT !.state = "RECEIVE",
                !.oki = n.cp.lki, !.oan = n.cp.lan, !.otx = n.cp.ltx, !.orx = n.cp.lrx]
             e  == [b EXCEPT !.lki = n.cp.dki, !.lan = n.cp.dan, !.ltx = FALSE, !.lrx = FALSE]
  <2>1. b \in CpRecord  BY <1>1, ZenonT(60) DEF CpRecord, CPStates
  <2>2. c = e  OBVIOUS
  <2> HIDE DEF b
  <2>3. e \in CpRecord  BY <1>1, <2>1, ZenonT(60) DEF CpRecord
  <2> HIDE DEF c, e
  <2> QED BY <2>2, <2>3
<1>5. c.oki \in KI /\ c.oan \in AN /\ c.otx \in BOOLEAN /\ c.orx \in BOOLEAN
      /\ c.lki \in KI /\ c.lan \in AN /\ k \in KI
  BY <1>1, <1>4 DEF CpRecord
<1> HIDE DEF c
<1>6. SaOK(s1) /\ s1 \in SaRecord /\ SameSas(n.sa, s1)
  BY <1>1, <1>5, SetOldKeeps, SetOldSame DEF Keeps, SaOK
<1> HIDE DEF s1
<1>7. SaOK(s2) /\ SameSas(s1, s2)
  BY <1>5, <1>6, SetLatestKeeps, SetLatestSame DEF Keeps
<1> HIDE DEF s2
<1>8. /\ SaOK(s3) /\ s3 \in SaRecord /\ SameList(s2, s3)
      /\ s2.principal /\ s2.rxsc /\ Listed(s2, k) => \E a \in AN : s3.rxsa[a] = k
      /\ ~Receivable(s2, k) => s3 = s2
  BY <1>3, <1>5, <1>7, CreateSasKeeps, CreateSasEffect DEF Keeps, SaOK, SameList
<1> HIDE DEF s3
<1>9. /\ SameList(n.sa, s3)
      /\ n.sa.principal /\ n.sa.rxsc /\ Listed(n.sa, k) => \E a \in AN : s3.rxsa[a] = k
      /\ ~Receivable(n.sa, k) => s3.rxsa = n.sa.rxsa
  BY <1>6, <1>7, <1>8 DEF SameList, SameSas, Listed, Receivable
<1>10. RxOutcome(c, s3, c.lki, m)  BY <1>4, <1>5, <1>8, EnableRxEffect
<1>11. m = [cp |-> m.cp, sa |-> m.sa]  BY DEF enable_rx_sas
<1> HIDE DEF m
<1>12. y.cp = [m.cp EXCEPT !.new_sak = FALSE, !.all_receiving = FALSE] /\ y.sa = m.sa
  BY <1>2, <1>11
<1>13. k # NoKey <=> k \in KN  BY <1>5, KIFacts
<1>14. CASE m.cp = [c EXCEPT !.using_receive_sas = TRUE, !.step_timer = TRUE]
            /\ s3.principal /\ k # NoKey /\ (\E a \in AN : s3.rxsa[a] = k)
            /\ SameList(s3, m.sa) /\ (\E a \in m.sa.rxuse : m.sa.rxsa[a] = k)
  <2>1. /\ y.cp.state = "RECEIVE" /\ Steady(n.cp, y.cp)
        /\ y.cp.new_sak = FALSE /\ y.cp.all_receiving = FALSE
        /\ y.cp.lki = n.cp.dki /\ y.cp.oki = n.cp.lki /\ y.cp.lrx = FALSE
        /\ y.cp.using_transmit_sa = n.cp.using_transmit_sa
        /\ y.cp.server_transmitting = n.cp.server_transmitting
    BY <1>3, <1>4, <1>12, <1>14 DEF CpRecord, Steady
  <2>2. SameList(n.sa, y.sa)  BY <1>9, <1>12, <1>14 DEF SameList
  <2>3. RxEnabled(y)  BY <1>12, <1>14, <2>1 DEF RxEnabled
  <2>4. Receivable(n.sa, k)  BY <1>9, <1>13, <1>14 DEF SameList, Receivable
  <2> QED BY <2>1, <2>2, <2>3, <2>4
<1>15. CASE m.cp = c /\ m.sa = s3
            /\ ~(s3.principal /\ k # NoKey /\ s3.rxsc /\ \E a \in AN : s3.rxsa[a] = k)
  <2>1. /\ y.cp.state = "RECEIVE" /\ Steady(n.cp, y.cp)
        /\ y.cp.new_sak = FALSE /\ y.cp.all_receiving = FALSE
        /\ y.cp.lki = n.cp.dki /\ y.cp.oki = n.cp.lki /\ y.cp.lrx = FALSE
        /\ y.cp.using_transmit_sa = n.cp.using_transmit_sa
        /\ y.cp.server_transmitting = n.cp.server_transmitting
        /\ y.cp.using_receive_sas = n.cp.using_receive_sas
    BY <1>3, <1>4, <1>12, <1>15 DEF CpRecord, Steady
  <2>2. SameList(n.sa, y.sa)  BY <1>9, <1>12, <1>15
  <2>3. ~(n.sa.principal /\ n.sa.rxsc /\ Listed(n.sa, k))
    BY <1>9, <1>13, <1>15 DEF SameList, Listed
  <2> QED BY <2>1, <2>2, <2>3
<1> QED BY <1>3, <1>10, <1>14, <1>15 DEF RxOutcome

(* SM_STATE(CP, TRANSMIT), the same of using_transmit_sa. *)
LEMMA TransmitEffect ==
  ASSUME NEW n, NodeOK(n), NEW y, y = CP_TRANSMIT(n)
  PROVE  /\ y.cp.state = "TRANSMIT" /\ Steady(n.cp, y.cp)
         /\ y.cp.new_sak = n.cp.new_sak /\ y.cp.lki = n.cp.lki /\ y.cp.oki = n.cp.oki
         /\ y.cp.lrx = n.cp.lrx /\ y.cp.using_receive_sas = n.cp.using_receive_sas
         /\ SameList(n.sa, y.sa)
         /\ \/ y.cp.using_transmit_sa = n.cp.using_transmit_sa
            \/ TxEnabled(y) /\ n.cp.lki # NoKey
<1> DEFINE k == n.cp.lki
           c == [n.cp EXCEPT !.state = "TRANSMIT", !.controlled_port = TRUE, !.ltx = TRUE]
           t == set_latest_sa_attr(n.sa, c.lki, c.lan, TRUE, c.lrx)
           m == enable_tx_sas([cp |-> c, sa |-> t], c.lki)
<1>1. n.cp \in CpRecord /\ SaOK(n.sa) /\ n.sa \in SaRecord  BY DEF NodeOK, SaOK
<1>2. y = [m EXCEPT !.cp = [@ EXCEPT !.all_receiving = FALSE, !.server_transmitting = FALSE]]
  BY Zenon DEF CP_TRANSMIT
<1>3. /\ c.state = "TRANSMIT" /\ Steady(n.cp, c) /\ SameFlags(n.cp, c) /\ c.lki = k
  BY <1>1 DEF CpRecord, Steady, SameFlags
<1>4. c \in CpRecord  BY <1>1, ZenonT(60) DEF CpRecord, CPStates
<1>5. c.lki \in KI /\ c.lan \in AN /\ c.lrx \in BOOLEAN  BY <1>4 DEF CpRecord
<1> HIDE DEF c
<1>6. SaOK(t) /\ t \in SaRecord /\ SameSas(n.sa, t)
  BY <1>1, <1>5, SetLatestKeeps, SetLatestSame DEF Keeps, SaOK
<1> HIDE DEF t
<1>7. TxOutcome(c, t, c.lki, m)  BY <1>4, <1>5, <1>6, EnableTxEffect
<1>8. m = [cp |-> m.cp, sa |-> m.sa]  BY DEF enable_tx_sas
<1> HIDE DEF m
<1>9. y.cp = [m.cp EXCEPT !.all_receiving = FALSE, !.server_transmitting = FALSE]
      /\ y.sa = m.sa
  BY <1>2, <1>8
<1>10. SameList(n.sa, y.sa)  BY <1>6, <1>7, <1>9 DEF SameList, SameSas, TxOutcome
<1>11. CASE /\ k # NoKey
            /\ m.cp = [c EXCEPT !.using_transmit_sa = TRUE, !.step_timer = TRUE]
            /\ \E a \in m.sa.txuse : m.sa.txsa[a] = k
  <2>1. /\ y.cp.state = "TRANSMIT" /\ Steady(n.cp, y.cp)
        /\ y.cp.new_sak = n.cp.new_sak /\ y.cp.lki = n.cp.lki /\ y.cp.oki = n.cp.oki
        /\ y.cp.lrx = n.cp.lrx /\ y.cp.using_receive_sas = n.cp.using_receive_sas
    BY <1>3, <1>4, <1>9, <1>11 DEF CpRecord, Steady, SameFlags
  <2>2. TxEnabled(y)  BY <1>9, <1>11, <2>1 DEF TxEnabled
  <2> QED BY <1>10, <1>11, <2>1, <2>2
<1>12. CASE m.cp = [c EXCEPT !.fault = TRUE] \/ m.cp = c
  <2>1. /\ y.cp.state = "TRANSMIT" /\ Steady(n.cp, y.cp)
        /\ y.cp.new_sak = n.cp.new_sak /\ y.cp.lki = n.cp.lki /\ y.cp.oki = n.cp.oki
        /\ y.cp.lrx = n.cp.lrx /\ y.cp.using_receive_sas = n.cp.using_receive_sas
        /\ y.cp.using_transmit_sa = n.cp.using_transmit_sa
    BY <1>3, <1>4, <1>9, <1>12 DEF CpRecord, Steady, SameFlags
  <2> QED BY <1>10, <2>1
<1> QED BY <1>3, <1>7, <1>11, <1>12 DEF TxOutcome

(* The connection is as changed after the entry function as before. *)
LEMMA SteadyConnect ==
  ASSUME NEW c, NEW d, Steady(c, d)
  PROVE  changed_connect(d) <=> changed_connect(c)
BY DEF Steady, changed_connect, changed_cipher
==============================================================================
