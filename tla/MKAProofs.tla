------------------------------- MODULE MKAProofs -------------------------------
(***************************************************************************)
(* What holds of the two KaYs of module MKA for every bound: the types,    *)
(* one AN per SAK on both nodes, and that the key server distributes no    *)
(* SAK it has freed.                                                       *)
(*                                                                         *)
(* The inductive invariant Inv says of each node that its store is counted *)
(* (SaOK, from CPMachineProofs), that every SAK is listed under the AN its *)
(* key number gives and every SA is that of a listed SAK (Stored), and     *)
(* that the node fits its role: on the key server the counters dist_kn and *)
(* dist_an follow the SAK CP was given last, CP holds no key that was not  *)
(* distributed and names none that is listed while it is in a plain state  *)
(* (Server), and new_key is listed while it is to be distributed; nobody   *)
(* else is ever asked to generate or to distribute.  Of the MKPDUs under   *)
(* way it says that a SAK travels with its AN (MsgOK).                     *)
(*                                                                         *)
(* The proof goes along the calls of a callback: each operator of KaySa,   *)
(* CPMachine and MKA maps a right KaY (KayOK) to a right KaY.              *)
(***************************************************************************)
EXTENDS MKA, CPMachineProofs

(* The AN of a SAK: kay->dist_an counts along with kay->dist_kn. *)
AnOf(k) == (k - 1) % 4

(* Every listed SAK has its AN, and every SA is that of a listed SAK. *)
Placed(s) ==
  \A k \in KN :
    /\ s.sak[k] \in {NoAN, AnOf(k)}
    /\ \A b \in AN : s.rxsa[b] = k \/ s.txsa[b] = k => s.sak[k] = b

(* Without a principal participant there is no SAK. *)
Owned(s) == ~s.principal => \A k \in KN : s.sak[k] = NoAN

(* The store is in order. *)
Stored(s) == Placed(s) /\ Owned(s)

(* participant->new_key is on the list. *)
NewKeyListed(s) == s.new_key # NoKey => Listed(s, s.new_key)

-----------------------------------------------------------------------------
(* The store. *)

(* t has the SAKs of s, and no SA but those of s and of SAKs under their AN. *)
Installs(s, t) ==
  /\ t.principal = s.principal /\ t.sak = s.sak /\ t.new_key = s.new_key
  /\ \A k \in KN, b \in AN :
       t.rxsa[b] = k \/ t.txsa[b] = k => s.rxsa[b] = k \/ s.txsa[b] = k \/ s.sak[k] = b

(* t is s without SAK k. *)
Deletes(s, t, k) ==
  /\ t.principal = s.principal
  /\ t.new_key = NewKeyAfterDelete(s, k)
  /\ \A j \in KN : t.sak[j] = IF j = k THEN NoAN ELSE s.sak[j]
  /\ \A j \in KN, b \in AN :
       t.rxsa[b] = j \/ t.txsa[b] = j => j # k /\ (s.rxsa[b] = j \/ s.txsa[b] = j)

(* A store with the same keys and SAs. *)
LEMMA SameInstalls ==
  ASSUME NEW s, NEW t, t.principal = s.principal, t.sak = s.sak, t.new_key = s.new_key,
         t.rxsa = s.rxsa, t.txsa = s.txsa
  PROVE  Installs(s, t)
BY DEF Installs

(* Installations compose. *)
LEMMA InstallsTransitive ==
  ASSUME NEW r, NEW s, NEW t, Installs(r, s), Installs(s, t)
  PROVE  Installs(r, t)
<1>1. t.principal = r.principal /\ t.sak = r.sak /\ t.new_key = r.new_key  BY DEF Installs
<1>2. ASSUME NEW k \in KN, NEW b \in AN, t.rxsa[b] = k \/ t.txsa[b] = k
      PROVE  r.rxsa[b] = k \/ r.txsa[b] = k \/ r.sak[k] = b
  BY <1>2 DEF Installs
<1> QED BY <1>1, <1>2 DEF Installs

(* What is installed is placed. *)
LEMMA InstallsStored ==
  ASSUME NEW s, NEW t, Installs(s, t), Stored(s)
  PROVE  Stored(t)
BY DEF Installs, Stored, Placed, Owned

(* What remains is placed. *)
LEMMA DeletesStored ==
  ASSUME NEW s, NEW t, NEW k, Deletes(s, t, k), Stored(s)
  PROVE  Stored(t)
<1>1. Owned(t)  BY DEF Deletes, Stored, Owned
<1>2. ASSUME NEW j \in KN
      PROVE  /\ t.sak[j] \in {NoAN, AnOf(j)}
             /\ \A b \in AN : t.rxsa[b] = j \/ t.txsa[b] = j => t.sak[j] = b
  BY DEF Deletes, Stored, Placed
<1> QED BY <1>1, <1>2 DEF Stored, Placed

(* The attributes of the keys are no keys. *)
LEMMA AttrInstalls ==
  ASSUME NEW s \in SaRecord, NEW i, NEW a, NEW tx, NEW rx
  PROVE  /\ Installs(s, set_latest_sa_attr(s, i, a, tx, rx))
         /\ Installs(s, set_old_sa_attr(s, i, a, tx, rx))
<1>1. Installs(s, set_latest_sa_attr(s, i, a, tx, rx))
  <2>1. PICK t : t = set_latest_sa_attr(s, i, a, tx, rx)  OBVIOUS
  <2>2. /\ t.principal = s.principal /\ t.sak = s.sak /\ t.new_key = s.new_key
        /\ t.rxsa = s.rxsa /\ t.txsa = s.txsa
    BY <2>1 DEF set_latest_sa_attr, SaRecord
  <2> QED BY <2>1, <2>2, SameInstalls
<1>2. Installs(s, set_old_sa_attr(s, i, a, tx, rx))
  <2>1. PICK t : t = set_old_sa_attr(s, i, a, tx, rx)  OBVIOUS
  <2>2. /\ t.principal = s.principal /\ t.sak = s.sak /\ t.new_key = s.new_key
        /\ t.rxsa = s.rxsa /\ t.txsa = s.txsa
    BY <2>1 DEF set_old_sa_attr, SaRecord
  <2> QED BY <2>1, <2>2, SameInstalls
<1> QED BY <1>1, <1>2

(* Deleting one SA. *)
LEMMA DeleteOneInstalls ==
  ASSUME NEW s, SaOK(s), NEW a \in AN
  PROVE  /\ SaOK(delete_receive_sa(s, a)) /\ Installs(s, delete_receive_sa(s, a))
         /\ SaOK(delete_transmit_sa(s, a)) /\ Installs(s, delete_transmit_sa(s, a))
<1>1. s \in SaRecord /\ s.rxsa \in [AN -> KI] /\ s.txsa \in [AN -> KI]
  BY DEF SaOK, SaRecord
<1>2. SaOK(delete_receive_sa(s, a)) /\ SaOK(delete_transmit_sa(s, a))
  BY DeleteReceiveKeeps, DeleteTransmitKeeps DEF Keeps
<1>3. Installs(s, delete_receive_sa(s, a))
  <2>1. PICK t : t = delete_receive_sa(s, a)  OBVIOUS
  <2>2. /\ t.principal = s.principal /\ t.sak = s.sak /\ t.new_key = s.new_key
        /\ t.txsa = s.txsa /\ t.rxsa = [s.rxsa EXCEPT ![a] = NoKey]
    BY <1>1, <2>1, DeleteReceiveFrame
  <2>3. \A b \in AN : t.rxsa[b] \in {s.rxsa[b], NoKey}  BY <1>1, <2>2
  <2> QED BY <2>1, <2>2, <2>3, KIFacts DEF Installs
<1>4. Installs(s, delete_transmit_sa(s, a))
  <2>1. PICK t : t = delete_transmit_sa(s, a)  OBVIOUS
  <2>2. /\ t.principal = s.principal /\ t.sak = s.sak /\ t.new_key = s.new_key
        /\ t.rxsa = s.rxsa /\ t.txsa = [s.txsa EXCEPT ![a] = NoKey]
    BY <1>1, <2>1, DeleteTransmitFrame
  <2>3. \A b \in AN : t.txsa[b] \in {s.txsa[b], NoKey}  BY <1>1, <2>2
  <2> QED BY <2>1, <2>2, <2>3, KIFacts DEF Installs
<1> QED BY <1>2, <1>3, <1>4

(* ieee802_1x_kay_create_sas installs the SAK under its AN. *)
LEMMA CreateInstalls ==
  ASSUME NEW s, SaOK(s), NEW k \in KI
  PROVE  Installs(s, create_sas(s, k))
<1>0. s \in SaRecord  BY DEF SaOK
<1>1. CASE ~(s.principal /\ Listed(s, k))
  BY <1>1, SameInstalls DEF create_sas
<1>2. CASE s.principal /\ Listed(s, k)
  <2>1. PICK a : a = s.sak[k]  OBVIOUS
  <2>2. k \in KN /\ a \in AN  BY <1>0, <1>2, <2>1, KIFacts DEF SaRecord, Listed
  <2>3. PICK r1 : r1 = delete_receive_sa(s, a)  OBVIOUS
  <2>4. PICK r2 : r2 = init_receive_sa(r1, a, k)  OBVIOUS
  <2>5. PICK rx : rx = IF s.rxsc THEN r2 ELSE s  OBVIOUS
  <2>6. PICK t1 : t1 = delete_transmit_sa(rx, a)  OBVIOUS
  <2>7. PICK t2 : t2 = init_transmit_sa(t1, a, k)  OBVIOUS
  <2>8. PICK t : t = [t2 EXCEPT !.to_use_sak = TRUE]  OBVIOUS
  <2>9. create_sas(s, k) = t
    BY <1>2, <2>1, <2>3, <2>4, <2>5, <2>6, <2>7, <2>8, Zenon DEF create_sas
  <2>10. SaOK(r1) /\ Installs(s, r1)  BY <2>2, <2>3, DeleteOneInstalls
  <2>11. r1.sak = s.sak /\ r1.rxsa[a] = NoKey
    <3>1. r1.sak = s.sak /\ r1.rxsa = [s.rxsa EXCEPT ![a] = NoKey]
      BY <1>0, <2>2, <2>3, DeleteReceiveFrame
    <3> QED BY <1>0, <2>2, <3>1 DEF SaRecord
  <2>12. Listed(r1, k)  BY <1>2, <2>11 DEF Listed
  <2>13. SaOK(r2)  BY <2>2, <2>4, <2>10, <2>11, <2>12, InitReceiveKeeps DEF Keeps
  <2>14. Installs(r1, r2)
    <3>1. r1 \in SaRecord  BY <2>10 DEF SaOK
    <3>2. /\ r2.principal = r1.principal /\ r2.sak = r1.sak /\ r2.new_key = r1.new_key
          /\ r2.txsa = r1.txsa /\ r2.rxsa = [r1.rxsa EXCEPT ![a] = k]
      BY <2>4, <3>1 DEF init_receive_sa, SaRecord
    <3>3. \A b \in AN : b # a => r2.rxsa[b] = r1.rxsa[b]  BY <3>1, <3>2 DEF SaRecord
    <3>4. r2.rxsa[a] = k  BY <2>2, <3>1, <3>2 DEF SaRecord
    <3>5. r1.sak[k] = a  BY <2>1, <2>11
    <3> QED BY <3>2, <3>3, <3>4, <3>5 DEF Installs
  <2>15. SaOK(rx) /\ Installs(s, rx)
    BY <2>5, <2>10, <2>13, <2>14, InstallsTransitive, SameInstalls
  <2>16. SaOK(t1) /\ Installs(rx, t1)  BY <2>2, <2>6, <2>15, DeleteOneInstalls
  <2>17. Installs(s, t1)  BY <2>15, <2>16, InstallsTransitive
  <2>18. t1.sak[k] = a  BY <2>1, <2>17 DEF Installs
  <2>19. Installs(t1, t)
    <3>1. t1 \in SaRecord  BY <2>16 DEF SaOK
    <3>2. /\ t.principal = t1.principal /\ t.sak = t1.sak /\ t.new_key = t1.new_key
          /\ t.rxsa = t1.rxsa /\ t.txsa = [t1.txsa EXCEPT ![a] = k]
      BY <2>7, <2>8, <3>1 DEF init_transmit_sa, SaRecord
    <3>3. \A b \in AN : b # a => t.txsa[b] = t1.txsa[b]  BY <3>1, <3>2 DEF SaRecord
    <3>4. t.txsa[a] = k  BY <2>2, <3>1, <3>2 DEF SaRecord
    <3> QED BY <2>18, <3>2, <3>3, <3>4 DEF Installs
  <2> QED BY <2>9, <2>17, <2>19, InstallsTransitive
<1> QED BY <1>1, <1>2

(* t is s without the SAs of k under AN a. *)
Less(s, t, a, k) ==
  /\ t.sak = s.sak /\ t.principal = s.principal
  /\ t.rxsa[a] # k /\ t.txsa[a] # k
  /\ \A b \in AN : t.rxsa[b] \in {s.rxsa[b], NoKey} /\ t.txsa[b] \in {s.txsa[b], NoKey}

(* One turn of the loop over the SAs. *)
LEMMA DeleteAtLess ==
  ASSUME NEW s, SaOK(s), NEW a \in AN, NEW k \in KN
  PROVE  SaOK(DeleteSasAt(s, a, k)) /\ Less(s, DeleteSasAt(s, a, k), a, k)
BY DeleteSasAtKeeps DEF Less

(* ieee802_1x_kay_delete_sas takes the SAK off the list, with its SAs. *)
LEMMA DeleteSasDeletes ==
  ASSUME NEW s, SaOK(s), Stored(s), NEW k \in KI, NEW t, t = delete_sas(s, k)
  PROVE  /\ k \notin KN \/ ~s.principal => t = s
         /\ k \in KN /\ s.principal => Deletes(s, t, k)
<1>1. CASE ~s.principal \/ k \notin KN
  BY <1>1 DEF delete_sas
<1>2. CASE s.principal /\ k \in KN
  <2> k \in KN  BY <1>2
  <2>0. 0 \in AN /\ 1 \in AN /\ 2 \in AN /\ 3 \in AN  BY KIFacts
  <2>a. PICK d0 : d0 = DeleteSasAt(s, 0, k)  OBVIOUS
  <2>b. PICK d1 : d1 = DeleteSasAt(d0, 1, k)  OBVIOUS
  <2>c. PICK d2 : d2 = DeleteSasAt(d1, 2, k)  OBVIOUS
  <2>d. PICK d3 : d3 = DeleteSasAt(d2, 3, k)  OBVIOUS
  <2>e. PICK d : d = [d3 EXCEPT !.new_key = NewKeyAfterDelete(s, k)]  OBVIOUS
  <2>1. SaOK(d0) /\ Less(s, d0, 0, k)  BY <2>0, <2>a, DeleteAtLess
  <2>2. SaOK(d1) /\ Less(d0, d1, 1, k)  BY <2>0, <2>1, <2>b, DeleteAtLess
  <2>3. SaOK(d2) /\ Less(d1, d2, 2, k)  BY <2>0, <2>2, <2>c, DeleteAtLess
  <2>4. SaOK(d3) /\ Less(d2, d3, 3, k)  BY <2>0, <2>3, <2>d, DeleteAtLess
  <2>5. /\ d3.sak = s.sak /\ d3.principal = s.principal
        /\ \A b \in AN : d3.rxsa[b] \in {s.rxsa[b], NoKey} /\ d3.txsa[b] \in {s.txsa[b], NoKey}
    BY <2>1, <2>2, <2>3, <2>4 DEF Less
  <2>6. \A b \in AN : d3.rxsa[b] # k /\ d3.txsa[b] # k
    BY <2>1, <2>2, <2>3, <2>4, KIFacts DEF Less
  <2>7. d3 \in SaRecord  BY <2>4 DEF SaOK
  <2>8. NewKeyAfterDelete(s, k) \in KI
    BY KIFacts DEF NewKeyAfterDelete, SaOK, SaRecord
  <2>9. /\ d \in SaRecord /\ d.sak = s.sak /\ d.principal = s.principal
        /\ d.new_key = NewKeyAfterDelete(s, k) /\ d.rxsa = d3.rxsa /\ d.txsa = d3.txsa
    BY <2>5, <2>7, <2>8, <2>e DEF SaRecord
  <2>10. s.sak \in [KN -> AN \cup {NoAN}]  BY DEF SaOK, SaRecord
  <2>11. /\ t.principal = s.principal /\ t.new_key = NewKeyAfterDelete(s, k)
         /\ t.rxsa = d3.rxsa /\ t.txsa = d3.txsa
         /\ \A j \in KN : t.sak[j] = IF j = k THEN NoAN ELSE s.sak[j]
    <3>1. CASE Listed(s, k)
      <4>1. t = [d EXCEPT !.sak  = [@ EXCEPT ![k] = NoAN],
                          !.user = deinit_data_key(@, k)]
        BY <1>2, <2>a, <2>b, <2>c, <2>d, <2>e, <3>1, Zenon DEF delete_sas
      <4>2. /\ t.sak = [s.sak EXCEPT ![k] = NoAN] /\ t.principal = d.principal
            /\ t.new_key = d.new_key /\ t.rxsa = d.rxsa /\ t.txsa = d.txsa
        BY <2>9, <4>1 DEF SaRecord
      <4> QED BY <2>9, <2>10, <4>2
    <3>2. CASE ~Listed(s, k)
      <4>1. t = d
        BY <1>2, <2>a, <2>b, <2>c, <2>d, <2>e, <3>2, Zenon DEF delete_sas
      <4> QED BY <2>9, <3>2, <4>1 DEF Listed
    <3> QED BY <3>1, <3>2
  <2>12. NoKey \notin KN  BY KIFacts
  <2>13. ASSUME NEW j \in KN, NEW b \in AN, t.rxsa[b] = j \/ t.txsa[b] = j
         PROVE  j # k /\ (s.rxsa[b] = j \/ s.txsa[b] = j)
    BY <2>5, <2>6, <2>11, <2>12, <2>13
  <2> QED BY <1>2, <2>11, <2>13 DEF Deletes
<1> QED BY <1>1, <1>2

(* The loss of the peer deletes SAs, and no SAK. *)
LEMMA ExpiryInstalls ==
  ASSUME NEW s, SaOK(s)
  PROVE  LET t == [delete_transmit_sas(deinit_receive_sc(s)) EXCEPT !.to_use_sak = FALSE]
         IN  SaOK(t) /\ Installs(s, t)
<1>0. 0 \in AN /\ 1 \in AN /\ 2 \in AN /\ 3 \in AN  BY KIFacts
<1>1. PICK d0 : d0 = delete_receive_sa(s, 0)  OBVIOUS
<1>2. PICK d1 : d1 = delete_receive_sa(d0, 1)  OBVIOUS
<1>3. PICK d2 : d2 = delete_receive_sa(d1, 2)  OBVIOUS
<1>4. PICK d3 : d3 = delete_receive_sa(d2, 3)  OBVIOUS
<1>5. PICK r : r = deinit_receive_sc(s)  OBVIOUS
<1>6. r = IF s.rxsc THEN [d3 EXCEPT !.rxsc = FALSE] ELSE s
  BY <1>1, <1>2, <1>3, <1>4, <1>5, Zenon DEF deinit_receive_sc
<1>7. SaOK(d0) /\ Installs(s, d0)  BY <1>0, <1>1, DeleteOneInstalls
<1>8. SaOK(d1) /\ Installs(s, d1)  BY <1>0, <1>2, <1>7, DeleteOneInstalls, InstallsTransitive
<1>9. SaOK(d2) /\ Installs(s, d2)  BY <1>0, <1>3, <1>8, DeleteOneInstalls, InstallsTransitive
<1>10. SaOK(d3) /\ Installs(s, d3)  BY <1>0, <1>4, <1>9, DeleteOneInstalls, InstallsTransitive
<1>11. SaOK(r) /\ Installs(s, r)
  <2>1. SaOK(r)  BY <1>5, DeinitReceiveScKeeps DEF Keeps
  <2>2. PICK q : q = [d3 EXCEPT !.rxsc = FALSE]  OBVIOUS
  <2>3. /\ q.principal = d3.principal /\ q.sak = d3.sak /\ q.new_key = d3.new_key
        /\ q.rxsa = d3.rxsa /\ q.txsa = d3.txsa
    BY <1>10, <2>2 DEF SaOK, SaRecord
  <2>4. Installs(s, q)  BY <1>10, <2>3, SameInstalls, InstallsTransitive
  <2>5. Installs(s, s)  BY SameInstalls
  <2> QED BY <1>6, <2>1, <2>2, <2>4, <2>5
<1>12. PICK e0 : e0 = delete_transmit_sa(r, 0)  OBVIOUS
<1>13. PICK e1 : e1 = delete_transmit_sa(e0, 1)  OBVIOUS
<1>14. PICK e2 : e2 = delete_transmit_sa(e1, 2)  OBVIOUS
<1>15. PICK e3 : e3 = delete_transmit_sa(e2, 3)  OBVIOUS
<1>16. SaOK(e0) /\ Installs(s, e0)  BY <1>0, <1>11, <1>12, DeleteOneInstalls, InstallsTransitive
<1>17. SaOK(e1) /\ Installs(s, e1)  BY <1>0, <1>13, <1>16, DeleteOneInstalls, InstallsTransitive
<1>18. SaOK(e2) /\ Installs(s, e2)  BY <1>0, <1>14, <1>17, DeleteOneInstalls, InstallsTransitive
<1>19. SaOK(e3) /\ Installs(s, e3)  BY <1>0, <1>15, <1>18, DeleteOneInstalls, InstallsTransitive
<1>20. delete_transmit_sas(r) = e3
  BY <1>12, <1>13, <1>14, <1>15, Zenon DEF delete_transmit_sas
<1>21. PICK t : t = [e3 EXCEPT !.to_use_sak = FALSE]  OBVIOUS
<1>22. /\ t \in SaRecord /\ t.principal = e3.principal /\ t.sak = e3.sak
       /\ t.new_key = e3.new_key /\ t.rxsa = e3.rxsa /\ t.txsa = e3.txsa /\ t.user = e3.user
  BY <1>19, <1>21 DEF SaOK, SaRecord
<1>23. SaOK(t)  BY <1>19, <1>22, SameStoreKeeps DEF Keeps
<1>24. Installs(s, t)  BY <1>19, <1>22, SameInstalls, InstallsTransitive
<1> QED BY <1>5, <1>20, <1>21, <1>23, <1>24

(* A SAK that is not listed is freed. *)
LEMMA UnlistedFreed ==
  ASSUME NEW s, SaOK(s), Placed(s), NEW k \in KN, s.sak[k] = NoAN
  PROVE  s.user[k] = 0
<1>1. s \in SaRecord /\ CountedAt(s.user[k], References(s, k))
  BY DEF SaOK, ReferencesCounted
<1>2. NoAN \notin AN /\ 0 \in AN /\ 1 \in AN /\ 2 \in AN /\ 3 \in AN  BY KIFacts
<1>3. \A b \in AN : s.rxsa[b] # k /\ s.txsa[b] # k  BY <1>2 DEF Placed
<1>4. References(s, k) = 0  BY <1>2, <1>3 DEF References, InstalledAt, One
<1> QED BY <1>1, <1>4 DEF CountedAt

(* A listed one is not. *)
LEMMA ListedKept ==
  ASSUME NEW s, SaOK(s), NEW k, Listed(s, k)
  PROVE  s.user[k] > 0
<1>1. k \in KN /\ s.sak[k] # NoAN  BY DEF Listed
<1>2. s \in SaRecord /\ CountedAt(s.user[k], References(s, k))
  BY <1>1 DEF SaOK, ReferencesCounted
<1>3. InstalledAt(s.rxsa, k) \in Nat /\ InstalledAt(s.txsa, k) \in Nat
  BY <1>1, <1>2, InstalledAtUpdate, KIFacts DEF SaRecord
<1> QED BY <1>1, <1>2, <1>3 DEF CountedAt, References, One

(* A SAK is added under its AN. *)
LEMMA AddSakStored ==
  ASSUME NEW s, SaOK(s), Stored(s), s.principal, NEW k \in KN, s.sak[k] = NoAN
  PROVE  LET t == AddSak(s, k, AnOf(k))
         IN  /\ SaOK(t) /\ Stored(t) /\ t.principal = s.principal
             /\ t.new_key = s.new_key /\ t.rxsc = s.rxsc
             /\ \A j \in KN : t.sak[j] = IF j = k THEN AnOf(k) ELSE s.sak[j]
<1>1. AnOf(k) \in AN /\ NoAN \notin AN  BY MaxKNAssumption, KIFacts DEF AnOf, KN, AN
<1>2. s \in SaRecord /\ s.sak \in [KN -> AN \cup {NoAN}]  BY DEF SaOK, SaRecord
<1>3. PICK t : t = AddSak(s, k, AnOf(k))  OBVIOUS
<1>4. s.user[k] = 0  BY UnlistedFreed DEF Stored
<1>5. SaOK(t)  BY <1>1, <1>3, <1>4, AddSakOK
<1>6. /\ t.principal = s.principal /\ t.new_key = s.new_key /\ t.rxsc = s.rxsc
      /\ t.rxsa = s.rxsa /\ t.txsa = s.txsa /\ t.sak = [s.sak EXCEPT ![k] = AnOf(k)]
  BY <1>2, <1>3 DEF AddSak, SaRecord
<1>7. \A j \in KN : t.sak[j] = IF j = k THEN AnOf(k) ELSE s.sak[j]  BY <1>2, <1>6
<1>8. \A b \in AN : s.rxsa[b] # k /\ s.txsa[b] # k  BY <1>1 DEF Stored, Placed
<1>9. ASSUME NEW j \in KN
      PROVE  /\ t.sak[j] \in {NoAN, AnOf(j)}
             /\ \A b \in AN : t.rxsa[b] = j \/ t.txsa[b] = j => t.sak[j] = b
  BY <1>6, <1>7, <1>8 DEF Stored, Placed
<1>10. Stored(t)  BY <1>6, <1>9 DEF Stored, Placed, Owned
<1> QED BY <1>3, <1>5, <1>6, <1>7, <1>10

(* The store of a new participant. *)
LEMMA FreshStored ==
  ASSUME NEW p \in BOOLEAN
  PROVE  LET s == FreshSa(p)
         IN  /\ SaOK(s) /\ Stored(s) /\ s.principal = p /\ s.new_key = NoKey
             /\ \A k : ~Listed(s, k)
<1>1. SaOK(FreshSa(p))  BY FreshSaOK
<1> QED BY <1>1, KIFacts DEF FreshSa, Stored, Placed, Owned, Listed

-----------------------------------------------------------------------------
(* The passes of CP. *)

(* What holds of the key server's CP and store: the keys CP holds and the  *)
(* listed ones were distributed, a new one is none of those CP holds, and  *)
(* in the plain states the keys CP still names are deleted.                *)
Server(c, s) ==
  /\ ~c.chgd_server /\ c.current_cipher = c.cipher /\ c.state # "INIT"
  /\ c.lki <= c.dki /\ c.oki <= c.dki
  /\ c.new_sak => c.lki < c.dki /\ c.oki < c.dki
  /\ c.state \in Plain => ~Listed(s, c.lki) /\ ~Listed(s, c.oki)
  /\ s.new_key \in {NoKey, c.dki}
  /\ \A k \in KN : s.sak[k] # NoAN => k <= c.dki

(* The key server stays one; while it is connected it does not lose the    *)
(* SAK it distributes.                                                     *)
Serves(n, y) ==
  Server(n.cp, n.sa) =>
    /\ Server(y.cp, y.sa)
    /\ n.cp.connect = "SECURE" /\ NewKeyListed(n.sa) => NewKeyListed(y.sa)

(* What a pass does to a node. *)
Advances(n, y) ==
  /\ NodeOK(y) /\ Stored(y.sa)
  /\ y.sa.principal = n.sa.principal
  /\ y.cp.connect = n.cp.connect /\ y.cp.dki = n.cp.dki
  /\ Serves(n, y)

(* Passes compose. *)
LEMMA AdvancesTransitive ==
  ASSUME NEW n, NEW m, NEW y, Advances(n, m), Advances(m, y)
  PROVE  Advances(n, y)
BY DEF Advances, Serves

(* A pass that enters no state. *)
LEMMA AdvancesReflexive ==
  ASSUME NEW n, NodeOK(n), Stored(n.sa)
  PROVE  Advances(n, n)
BY DEF Advances, Serves

(* The keys CP holds are numbers. *)
LEMMA KeyNumbers ==
  ASSUME NEW c \in CpRecord
  PROVE  c.lki \in KI /\ c.oki \in KI /\ c.dki \in KI /\ KI \subseteq Int /\ NoKey <= c.dki
BY MaxKNAssumption DEF CpRecord, KI, NoKey

(* An entry function that installs SAs, from a state in which CP may hold  *)
(* keys: it keeps the keys it holds, takes up the new one or drops some.   *)
LEMMA InstallAdvances ==
  ASSUME NEW n, NodeOK(n), Stored(n.sa), NEW y, NodeOK(y),
         Steady(n.cp, y.cp), y.cp.state \notin Plain, Installs(n.sa, y.sa),
         y.cp.new_sak => n.cp.new_sak,
         \/ y.cp.lki \in {n.cp.lki, NoKey} /\ y.cp.oki \in {n.cp.oki, NoKey}
         \/ y.cp.lki = n.cp.dki /\ y.cp.oki = n.cp.lki /\ ~y.cp.new_sak
  PROVE  Advances(n, y)
<1>1. Stored(y.sa) /\ y.sa.principal = n.sa.principal
  BY InstallsStored DEF Installs
<1>2. y.cp.connect = n.cp.connect /\ y.cp.dki = n.cp.dki  BY DEF Steady
<1>3. ASSUME Server(n.cp, n.sa) PROVE Server(y.cp, y.sa)
  <2>1. n.cp \in CpRecord  BY DEF NodeOK
  <2>2. /\ n.cp.lki \in Int /\ n.cp.oki \in Int /\ n.cp.dki \in Int /\ NoKey <= n.cp.dki
        /\ (n.cp.lki < n.cp.dki => NoKey < n.cp.dki)
    BY <2>1, KeyNumbers, MaxKNAssumption DEF KI, NoKey
  <2>3. /\ y.cp.lki <= y.cp.dki /\ y.cp.oki <= y.cp.dki
        /\ y.cp.new_sak => y.cp.lki < y.cp.dki /\ y.cp.oki < y.cp.dki
    BY <1>2, <1>3, <2>2 DEF Server
  <2>4. ~y.cp.chgd_server /\ y.cp.current_cipher = y.cp.cipher /\ y.cp.state # "INIT"
    BY <1>3 DEF Steady, Server, Plain
  <2>5. y.sa.new_key \in {NoKey, y.cp.dki} /\ \A k \in KN : y.sa.sak[k] # NoAN => k <= y.cp.dki
    BY <1>2, <1>3 DEF Installs, Server
  <2> QED BY <2>3, <2>4, <2>5 DEF Server
<1>4. NewKeyListed(n.sa) => NewKeyListed(y.sa)  BY DEF Installs, NewKeyListed, Listed
<1> QED BY <1>1, <1>2, <1>3, <1>4 DEF Advances, Serves

(* The connection of a key server is changed when it is no longer secure. *)
LEMMA ServerConnect ==
  ASSUME NEW c, NEW s, Server(c, s)
  PROVE  changed_connect(c) <=> c.connect # "SECURE"
BY DEF Server, changed_connect, changed_cipher

(* A deleted key is not the one to distribute, if it is an older one. *)
LEMMA DeletesNewKey ==
  ASSUME NEW s, NEW t, NEW k, Deletes(s, t, k)
  PROVE  /\ t.new_key \in {NoKey, s.new_key}
         /\ NewKeyListed(s) /\ s.new_key # k => NewKeyListed(t)
         /\ NewKeyListed(s) /\ ~Listed(s, k) => NewKeyListed(t)
         /\ \A j : Listed(t, j) => Listed(s, j)
         /\ ~Listed(t, k)
<1>1. t.new_key \in {NoKey, s.new_key}  BY DEF Deletes, NewKeyAfterDelete
<1>2. \A j : Listed(t, j) <=> Listed(s, j) /\ j # k  BY DEF Deletes, Listed
<1> QED BY <1>1, <1>2 DEF NewKeyListed

(* ieee802_1x_kay_delete_sas, called by CP. *)
LEMMA DeleteSasEffect ==
  ASSUME NEW s, SaOK(s), Stored(s), NEW k \in KI, NEW t, t = delete_sas(s, k)
  PROVE  /\ SaOK(t) /\ Stored(t) /\ t.principal = s.principal
         /\ t.new_key \in {NoKey, s.new_key}
         /\ NewKeyListed(s) /\ s.new_key # k => NewKeyListed(t)
         /\ NewKeyListed(s) /\ ~Listed(s, k) => NewKeyListed(t)
         /\ \A j : Listed(t, j) => Listed(s, j)
         /\ ~Listed(t, k)
<1>1. SaOK(t)  BY DeleteSasKeeps DEF Keeps
<1>2. CASE k \notin KN \/ ~s.principal
  <2>1. t = s  BY <1>2, DeleteSasDeletes
  <2>2. ~Listed(s, k)  BY <1>2 DEF Listed, Stored, Owned
  <2> QED BY <1>1, <2>1, <2>2
<1>3. CASE k \in KN /\ s.principal
  <2>1. Deletes(s, t, k)  BY <1>3, DeleteSasDeletes
  <2> QED BY <1>1, <2>1, DeletesStored, DeletesNewKey DEF Deletes
<1> QED BY <1>2, <1>3

(* SM_STATE(CP, CHANGE): the keys CP holds are deleted. *)
LEMMA ChangeAdvances ==
  ASSUME NEW n, NodeOK(n), Stored(n.sa), NEW y, y = CP_CHANGE(n),
         n.cp.state \in Plain \/ changed_connect(n.cp)
  PROVE  Advances(n, y)
<1>1. NodeOK(y)  BY ChangeFollows DEF Follows
<1>2. n.cp \in CpRecord /\ SaOK(n.sa)  BY DEF NodeOK
<1>3. n.cp.lki \in KI /\ n.cp.oki \in KI  BY <1>2, KeyNumbers
<1>4. PICK d : d = delete_sas(n.sa, n.cp.lki)  OBVIOUS
<1>5. PICK t : t = delete_sas(d, n.cp.oki)  OBVIOUS
<1>6. y.sa = t  BY <1>4, <1>5 DEF CP_CHANGE
<1>7. /\ SaOK(d) /\ Stored(d) /\ d.principal = n.sa.principal
      /\ d.new_key \in {NoKey, n.sa.new_key}
      /\ NewKeyListed(n.sa) /\ ~Listed(n.sa, n.cp.lki) => NewKeyListed(d)
      /\ \A j : Listed(d, j) => Listed(n.sa, j)
      /\ ~Listed(d, n.cp.lki)
  BY <1>2, <1>3, <1>4, DeleteSasEffect
<1>8. /\ SaOK(t) /\ Stored(t) /\ t.principal = d.principal
      /\ t.new_key \in {NoKey, d.new_key}
      /\ NewKeyListed(d) /\ ~Listed(d, n.cp.oki) => NewKeyListed(t)
      /\ \A j : Listed(t, j) => Listed(d, j)
      /\ ~Listed(t, n.cp.oki)
  BY <1>3, <1>5, <1>7, DeleteSasEffect
<1>9. y.cp.state = "CHANGE" /\ Steady(n.cp, y.cp) /\ SameFlags(n.cp, y.cp)
  BY ChangeEffect
<1>10. y.cp.connect = n.cp.connect /\ y.cp.dki = n.cp.dki  BY <1>9 DEF Steady
<1>11. ASSUME Server(n.cp, n.sa) PROVE Server(y.cp, y.sa)
  <2>1. /\ ~y.cp.chgd_server /\ y.cp.current_cipher = y.cp.cipher /\ y.cp.state # "INIT"
        /\ y.cp.lki <= y.cp.dki /\ y.cp.oki <= y.cp.dki
        /\ y.cp.new_sak => y.cp.lki < y.cp.dki /\ y.cp.oki < y.cp.dki
    BY <1>9, <1>11 DEF Server, Steady, SameFlags
  <2>2. ~Listed(y.sa, y.cp.lki) /\ ~Listed(y.sa, y.cp.oki)
    BY <1>6, <1>7, <1>8, <1>9 DEF SameFlags
  <2>3. y.sa.new_key \in {NoKey, y.cp.dki}
    BY <1>6, <1>7, <1>8, <1>10, <1>11 DEF Server
  <2>4. \A k \in KN : y.sa.sak[k] # NoAN => k <= y.cp.dki
    BY <1>6, <1>7, <1>8, <1>10, <1>11 DEF Server, Listed
  <2> QED BY <2>1, <2>2, <2>3, <2>4 DEF Server
<1>12. ASSUME Server(n.cp, n.sa), n.cp.connect = "SECURE", NewKeyListed(n.sa)
       PROVE  NewKeyListed(y.sa)
  <2>1. n.cp.state \in Plain  BY <1>12, ServerConnect
  <2>2. ~Listed(n.sa, n.cp.lki) /\ ~Listed(n.sa, n.cp.oki)  BY <1>12, <2>1 DEF Server
  <2> QED BY <1>6, <1>7, <1>8, <1>12, <2>2
<1> QED BY <1>1, <1>6, <1>7, <1>8, <1>10, <1>11, <1>12 DEF Advances, Serves

(* SM_STATE(CP, ABANDON): the latest key is deleted. *)
LEMMA AbandonAdvances ==
  ASSUME NEW n, NodeOK(n), Stored(n.sa), NEW y, y = CP_ABANDON(n),
         n.cp.state \notin Plain, n.cp.new_sak \/ changed_connect(n.cp)
  PROVE  Advances(n, y)
<1>1. NodeOK(y)  BY AbandonFollows DEF Follows
<1>2. n.cp \in CpRecord /\ SaOK(n.sa) /\ n.sa \in SaRecord  BY DEF NodeOK, SaOK
<1>3. n.cp.lki \in KI /\ n.cp.lan \in AN /\ n.cp.ltx \in BOOLEAN  BY <1>2 DEF CpRecord
<1>4. PICK s1 : s1 = set_latest_sa_attr(n.sa, n.cp.lki, n.cp.lan, n.cp.ltx, FALSE)  OBVIOUS
<1>5. PICK s2 : s2 = delete_sas(s1, n.cp.lki)  OBVIOUS
<1>6. PICK s3 : s3 = set_latest_sa_attr(s2, NoKey, n.cp.lan, n.cp.ltx, FALSE)  OBVIOUS
<1>7. y.sa = s3  BY <1>4, <1>5, <1>6 DEF CP_ABANDON
<1>8. SaOK(s1) /\ Installs(n.sa, s1)
  BY <1>2, <1>3, <1>4, SetLatestKeeps, AttrInstalls DEF Keeps
<1>9. Stored(s1)  BY <1>8, InstallsStored
<1>10. /\ SaOK(s2) /\ Stored(s2) /\ s2.principal = s1.principal
       /\ s2.new_key \in {NoKey, s1.new_key}
       /\ NewKeyListed(s1) /\ s1.new_key # n.cp.lki => NewKeyListed(s2)
       /\ \A j : Listed(s2, j) => Listed(s1, j)
  BY <1>3, <1>5, <1>8, <1>9, DeleteSasEffect
<1>11. Installs(s2, s3)  BY <1>6, <1>10, AttrInstalls DEF SaOK
<1>12. Stored(s3) /\ s3.principal = n.sa.principal
  BY <1>8, <1>10, <1>11, InstallsStored DEF Installs
<1>13. /\ y.cp.state = "ABANDON" /\ Steady(n.cp, y.cp)
       /\ y.cp.new_sak = FALSE /\ y.cp.lki = NoKey /\ y.cp.oki = n.cp.oki
  BY AbandonEffect
<1>14. y.cp.connect = n.cp.connect /\ y.cp.dki = n.cp.dki  BY <1>13 DEF Steady
<1>15. ASSUME Server(n.cp, n.sa) PROVE Server(y.cp, y.sa)
  <2>1. /\ ~y.cp.chgd_server /\ y.cp.current_cipher = y.cp.cipher /\ y.cp.state # "INIT"
        /\ y.cp.state \notin Plain
    BY <1>13, <1>15 DEF Server, Steady, Plain
  <2>2. y.cp.lki <= y.cp.dki /\ y.cp.oki <= y.cp.dki
    BY <1>2, <1>13, <1>14, <1>15, KeyNumbers DEF Server
  <2>3. y.sa.new_key \in {NoKey, y.cp.dki}
    BY <1>7, <1>8, <1>10, <1>11, <1>14, <1>15 DEF Server, Installs
  <2>4. \A k \in KN : y.sa.sak[k] # NoAN => k <= y.cp.dki
    BY <1>7, <1>8, <1>10, <1>11, <1>14, <1>15 DEF Server, Listed, Installs
  <2> QED BY <1>13, <2>1, <2>2, <2>3, <2>4 DEF Server
<1>16. ASSUME Server(n.cp, n.sa), n.cp.connect = "SECURE", NewKeyListed(n.sa)
       PROVE  NewKeyListed(y.sa)
  <2>1. n.cp.new_sak  BY <1>16, ServerConnect
  <2>2. n.sa.new_key = n.cp.lki => n.sa.new_key = NoKey
    BY <1>2, <1>16, <2>1, KeyNumbers DEF Server
  <2>3. CASE n.sa.new_key = NoKey
    BY <1>7, <1>8, <1>10, <1>11, <2>3 DEF NewKeyListed, Installs
  <2>4. CASE n.sa.new_key # n.cp.lki
    <3>1. NewKeyListed(s1) /\ s1.new_key # n.cp.lki
      BY <1>8, <1>16, <2>4 DEF NewKeyListed, Installs, Listed
    <3>2. NewKeyListed(s2)  BY <1>10, <3>1
    <3> QED BY <1>7, <1>11, <3>2 DEF NewKeyListed, Installs, Listed
  <2> QED BY <2>2, <2>3, <2>4
<1> QED BY <1>1, <1>7, <1>12, <1>14, <1>15, <1>16 DEF Advances, Serves

(* ALLOWED and AUTHENTICATED, entered from CHANGE. *)
LEMMA PlainAdvances ==
  ASSUME NEW n, NodeOK(n), Stored(n.sa), n.cp.state \in Plain,
         NEW s \in {"ALLOWED", "AUTHENTICATED"}, NEW y, y = PlainPort(n, s)
  PROVE  Advances(n, y)
<1>1. NodeOK(y)  BY PlainFollows DEF Follows
<1>2. /\ y.cp.state = s /\ Steady(n.cp, y.cp) /\ SameFlags(n.cp, y.cp)
      /\ y.sa = n.sa
  BY PlainEffect
<1>3. Server(n.cp, n.sa) => Server(y.cp, y.sa)
  BY <1>2 DEF Server, Steady, SameFlags
<1> QED BY <1>1, <1>2, <1>3 DEF Advances, Serves, Steady

(* SM_STATE(CP, SECURED). *)
LEMMA SecuredAdvances ==
  ASSUME NEW n, NodeOK(n), Stored(n.sa), NEW y, y = CP_SECURED(n)
  PROVE  Advances(n, y)
<1>1. NodeOK(y)  BY SecuredFollows DEF Follows
<1>2. /\ y.cp.state = "SECURED" /\ y.cp.connect = n.cp.connect
      /\ y.cp.dki = n.cp.dki /\ SameFlags(n.cp, y.cp) /\ y.sa = n.sa
  BY SecuredEffect
<1>3. ~y.cp.chgd_server /\ y.cp.current_cipher = y.cp.cipher
  <2>1. n.cp \in CpRecord /\ n = [cp |-> n.cp, sa |-> n.sa]  BY DEF NodeOK
  <2>2. y.cp = [n.cp EXCEPT !.state = "SECURED", !.chgd_server = FALSE,
                            !.protect_frames = TRUE,
                            !.current_cipher = n.cp.cipher, !.port_valid = TRUE]
    BY <2>1 DEF CP_SECURED
  <2> QED BY <2>1, <2>2 DEF CpRecord
<1>4. Server(n.cp, n.sa) => Server(y.cp, y.sa)
  BY <1>2, <1>3 DEF Server, SameFlags, Plain
<1> QED BY <1>1, <1>2, <1>4 DEF Advances, Serves

(* Enabling SAs installs none. *)
LEMMA EnableInstalls ==
  ASSUME NEW c, NEW s \in SaRecord, NEW k
  PROVE  /\ Installs(s, enable_rx_sas([cp |-> c, sa |-> s], k).sa)
         /\ Installs(s, enable_tx_sas([cp |-> c, sa |-> s], k).sa)
<1>1. Installs(s, enable_rx_sas([cp |-> c, sa |-> s], k).sa)
  <2>1. PICK t : t = enable_rx_sas([cp |-> c, sa |-> s], k).sa  OBVIOUS
  <2>2. t = s \/ \E u : t = [s EXCEPT !.rxuse = u]
    BY <2>1 DEF enable_rx_sas
  <2>3. /\ t.principal = s.principal /\ t.sak = s.sak /\ t.new_key = s.new_key
        /\ t.rxsa = s.rxsa /\ t.txsa = s.txsa
    BY <2>2 DEF SaRecord
  <2> QED BY <2>1, <2>3, SameInstalls
<1>2. Installs(s, enable_tx_sas([cp |-> c, sa |-> s], k).sa)
  <2>1. PICK t : t = enable_tx_sas([cp |-> c, sa |-> s], k).sa  OBVIOUS
  <2>2. t = s \/ \E u : t = [s EXCEPT !.txuse = u]
    BY <2>1 DEF enable_tx_sas
  <2>3. /\ t.principal = s.principal /\ t.sak = s.sak /\ t.new_key = s.new_key
        /\ t.rxsa = s.rxsa /\ t.txsa = s.txsa
    BY <2>2 DEF SaRecord
  <2> QED BY <2>1, <2>3, SameInstalls
<1> QED BY <1>1, <1>2

(* SM_STATE(CP, RECEIVE). *)
LEMMA ReceiveAdvances ==
  ASSUME NEW n, NodeOK(n), Stored(n.sa), n.cp.state \notin Plain,
         NEW y, y = CP_RECEIVE(n)
  PROVE  Advances(n, y) /\ y.cp.state = "RECEIVE"
<1> DEFINE c  == [n.cp EXCEPT !.state = "RECEIVE",
                !.oki = n.cp.lki, !.oan = n.cp.lan, !.otx = n.cp.ltx, !.orx = n.cp.lrx,
                !.lki = n.cp.dki, !.lan = n.cp.dan, !.ltx = FALSE, !.lrx = FALSE]
           s1 == set_old_sa_attr(n.sa, c.oki, c.oan, c.otx, c.orx)
           s2 == set_latest_sa_attr(s1, c.lki, c.lan, FALSE, FALSE)
           s3 == create_sas(s2, c.lki)
           m  == enable_rx_sas([cp |-> c, sa |-> s3], c.lki)
<1>1. NodeOK(y)  BY ReceiveFollows DEF Follows
<1>2. n.cp \in CpRecord /\ SaOK(n.sa) /\ n.sa \in SaRecord  BY DEF NodeOK, SaOK
<1>3. y = [m EXCEPT !.cp = [@ EXCEPT !.new_sak = FALSE, !.all_receiving = FALSE]]
  BY Zenon DEF CP_RECEIVE
<1>4. /\ c.oki \in KI /\ c.oan \in AN /\ c.otx \in BOOLEAN /\ c.orx \in BOOLEAN
      /\ c.lki \in KI /\ c.lan \in AN
  BY <1>2 DEF CpRecord
<1> HIDE DEF c
<1>5. SaOK(s1) /\ s1 \in SaRecord /\ Installs(n.sa, s1)
  BY <1>2, <1>4, SetOldKeeps, AttrInstalls DEF Keeps, SaOK
<1> HIDE DEF s1
<1>6. SaOK(s2) /\ Installs(s1, s2)
  BY <1>4, <1>5, SetLatestKeeps, AttrInstalls DEF Keeps
<1> HIDE DEF s2
<1>7. SaOK(s3) /\ s3 \in SaRecord /\ Installs(s2, s3)
  BY <1>4, <1>6, CreateSasKeeps, CreateInstalls DEF Keeps, SaOK
<1> HIDE DEF s3
<1>8. Installs(s3, m.sa)  BY <1>7, EnableInstalls
<1>9. m = [cp |-> m.cp, sa |-> m.sa]  BY DEF enable_rx_sas
<1> HIDE DEF m
<1>10. y.sa = m.sa  BY <1>3, <1>9
<1>11. Installs(n.sa, y.sa)  BY <1>5, <1>6, <1>7, <1>8, <1>10, InstallsTransitive
<1>12. /\ y.cp.state = "RECEIVE" /\ Steady(n.cp, y.cp) /\ y.cp.new_sak = FALSE
       /\ y.cp.lki = n.cp.dki /\ y.cp.oki = n.cp.lki
  BY ReceiveEffect
<1>13. y.cp.state \notin Plain  BY <1>12 DEF Plain
<1> QED BY <1>1, <1>11, <1>12, <1>13, InstallAdvances

(* SM_STATE(CP, TRANSMIT). *)
LEMMA TransmitAdvances ==
  ASSUME NEW n, NodeOK(n), Stored(n.sa), n.cp.state \notin Plain,
         NEW y, y = CP_TRANSMIT(n)
  PROVE  Advances(n, y)
<1> DEFINE c == [n.cp EXCEPT !.state = "TRANSMIT", !.controlled_port = TRUE, !.ltx = TRUE]
           t == set_latest_sa_attr(n.sa, c.lki, c.lan, TRUE, c.lrx)
           m == enable_tx_sas([cp |-> c, sa |-> t], c.lki)
<1>1. NodeOK(y)  BY TransmitFollows DEF Follows
<1>2. n.cp \in CpRecord /\ SaOK(n.sa) /\ n.sa \in SaRecord  BY DEF NodeOK, SaOK
<1>3. y = [m EXCEPT !.cp = [@ EXCEPT !.all_receiving = FALSE, !.server_transmitting = FALSE]]
  BY Zenon DEF CP_TRANSMIT
<1>4. c.lki \in KI /\ c.lan \in AN /\ c.lrx \in BOOLEAN  BY <1>2 DEF CpRecord
<1> HIDE DEF c
<1>5. t \in SaRecord /\ Installs(n.sa, t)
  BY <1>2, <1>4, SetLatestKeeps, AttrInstalls DEF Keeps, SaOK
<1> HIDE DEF t
<1>6. Installs(t, m.sa)  BY <1>5, EnableInstalls
<1>7. m = [cp |-> m.cp, sa |-> m.sa]  BY DEF enable_tx_sas
<1> HIDE DEF m
<1>8. y.sa = m.sa  BY <1>3, <1>7
<1>9. Installs(n.sa, y.sa)  BY <1>5, <1>6, <1>8, InstallsTransitive
<1>10. /\ y.cp.state = "TRANSMIT" /\ Steady(n.cp, y.cp)
       /\ y.cp.new_sak = n.cp.new_sak /\ y.cp.lki = n.cp.lki /\ y.cp.oki = n.cp.oki
  BY TransmitEffect
<1>11. y.cp.state \notin Plain  BY <1>10 DEF Plain
<1> QED BY <1>1, <1>9, <1>10, <1>11, InstallAdvances

(* RECEIVING, READY, TRANSMITTING and RETIRE. *)
LEMMA QuietAdvances ==
  ASSUME NEW n, NodeOK(n), Stored(n.sa), n.cp.state \notin Plain,
         NEW y, y \in {CP_RECEIVING(n), CP_READY(n), CP_TRANSMITTING(n), CP_RETIRE(n)}
  PROVE  Advances(n, y)
<1>1. NodeOK(y)
  BY ReceivingFollows, ReadyFollows, TransmittingFollows, RetireFollows DEF Follows
<1>2. n.cp \in CpRecord /\ n.sa \in SaRecord  BY DEF NodeOK, SaOK
<1>3. Installs(n.sa, n.sa)  BY SameInstalls
<1>4. CASE y = CP_RECEIVING(n)
  <2>1. Installs(n.sa, y.sa)
    <3>1. PICK c : y.sa = set_latest_sa_attr(n.sa, c.lki, c.lan, c.ltx, TRUE)
      BY <1>4 DEF CP_RECEIVING
    <3> QED BY <1>2, <3>1, AttrInstalls
  <2>2. /\ y.cp.state = "RECEIVING" /\ Steady(n.cp, y.cp)
        /\ y.cp.new_sak = n.cp.new_sak /\ y.cp.lki = n.cp.lki /\ y.cp.oki = n.cp.oki
    BY <1>4, ReceivingEffect
  <2>3. y.cp.state \notin Plain  BY <2>2 DEF Plain
  <2> QED BY <1>1, <2>1, <2>2, <2>3, InstallAdvances
<1>5. CASE y = CP_READY(n)
  <2>1. y.cp.state = "READY" /\ Steady(n.cp, y.cp) /\ SameFlags(n.cp, y.cp) /\ y.sa = n.sa
    BY <1>5, ReadyEffect
  <2>2. y.cp.new_sak = n.cp.new_sak /\ y.cp.lki = n.cp.lki /\ y.cp.oki = n.cp.oki
    BY <2>1 DEF SameFlags
  <2>3. y.cp.state \notin Plain  BY <2>1 DEF Plain
  <2> QED BY <1>1, <1>3, <2>1, <2>2, <2>3, InstallAdvances
<1>6. CASE y = CP_TRANSMITTING(n)
  <2>1. Installs(n.sa, y.sa)
    <3>1. PICK c : y.sa = set_old_sa_attr(n.sa, c.oki, c.oan, FALSE, c.orx)
      BY <1>6 DEF CP_TRANSMITTING
    <3> QED BY <1>2, <3>1, AttrInstalls
  <2>2. /\ y.cp.state = "TRANSMITTING" /\ Steady(n.cp, y.cp)
        /\ y.cp.new_sak = n.cp.new_sak /\ y.cp.lki = n.cp.lki /\ y.cp.oki = n.cp.oki
    BY <1>6, TransmittingEffect
  <2>3. y.cp.state \notin Plain  BY <2>2 DEF Plain
  <2> QED BY <1>1, <2>1, <2>2, <2>3, InstallAdvances
<1>7. CASE y = CP_RETIRE(n)
  <2>1. Installs(n.sa, y.sa)
    <3>1. PICK c : y.sa = set_old_sa_attr(n.sa, NoKey, c.oan, FALSE, FALSE)
      BY <1>7 DEF CP_RETIRE
    <3> QED BY <1>2, <3>1, AttrInstalls
  <2>2. /\ y.cp.state = "RETIRE" /\ Steady(n.cp, y.cp)
        /\ y.cp.new_sak = n.cp.new_sak /\ y.cp.lki = n.cp.lki /\ y.cp.oki = NoKey
    BY <1>7, RetireEffect
  <2>3. y.cp.state \notin Plain  BY <2>2 DEF Plain
  <2> QED BY <1>1, <2>1, <2>2, <2>3, InstallAdvances
<1> QED BY <1>4, <1>5, <1>6, <1>7

(* One pass of SM_STEP. *)
LEMMA StepAdvances ==
  ASSUME NEW n, NodeOK(n), Stored(n.sa)
  PROVE  Advances(n, SM_STEP(n))
<1>0. n.cp.state \in CPStates  BY DEF NodeOK, CpRecord
<1>n. Advances(n, n)  BY AdvancesReflexive
<1>1. CASE n.cp.state \in Plain
  <2>1. Advances(n, CP_CHANGE(n))  BY <1>1, ChangeAdvances
  <2>2. Advances(n, CP_ALLOWED(n)) /\ Advances(n, CP_AUTHENTICATED(n))
    BY <1>1, PlainAdvances DEF CP_ALLOWED, CP_AUTHENTICATED
  <2>3. Advances(n, CP_SECURED(n))  BY SecuredAdvances
  <2>4. Advances(n, StepCHANGE(n))  BY <1>n, <2>2, <2>3 DEF StepCHANGE
  <2> QED BY <1>1, <1>n, <2>1, <2>4, Zenon DEF SM_STEP, Plain
<1>2. CASE n.cp.state \notin Plain
  <2>1. Advances(n, CP_RECEIVE(n)) /\ CP_RECEIVE(n).cp.state \notin Plain
    BY <1>2, ReceiveAdvances DEF Plain
  <2>2. /\ Advances(n, CP_RECEIVING(n)) /\ Advances(n, CP_TRANSMITTING(n))
        /\ Advances(n, CP_RETIRE(n))
    BY <1>2, QuietAdvances
  <2>3. changed_connect(n.cp) => Advances(n, CP_CHANGE(n))  BY ChangeAdvances
  <2>4. Advances(n, StepSecured(n)) /\ Advances(n, StepABANDON(n))
    BY <1>n, <2>1, <2>2, <2>3, Zenon DEF StepSecured, StepABANDON
  <2>5. Advances(n, StepRECEIVING(n))
    <3> DEFINE m == IF n.cp.new_sak \/ changed_connect(n.cp) THEN CP_ABANDON(n) ELSE n
    <3>1. Advances(n, m) /\ m.cp.state \notin Plain
      <4>1. CASE n.cp.new_sak \/ changed_connect(n.cp)
        <5>1. Advances(n, CP_ABANDON(n))  BY <1>2, <4>1, AbandonAdvances
        <5>2. CP_ABANDON(n).cp.state \notin Plain  BY <1>2, AbandonFollows DEF Plain
        <5> QED BY <4>1, <5>1, <5>2
      <4>2. CASE ~(n.cp.new_sak \/ changed_connect(n.cp))
        BY <1>2, <1>n, <4>2
      <4> QED BY <4>1, <4>2
    <3>2. StepRECEIVING(n) = IF ~m.cp.elected_self THEN CP_READY(m)
             ELSE IF m.cp.all_receiving \/ ~m.cp.transmit_when THEN CP_TRANSMIT(m) ELSE m
      BY Zenon DEF StepRECEIVING
    <3> HIDE DEF m
    <3>3. NodeOK(m) /\ Stored(m.sa)  BY <3>1 DEF Advances
    <3>4. Advances(m, CP_READY(m)) /\ Advances(m, CP_TRANSMIT(m))
      BY <3>1, <3>3, QuietAdvances, TransmitAdvances
    <3>5. Advances(n, CP_READY(m)) /\ Advances(n, CP_TRANSMIT(m))
      BY <3>1, <3>4, AdvancesTransitive
    <3> QED BY <3>1, <3>2, <3>5
  <2>6. Advances(n, StepREADY(n))
    <3> DEFINE m == IF n.cp.new_sak \/ changed_connect(n.cp) THEN CP_RECEIVE(n) ELSE n
    <3>1. Advances(n, m) /\ m.cp.state \notin Plain  BY <1>2, <1>n, <2>1
    <3>2. StepREADY(n) = IF m.cp.server_transmitting THEN CP_TRANSMIT(m) ELSE m
      BY Zenon DEF StepREADY
    <3> HIDE DEF m
    <3>3. NodeOK(m) /\ Stored(m.sa)  BY <3>1 DEF Advances
    <3>4. Advances(m, CP_TRANSMIT(m))  BY <3>1, <3>3, TransmitAdvances
    <3>5. Advances(n, CP_TRANSMIT(m))  BY <3>1, <3>4, AdvancesTransitive
    <3> QED BY <3>1, <3>2, <3>5
  <2>7. n.cp.state \in CPStates \ Plain  BY <1>0, <1>2
  <2> QED BY <2>7, <1>n, <2>2, <2>4, <2>5, <2>6, Zenon DEF SM_STEP, Plain, CPStates
<1> QED BY <1>1, <1>2

-----------------------------------------------------------------------------
(* A KaY. *)

(* An MKPDU that distributes a SAK gives its AN. *)
MsgOK(m) ==
  /\ m = [src |-> m.src, session |-> m.session, mn |-> m.mn, listed |-> m.listed,
          use |-> m.use, kn |-> m.kn, an |-> m.an, late |-> m.late]
  /\ m.mn \in Nat /\ m.kn \in KI
  /\ m.kn # NoKey => m.an = AnOf(m.kn)

(* The key server's counters follow the SAK it gave CP last; what it       *)
(* distributes is listed; its participant is the principal one.  Nobody    *)
(* else is asked to generate or to distribute a SAK.                       *)
ServerRole(c, s, p) ==
  /\ Server(c, s)
  /\ p.dist_kn = c.dki + 1 /\ p.dist_an = AnOf(p.dist_kn)
  /\ p.advised => c.connect = "SECURE"
  /\ p.to_dist_sak /\ p.advised => NewKeyListed(s)
  /\ s.principal <=> p.session # 0

(* The node fits its role. *)
Role(c, s, p, i) ==
  IF Mine(i) THEN ServerRole(c, s, p) ELSE ~p.new_sak /\ ~p.to_dist_sak

(* The record a callback works on. *)
KayRecord(c, s, p, o) == [cp |-> c, sa |-> s, p |-> p, out |-> o]

(* A KaY that is right, in the middle of a callback or after it. *)
KayOK(x, i) ==
  /\ x = KayRecord(x.cp, x.sa, x.p, x.out)
  /\ x.cp \in CpRecord /\ PortOK(x.cp) /\ SaOK(x.sa) /\ Stored(x.sa)
  /\ x.p \in ParticipantRecord
  /\ \A m \in x.out : MsgOK(m)
  /\ Role(x.cp, x.sa, x.p, i)

(* The parts of a KaY that is right. *)
LEMMA KayIntro ==
  ASSUME NEW i, NEW c \in CpRecord, PortOK(c), NEW s, SaOK(s), Stored(s),
         NEW p \in ParticipantRecord, NEW o, \A m \in o : MsgOK(m), Role(c, s, p, i)
  PROVE  KayOK(KayRecord(c, s, p, o), i)
BY DEF KayOK, KayRecord

(* The fields of a record. *)
LEMMA KayFields ==
  ASSUME NEW c, NEW s, NEW p, NEW o
  PROVE  LET x == KayRecord(c, s, p, o) IN x.cp = c /\ x.sa = s /\ x.p = p /\ x.out = o
BY DEF KayRecord

(* A KaY with another value of one field. *)
WithCp(x, v) == [x EXCEPT !.cp = v]

WithSa(x, v) == [x EXCEPT !.sa = v]

WithP(x, v) == [x EXCEPT !.p = v]

(* The record that a new CP machine makes. *)
LEMMA SetCp ==
  ASSUME NEW c, NEW s, NEW p, NEW o, NEW v
  PROVE  WithCp(KayRecord(c, s, p, o), v) = KayRecord(v, s, p, o)
<1> DEFINE z == KayRecord(c, s, p, o)
           r == WithCp(z, v)
<1>1. DOMAIN z = {"cp", "sa", "p", "out"}  BY DEF KayRecord
<1>2. z.cp = c /\ z.sa = s /\ z.p = p /\ z.out = o  BY DEF KayRecord
<1> HIDE DEF z
<1>3. r.cp = v /\ r.sa = s /\ r.p = p /\ r.out = o  BY <1>1, <1>2 DEF WithCp
<1>4. r = [f \in {"cp", "sa", "p", "out"} |-> r[f]]  BY <1>1 DEF WithCp
<1> HIDE DEF r
<1>5. r = [cp |-> v, sa |-> s, p |-> p, out |-> o]  BY <1>3, <1>4
<1> QED BY <1>5 DEF KayRecord, r, z

(* The record that new keys and SAs make. *)
LEMMA SetSa ==
  ASSUME NEW c, NEW s, NEW p, NEW o, NEW v
  PROVE  WithSa(KayRecord(c, s, p, o), v) = KayRecord(c, v, p, o)
BY DEF KayRecord, WithSa

(* The record that a new participant makes. *)
LEMMA SetP ==
  ASSUME NEW c, NEW s, NEW p, NEW o, NEW v
  PROVE  WithP(KayRecord(c, s, p, o), v) = KayRecord(c, s, v, o)
BY DEF KayRecord, WithP

(* p and q differ in fields that Role does not look at. *)
SameRole(p, q) ==
  /\ q.dist_kn = p.dist_kn /\ q.dist_an = p.dist_an /\ q.session = p.session
  /\ q.advised = p.advised /\ q.to_dist_sak = p.to_dist_sak

(* Asking for a rekey, or anything less, keeps the role. *)
LEMMA SameRoleKeeps ==
  ASSUME NEW i, NEW c, NEW s, NEW p, NEW q, Role(c, s, p, i), SameRole(p, q),
         Mine(i) \/ q.new_sak = p.new_sak
  PROVE  Role(c, s, q, i)
BY DEF Role, ServerRole, SameRole

(* ieee802_1x_participant_send_mkpdu: the MKPDU is right. *)
LEMMA SendOK ==
  ASSUME NEW x, NEW i, KayOK(x, i), NEW y, y = send_mkpdu(x, i)
  PROVE  KayOK(y, i) /\ y.p.retry_count = x.p.retry_count
<1> DEFINE use == SakUse(x)
           k   == DistSak(x)
           m   == [src |-> i, session |-> x.p.session, mn |-> x.p.mn + 1,
                   listed |-> ListedMn(x),
                   use |-> use, kn |-> k, an |-> IF k = NoKey THEN NoAN ELSE x.sa.sak[k],
                   late |-> FALSE]
           rekey == use.kind = "use" /\ use.exhausted /\ Mine(i)
           q   == [x.p EXCEPT !.mn = @ + 1, !.new_sak = @ \/ rekey]
           o   == x.out \cup {m}
<1>1. /\ x = KayRecord(x.cp, x.sa, x.p, x.out) /\ x.cp \in CpRecord /\ PortOK(x.cp)
      /\ SaOK(x.sa) /\ Stored(x.sa) /\ x.p \in ParticipantRecord
      /\ (\A n \in x.out : MsgOK(n)) /\ Role(x.cp, x.sa, x.p, i)
  BY DEF KayOK
<1>2. x.sa \in SaRecord /\ x.sa.new_key \in KI  BY <1>1 DEF SaOK, SaRecord
<1>3. k \in KI /\ (k # NoKey => x.sa.sak[k] = AnOf(k))
  <2>1. CASE k = NoKey  BY <2>1, KIFacts
  <2>2. CASE k # NoKey
    <3>1. k = x.sa.new_key /\ x.p.to_dist_sak /\ x.p.advised  BY <2>2 DEF DistSak
    <3>2. NewKeyListed(x.sa)  BY <1>1, <3>1 DEF Role, ServerRole
    <3>3. k \in KN /\ x.sa.sak[k] # NoAN  BY <2>2, <3>1, <3>2 DEF NewKeyListed, Listed
    <3> QED BY <1>1, <1>2, <3>1, <3>3 DEF Stored, Placed
  <2> QED BY <2>1, <2>2
<1>4. x.p.mn \in Nat /\ x.p.new_sak \in BOOLEAN  BY <1>1 DEF ParticipantRecord
<1>5. rekey \in BOOLEAN /\ (~Mine(i) => ~rekey)  OBVIOUS
<1>6. y = [x EXCEPT !.p.mn = @ + 1, !.out = @ \cup {m}, !.p.new_sak = @ \/ rekey]
  BY Zenon DEF send_mkpdu
<1> HIDE DEF use, k
<1>7. MsgOK(m)  BY <1>3, <1>4 DEF MsgOK
<1> HIDE DEF m, rekey
<1>8. y = KayRecord(x.cp, x.sa, q, o)  BY <1>1, <1>6 DEF KayRecord
<1>9. /\ q \in ParticipantRecord /\ SameRole(x.p, q) /\ q.retry_count = x.p.retry_count
      /\ ~Mine(i) => q.new_sak = x.p.new_sak
  <2>1. x.p.mn + 1 \in Nat /\ (x.p.new_sak \/ rekey) \in BOOLEAN  BY <1>4
  <2>2. q \in ParticipantRecord  BY <1>1, <2>1, ZenonT(60) DEF ParticipantRecord
  <2>3. SameRole(x.p, q) /\ q.retry_count = x.p.retry_count
    BY <1>1 DEF ParticipantRecord, SameRole
  <2>4. q.new_sak = (x.p.new_sak \/ rekey)  BY <1>1 DEF ParticipantRecord
  <2> QED BY <1>4, <1>5, <2>2, <2>3, <2>4
<1> HIDE DEF q
<1>10. Role(x.cp, x.sa, q, i)  BY <1>1, <1>9, SameRoleKeeps
<1>11. \A n \in o : MsgOK(n)  BY <1>1, <1>7
<1> HIDE DEF o
<1> QED BY <1>1, <1>8, <1>9, <1>10, <1>11, KayIntro, KayFields

(* The retry counter stays within MAX_RETRY_CNT. *)
LEMMA SendIfAllowedOK ==
  ASSUME NEW x, NEW i, KayOK(x, i)
  PROVE  KayOK(SendIfAllowed(x, i), i)
<1>1. CASE ~(x.p.retry_count < MaxRetryCnt)  BY <1>1 DEF SendIfAllowed
<1>2. CASE x.p.retry_count < MaxRetryCnt
  <2>1. PICK y : y = send_mkpdu(x, i)  OBVIOUS
  <2>2. KayOK(y, i) /\ y.p.retry_count = x.p.retry_count  BY <2>1, SendOK
  <2>3. PICK q : q = [y.p EXCEPT !.retry_count = @ + 1]  OBVIOUS
  <2>4. /\ y = KayRecord(y.cp, y.sa, y.p, y.out) /\ y.cp \in CpRecord /\ PortOK(y.cp)
        /\ SaOK(y.sa) /\ Stored(y.sa) /\ y.p \in ParticipantRecord
        /\ (\A n \in y.out : MsgOK(n)) /\ Role(y.cp, y.sa, y.p, i)
    BY <2>2 DEF KayOK
  <2>5. SendIfAllowed(x, i) = [y EXCEPT !.p.retry_count = @ + 1]
    BY <1>2, <2>1, Zenon DEF SendIfAllowed
  <2>6. SendIfAllowed(x, i) = KayRecord(y.cp, y.sa, q, y.out)
    BY <2>3, <2>4, <2>5 DEF KayRecord
  <2>7. x.p.retry_count \in 0..MaxRetryCnt  BY DEF KayOK, ParticipantRecord
  <2>8. y.p.retry_count + 1 \in 0..MaxRetryCnt  BY <1>2, <2>2, <2>7 DEF MaxRetryCnt
  <2>9. q \in ParticipantRecord  BY <2>3, <2>4, <2>8, ZenonT(60) DEF ParticipantRecord
  <2>10. SameRole(y.p, q) /\ q.new_sak = y.p.new_sak
    BY <2>3, <2>4 DEF ParticipantRecord, SameRole
  <2> QED BY <2>4, <2>6, <2>9, <2>10, SameRoleKeeps, KayIntro
<1> QED BY <1>1, <1>2

(* Only the fields of CP that the key server's invariant reads matter. *)
SameServer(c, d) ==
  /\ d.chgd_server = c.chgd_server /\ d.current_cipher = c.current_cipher
  /\ d.cipher = c.cipher /\ d.state = c.state /\ d.lki = c.lki /\ d.oki = c.oki
  /\ d.dki = c.dki /\ d.new_sak = c.new_sak

(* Such a change of CP keeps the role. *)
LEMMA SameServerKeeps ==
  ASSUME NEW i, NEW c, NEW d, NEW s, NEW p, Role(c, s, p, i), SameServer(c, d),
         d.connect = c.connect
  PROVE  Role(d, s, p, i)
BY DEF Role, ServerRole, Server, SameServer

(* A pass of the CP machine, with the MKPDU it may ask for. *)
LEMMA StepPassOK ==
  ASSUME NEW x, NEW i, KayOK(x, i)
  PROVE  KayOK(StepPass(x, i), i)
<1>1. PICK n : n = [cp |-> x.cp, sa |-> x.sa]  OBVIOUS
<1>2. PICK m : m = SM_STEP(n)  OBVIOUS
<1>3. PICK c : c = [m.cp EXCEPT !.new_info = FALSE]  OBVIOUS
<1>4. PICK y : y = [x EXCEPT !.cp = c, !.sa = m.sa]  OBVIOUS
<1>5. StepPass(x, i) = IF m.cp.new_info THEN enable_new_info(y, i) ELSE y
  BY <1>1, <1>2, <1>3, <1>4, Zenon DEF StepPass, AfterPass
<1>6. /\ x = KayRecord(x.cp, x.sa, x.p, x.out) /\ x.cp \in CpRecord /\ PortOK(x.cp)
      /\ SaOK(x.sa) /\ Stored(x.sa) /\ x.p \in ParticipantRecord
      /\ (\A k \in x.out : MsgOK(k)) /\ Role(x.cp, x.sa, x.p, i)
  BY DEF KayOK
<1>7. n.cp = x.cp /\ n.sa = x.sa  BY <1>1
<1>8. NodeOK(n) /\ Stored(n.sa)  BY <1>1, <1>6, <1>7 DEF NodeOK
<1>9. Advances(n, m)  BY <1>2, <1>8, StepAdvances
<1>10. m.cp \in CpRecord /\ PortOK(m.cp) /\ SaOK(m.sa) /\ Stored(m.sa)
  BY <1>9 DEF Advances, NodeOK
<1>11. Role(m.cp, m.sa, x.p, i)
  <2>1. CASE ~Mine(i)  BY <1>6, <2>1 DEF Role
  <2>2. CASE Mine(i)
    <3>1. ServerRole(x.cp, x.sa, x.p)  BY <1>6, <2>2 DEF Role
    <3>2. Server(x.cp, x.sa)  BY <3>1 DEF ServerRole
    <3>3. /\ Server(m.cp, m.sa) /\ m.cp.connect = x.cp.connect /\ m.cp.dki = x.cp.dki
          /\ m.sa.principal = x.sa.principal
          /\ x.cp.connect = "SECURE" /\ NewKeyListed(x.sa) => NewKeyListed(m.sa)
      BY <1>7, <1>9, <3>2 DEF Advances, Serves
    <3>4. ServerRole(m.cp, m.sa, x.p)  BY <3>1, <3>3 DEF ServerRole
    <3> QED BY <2>2, <3>4 DEF Role
  <2> QED BY <2>1, <2>2
<1>12. c \in CpRecord /\ PortOK(c)
  BY <1>3, <1>10, ZenonT(60) DEF CpRecord, PortOK
<1>13. SameServer(m.cp, c) /\ c.connect = m.cp.connect
  BY <1>3, <1>10 DEF CpRecord, SameServer
<1>14. Role(c, m.sa, x.p, i)  BY <1>11, <1>13, SameServerKeeps
<1>15. y = KayRecord(c, m.sa, x.p, x.out)  BY <1>4, <1>6 DEF KayRecord
<1>16. KayOK(y, i)  BY <1>6, <1>10, <1>12, <1>14, <1>15, KayIntro
<1>17. KayOK(enable_new_info(y, i), i)  BY <1>16, SendIfAllowedOK DEF enable_new_info
<1> QED BY <1>5, <1>16, <1>17

(* A turn of the loop of ieee802_1x_cp_step_run. *)
LEMMA TurnOK ==
  ASSUME NEW r, NEW i, KayOK(r.x, i)
  PROVE  KayOK(Turn(r, i).x, i)
<1>1. PICK y : y = StepPass(r.x, i)  OBVIOUS
<1>2. Turn(r, i) = IF r.more THEN [x |-> y, more |-> y.cp.state # r.x.cp.state] ELSE r
  BY <1>1, Zenon DEF Turn
<1>3. KayOK(y, i)  BY <1>1, StepPassOK
<1> QED BY <1>2, <1>3

(* ieee802_1x_cp_step_run. *)
LEMMA StepRunOK ==
  ASSUME NEW x, NEW i, KayOK(x, i)
  PROVE  KayOK(cp_step_run(x, i), i)
<1> DEFINE G(f) == [k \in 0..LastPass |->
                     IF k = 0 THEN [x |-> x, more |-> TRUE] ELSE Turn(f[k - 1], i)]
           run == CHOOSE f : f = G(f)
<1>1. cp_step_run(x, i) = run[LastPass].x  BY Zenon DEF cp_step_run
<1>2. run = G(run)
  <2>0. PICK r0 : r0 = [x |-> x, more |-> TRUE]  OBVIOUS
  <2>1. PICK r1 : r1 = Turn(r0, i)  OBVIOUS
  <2>2. PICK r2 : r2 = Turn(r1, i)  OBVIOUS
  <2>3. PICK r3 : r3 = Turn(r2, i)  OBVIOUS
  <2>4. PICK r4 : r4 = Turn(r3, i)  OBVIOUS
  <2>5. PICK r5 : r5 = Turn(r4, i)  OBVIOUS
  <2>6. PICK r6 : r6 = Turn(r5, i)  OBVIOUS
  <2>7. PICK r7 : r7 = Turn(r6, i)  OBVIOUS
  <2>8. PICK g : g = [k \in 0..7 |-> IF k = 0 THEN r0 ELSE IF k = 1 THEN r1
                       ELSE IF k = 2 THEN r2 ELSE IF k = 3 THEN r3 ELSE IF k = 4 THEN r4
                       ELSE IF k = 5 THEN r5 ELSE IF k = 6 THEN r6 ELSE r7]
    OBVIOUS
  <2>9. /\ g[0] = r0 /\ g[1] = r1 /\ g[2] = r2 /\ g[3] = r3 /\ g[4] = r4
        /\ g[5] = r5 /\ g[6] = r6 /\ g[7] = r7
    BY <2>8
  <2>10. ASSUME NEW k \in 0..7
         PROVE  g[k] = IF k = 0 THEN [x |-> x, more |-> TRUE] ELSE Turn(g[k - 1], i)
    <3>1. k = 0 \/ k - 1 \in {0, 1, 2, 3, 4, 5, 6}  OBVIOUS
    <3>2. CASE k = 0  BY <2>0, <2>9, <3>2
    <3>3. CASE k # 0
      BY <2>1, <2>2, <2>3, <2>4, <2>5, <2>6, <2>7, <2>9, <3>1, <3>3
    <3> QED BY <3>2, <3>3
  <2>11. g = [k \in 0..7 |-> g[k]]  BY <2>8
  <2>12. g = G(g)  BY <2>10, <2>11, Zenon DEF LastPass
  <2> QED BY <2>12, Zenon
<1> HIDE DEF run
<1>3. /\ run[0].x = x
      /\ \A k \in 0..6 : run[k + 1] = Turn(run[k], i)
  <2>1. PICK h : h = run  OBVIOUS
  <2>2. h = [k \in 0..7 |-> IF k = 0 THEN [x |-> x, more |-> TRUE] ELSE Turn(h[k - 1], i)]
    BY <1>2, <2>1, Zenon DEF LastPass
  <2>3. ASSUME NEW k \in 0..7
        PROVE  h[k] = IF k = 0 THEN [x |-> x, more |-> TRUE] ELSE Turn(h[k - 1], i)
    BY <2>2, Zenon
  <2>4. h[0] = [x |-> x, more |-> TRUE]  BY <2>3
  <2>5. ASSUME NEW k \in 0..6 PROVE h[k + 1] = Turn(h[k], i)
    <3>1. k + 1 \in 0..7 /\ k + 1 # 0 /\ (k + 1) - 1 = k  OBVIOUS
    <3>2. h[k + 1] = Turn(h[(k + 1) - 1], i)  BY <2>3, <3>1
    <3> QED BY <3>1, <3>2
  <2> QED BY <2>1, <2>4, <2>5
<1>4. ASSUME NEW k \in 0..6, KayOK(run[k].x, i) PROVE KayOK(run[k + 1].x, i)
  BY <1>3, <1>4, TurnOK
<1>5. KayOK(run[0].x, i)  BY <1>3
<1>6. KayOK(run[1].x, i)  BY <1>4, <1>5
<1>7. KayOK(run[2].x, i)  BY <1>4, <1>6
<1>8. KayOK(run[3].x, i)  BY <1>4, <1>7
<1>9. KayOK(run[4].x, i)  BY <1>4, <1>8
<1>10. KayOK(run[5].x, i)  BY <1>4, <1>9
<1>11. KayOK(run[6].x, i)  BY <1>4, <1>10
<1>12. KayOK(run[7].x, i)  BY <1>4, <1>11
<1> QED BY <1>1, <1>12 DEF LastPass

-----------------------------------------------------------------------------
(* Receiving. *)

(* ieee802_1x_cp_sm_step registers step_cb. *)
LEMMA CpSmStepOK ==
  ASSUME NEW x, NEW i, KayOK(x, i), NEW y, y = cp_sm_step(x)
  PROVE  KayOK(y, i) /\ y.p = x.p /\ y.sa = x.sa
<1>1. /\ x = KayRecord(x.cp, x.sa, x.p, x.out) /\ x.cp \in CpRecord /\ PortOK(x.cp)
      /\ SaOK(x.sa) /\ Stored(x.sa) /\ x.p \in ParticipantRecord
      /\ (\A k \in x.out : MsgOK(k)) /\ Role(x.cp, x.sa, x.p, i)
  BY DEF KayOK
<1>2. PICK c : c = [x.cp EXCEPT !.step_timer = TRUE]  OBVIOUS
<1>3. y = KayRecord(c, x.sa, x.p, x.out)  BY <1>1, <1>2 DEF cp_sm_step, KayRecord
<1>4. c \in CpRecord /\ PortOK(c)  BY <1>1, <1>2, ZenonT(60) DEF CpRecord, PortOK
<1>5. SameServer(x.cp, c) /\ c.connect = x.cp.connect  BY <1>1, <1>2 DEF CpRecord, SameServer
<1>6. Role(c, x.sa, x.p, i)  BY <1>1, <1>5, SameServerKeeps
<1> QED BY <1>1, <1>3, <1>4, <1>6, KayIntro, KayFields

(* ieee802_1x_cp_connect_secure, _authenticated and _unauthenticated: the  *)
(* last two when MACsec is not advised (any more).                         *)
LEMMA ConnectOK ==
  ASSUME NEW x, NEW i, KayOK(x, i), NEW how \in Connect,
         Mine(i) /\ x.p.advised => how = "SECURE", NEW y, y = connect(x, how)
  PROVE  KayOK(y, i) /\ y.p = x.p /\ y.sa = x.sa
<1>1. /\ x = KayRecord(x.cp, x.sa, x.p, x.out) /\ x.cp \in CpRecord /\ PortOK(x.cp)
      /\ SaOK(x.sa) /\ Stored(x.sa) /\ x.p \in ParticipantRecord
      /\ (\A k \in x.out : MsgOK(k)) /\ Role(x.cp, x.sa, x.p, i)
  BY DEF KayOK
<1>2. PICK c : c = [x.cp EXCEPT !.connect = how]  OBVIOUS
<1>3. PICK z : z = KayRecord(c, x.sa, x.p, x.out)  OBVIOUS
<1>4. [x EXCEPT !.cp.connect = how] = z  BY <1>1, <1>2, <1>3 DEF KayRecord
<1>5. c \in CpRecord /\ PortOK(c)  BY <1>1, <1>2, ZenonT(60) DEF CpRecord, PortOK
<1>6. SameServer(x.cp, c) /\ c.connect = how  BY <1>1, <1>2 DEF CpRecord, SameServer
<1>7. Role(c, x.sa, x.p, i)
  BY <1>1, <1>6 DEF Role, ServerRole, Server, SameServer
<1>8. KayOK(z, i) /\ z.p = x.p /\ z.sa = x.sa  BY <1>1, <1>3, <1>5, <1>7, KayIntro, KayFields
<1>9. y = cp_sm_step(z)  BY <1>4 DEF connect
<1> QED BY <1>8, <1>9, CpSmStepOK

(* ieee802_1x_kay_elect_key_server: the key server distributes nothing any *)
(* more, a supplicant has its principal participant.                       *)
LEMMA ElectOK ==
  ASSUME NEW x, NEW i, KayOK(x, i), NEW y, y = elect_key_server(x, i)
  PROVE  KayOK(y, i) /\ (Mine(i) => ~y.p.to_dist_sak)
<1>1. /\ x = KayRecord(x.cp, x.sa, x.p, x.out) /\ x.cp \in CpRecord /\ PortOK(x.cp)
      /\ SaOK(x.sa) /\ Stored(x.sa) /\ x.p \in ParticipantRecord
      /\ (\A k \in x.out : MsgOK(k)) /\ Role(x.cp, x.sa, x.p, i)
  BY DEF KayOK
<1>2. CASE Mine(i)
  <2>1. PICK c : c = [x.cp EXCEPT !.elected_self = TRUE]  OBVIOUS
  <2>2. PICK q : q = [x.p EXCEPT !.new_sak = TRUE, !.to_dist_sak = FALSE]  OBVIOUS
  <2>3. y = [x EXCEPT !.p.new_sak = TRUE, !.p.to_dist_sak = FALSE, !.cp.elected_self = TRUE]
    BY <1>2 DEF elect_key_server
  <2>4. y = KayRecord(c, x.sa, q, x.out)  BY <1>1, <2>1, <2>2, <2>3 DEF KayRecord
  <2>5. c \in CpRecord /\ PortOK(c)  BY <1>1, <2>1, ZenonT(60) DEF CpRecord, PortOK
  <2>6. SameServer(x.cp, c) /\ c.connect = x.cp.connect  BY <1>1, <2>1 DEF CpRecord, SameServer
  <2>7. Role(c, x.sa, x.p, i)  BY <1>1, <2>6, SameServerKeeps
  <2>8. q \in ParticipantRecord  BY <1>1, <2>2, ZenonT(60) DEF ParticipantRecord
  <2>9. /\ q.dist_kn = x.p.dist_kn /\ q.dist_an = x.p.dist_an /\ q.advised = x.p.advised
        /\ q.session = x.p.session /\ q.to_dist_sak = FALSE
    BY <1>1, <2>2 DEF ParticipantRecord
  <2>10. Role(c, x.sa, q, i)  BY <1>2, <2>7, <2>9 DEF Role, ServerRole
  <2> QED BY <1>1, <2>4, <2>5, <2>8, <2>9, <2>10, KayIntro, KayFields
<1>3. CASE ~Mine(i)
  <2>1. PICK c : c = [x.cp EXCEPT !.elected_self = FALSE]  OBVIOUS
  <2>2. PICK s : s = [x.sa EXCEPT !.principal = TRUE]  OBVIOUS
  <2>3. PICK q : q = [x.p EXCEPT !.ks_known = TRUE]  OBVIOUS
  <2>4. PICK z : z = [x EXCEPT !.cp.elected_self = FALSE, !.sa.principal = TRUE,
                               !.p.ks_known = TRUE]
    OBVIOUS
  <2>5. y = IF x.p.ks_known THEN z ELSE cp_sm_step([z EXCEPT !.cp.chgd_server = TRUE])
    BY <1>3, <2>4 DEF elect_key_server
  <2>6. z = KayRecord(c, s, q, x.out)  BY <1>1, <2>1, <2>2, <2>3, <2>4 DEF KayRecord
  <2>7. c \in CpRecord /\ PortOK(c)  BY <1>1, <2>1, ZenonT(60) DEF CpRecord, PortOK
  <2>8. /\ s \in SaRecord /\ s.principal /\ s.sak = x.sa.sak /\ s.user = x.sa.user
        /\ s.rxsa = x.sa.rxsa /\ s.txsa = x.sa.txsa
    BY <1>1, <2>2 DEF SaOK, SaRecord
  <2>9. SaOK(s) /\ Stored(s)
    BY <1>1, <2>8, SameStoreKeeps DEF Keeps, Stored, Placed, Owned
  <2>10. q \in ParticipantRecord  BY <1>1, <2>3, ZenonT(60) DEF ParticipantRecord
  <2>11. q.new_sak = x.p.new_sak /\ q.to_dist_sak = x.p.to_dist_sak
    BY <1>1, <2>3 DEF ParticipantRecord
  <2>12. ~q.new_sak /\ ~q.to_dist_sak  BY <1>1, <1>3, <2>11 DEF Role
  <2>13. KayOK(z, i)  BY <1>1, <1>3, <2>6, <2>7, <2>9, <2>10, <2>12, KayIntro DEF Role
  <2>14. PICK d : d = [c EXCEPT !.chgd_server = TRUE]  OBVIOUS
  <2>15. [z EXCEPT !.cp.chgd_server = TRUE] = KayRecord(d, s, q, x.out)
    <3>1. z.cp = c  BY <2>6, KayFields
    <3>2. [z EXCEPT !.cp.chgd_server = TRUE] = WithCp(z, d)  BY <2>14, <3>1 DEF WithCp
    <3> QED BY <2>6, <3>2, SetCp
  <2>16. d \in CpRecord /\ PortOK(d)  BY <2>7, <2>14, ZenonT(60) DEF CpRecord, PortOK
  <2>17. KayOK(KayRecord(d, s, q, x.out), i)
    BY <1>1, <1>3, <2>9, <2>10, <2>12, <2>16, KayIntro DEF Role
  <2> QED BY <1>3, <2>5, <2>13, <2>15, <2>17, CpSmStepOK
<1> QED BY <1>2, <1>3

(* ieee802_1x_kay_decide_macsec_use. *)
LEMMA DecideOK ==
  ASSUME NEW x, NEW i, KayOK(x, i), Mine(i) => ~x.p.to_dist_sak
  PROVE  KayOK(decide_macsec_use(x, i), i)
<1>1. CASE ~Mine(i)  BY <1>1 DEF decide_macsec_use
<1>2. CASE Mine(i)
  <2>1. /\ x = KayRecord(x.cp, x.sa, x.p, x.out) /\ x.cp \in CpRecord /\ PortOK(x.cp)
        /\ SaOK(x.sa) /\ Stored(x.sa) /\ x.p \in ParticipantRecord
        /\ (\A k \in x.out : MsgOK(k)) /\ ServerRole(x.cp, x.sa, x.p)
    BY <1>2 DEF KayOK, Role
  <2>2. PICK c : c = [x.cp EXCEPT !.connect = "SECURE"]  OBVIOUS
  <2>3. PICK q : q = [x.p EXCEPT !.advised = TRUE]  OBVIOUS
  <2>4. PICK z : z = KayRecord(c, x.sa, q, x.out)  OBVIOUS
  <2>5. decide_macsec_use(x, i)
          = cp_sm_step([[x EXCEPT !.p.advised = TRUE] EXCEPT !.cp.connect = "SECURE"])
    BY <1>2 DEF decide_macsec_use, connect
  <2>6. [[x EXCEPT !.p.advised = TRUE] EXCEPT !.cp.connect = "SECURE"] = z
    <3>1. PICK w : w = [x EXCEPT !.p.advised = TRUE]  OBVIOUS
    <3>2. w = WithP(x, q)  BY <2>3, <3>1 DEF WithP
    <3>3. w = KayRecord(x.cp, x.sa, q, x.out)  BY <2>1, <3>2, SetP
    <3>4. w.cp = x.cp  BY <3>3, KayFields
    <3>5. [w EXCEPT !.cp.connect = "SECURE"] = WithCp(w, c)  BY <2>2, <3>4 DEF WithCp
    <3>6. [w EXCEPT !.cp.connect = "SECURE"] = z  BY <2>4, <3>3, <3>5, SetCp
    <3> QED BY <3>1, <3>6
  <2>7. c \in CpRecord /\ PortOK(c)
    BY <2>1, <2>2, ZenonT(60) DEF CpRecord, PortOK, Connect
  <2>8. SameServer(x.cp, c) /\ c.connect = "SECURE"  BY <2>1, <2>2 DEF CpRecord, SameServer
  <2>9. q \in ParticipantRecord  BY <2>1, <2>3, ZenonT(60) DEF ParticipantRecord
  <2>10. /\ q.dist_kn = x.p.dist_kn /\ q.dist_an = x.p.dist_an
         /\ q.session = x.p.session /\ q.to_dist_sak = x.p.to_dist_sak
    BY <2>1, <2>3 DEF ParticipantRecord
  <2>11. Server(c, x.sa) /\ c.dki = x.cp.dki
    BY <2>1, <2>8 DEF ServerRole, Server, SameServer
  <2>12. ServerRole(c, x.sa, q)  BY <1>2, <2>1, <2>8, <2>10, <2>11 DEF ServerRole
  <2>13. KayOK(z, i)  BY <1>2, <2>1, <2>4, <2>7, <2>9, <2>12, KayIntro DEF Role
  <2> QED BY <2>5, <2>6, <2>13, CpSmStepOK
<1> QED BY <1>1, <1>2

(* ieee802_1x_kay_move_live_peer. *)
LEMMA MoveLiveOK ==
  ASSUME NEW x, NEW i, KayOK(x, i)
  PROVE  KayOK(move_live_peer(x, i), i)
<1>1. /\ x = KayRecord(x.cp, x.sa, x.p, x.out) /\ x.cp \in CpRecord /\ PortOK(x.cp)
      /\ SaOK(x.sa) /\ Stored(x.sa) /\ x.p \in ParticipantRecord
      /\ (\A k \in x.out : MsgOK(k)) /\ Role(x.cp, x.sa, x.p, i)
  BY DEF KayOK
<1>2. PICK s : s = [x.sa EXCEPT !.rxsc = TRUE]  OBVIOUS
<1>3. PICK q : q = [x.p EXCEPT !.peer = "live"]  OBVIOUS
<1>4. PICK a : a = [x EXCEPT !.p.peer = "live", !.sa.rxsc = TRUE]  OBVIOUS
<1>5. a = KayRecord(x.cp, s, q, x.out)  BY <1>1, <1>2, <1>3, <1>4 DEF KayRecord
<1>6. /\ s \in SaRecord /\ s.principal = x.sa.principal /\ s.sak = x.sa.sak
      /\ s.user = x.sa.user /\ s.rxsa = x.sa.rxsa /\ s.txsa = x.sa.txsa
      /\ s.new_key = x.sa.new_key
  BY <1>1, <1>2 DEF SaOK, SaRecord
<1>7. SaOK(s) /\ Stored(s)
  BY <1>1, <1>6, SameStoreKeeps DEF Keeps, Stored, Placed, Owned
<1>8. q \in ParticipantRecord  BY <1>1, <1>3, ZenonT(60) DEF ParticipantRecord
<1>9. SameRole(x.p, q) /\ q.new_sak = x.p.new_sak
  BY <1>1, <1>3 DEF ParticipantRecord, SameRole
<1>10. Role(x.cp, s, x.p, i)
  BY <1>1, <1>6 DEF Role, ServerRole, Server, NewKeyListed, Listed
<1>11. Role(x.cp, s, q, i)  BY <1>9, <1>10, SameRoleKeeps
<1>12. KayOK(a, i)  BY <1>1, <1>5, <1>7, <1>8, <1>11, KayIntro
<1>13. PICK e : e = elect_key_server(a, i)  OBVIOUS
<1>14. KayOK(e, i) /\ (Mine(i) => ~e.p.to_dist_sak)  BY <1>12, <1>13, ElectOK
<1>15. move_live_peer(x, i) = decide_macsec_use(e, i)  BY <1>4, <1>13 DEF move_live_peer
<1> QED BY <1>14, <1>15, DecideOK

(* The basic parameter set. *)
LEMMA BasicOK ==
  ASSUME NEW x, NEW i, KayOK(x, i), NEW m, MsgOK(m)
  PROVE  KayOK(decode_basic(x, m), i)
<1>1. /\ x = KayRecord(x.cp, x.sa, x.p, x.out) /\ x.cp \in CpRecord /\ PortOK(x.cp)
      /\ SaOK(x.sa) /\ Stored(x.sa) /\ x.p \in ParticipantRecord
      /\ (\A k \in x.out : MsgOK(k)) /\ Role(x.cp, x.sa, x.p, i)
  BY DEF KayOK
<1>2. PICK v : v = IF x.p.peer = "none" THEN "potential" ELSE x.p.peer  OBVIOUS
<1>3. PICK q : q = [x.p EXCEPT !.peer = v, !.peer_mn = m.mn, !.peer_age = 0]  OBVIOUS
<1>4. decode_basic(x, m) = KayRecord(x.cp, x.sa, q, x.out)
  <2>1. decode_basic(x, m) = [x EXCEPT !.p.peer = v, !.p.peer_mn = m.mn, !.p.peer_age = 0]
    BY <1>2 DEF decode_basic
  <2>2. decode_basic(x, m) = WithP(x, q)  BY <1>1, <1>3, <2>1 DEF WithP, KayRecord
  <2> QED BY <1>1, <2>2, SetP
<1>5. v \in {"none", "potential", "live"}  BY <1>1, <1>2 DEF ParticipantRecord
<1>6. m.mn \in Nat /\ 0 \in 0..LifeTime + 1  BY DEF MsgOK, LifeTime
<1>7. q \in ParticipantRecord  BY <1>1, <1>3, <1>5, <1>6, ZenonT(60) DEF ParticipantRecord
<1>8. SameRole(x.p, q) /\ q.new_sak = x.p.new_sak
  BY <1>1, <1>3 DEF ParticipantRecord, SameRole
<1> QED BY <1>1, <1>4, <1>7, <1>8, SameRoleKeeps, KayIntro

(* The SAK Use parameter set. *)
LEMMA SakUseOK ==
  ASSUME NEW x, NEW i, KayOK(x, i), NEW u
  PROVE  KayOK(decode_sak_use(x, i, u), i)
<1> DEFINE latest  == u.ltx \/ u.lrx
           same    == latest /\ u.lki = x.sa.lki /\ u.lan = x.sa.lan
           server  == latest /\ u.ltx /\ ~Mine(i)
           y == [x EXCEPT !.p.sak_used = @ \/ same,
                          !.cp.server_transmitting = @ \/ server,
                          !.cp.step_timer = @ \/ server]
           w == [y EXCEPT !.p.to_dist_sak = FALSE, !.cp.all_receiving = TRUE]
           z == IF y.p.sak_used THEN cp_sm_step(w) ELSE y
           r == [z EXCEPT !.p.new_sak = @ \/ (Mine(i) /\ u.exhausted)]
<1>1. /\ x = KayRecord(x.cp, x.sa, x.p, x.out) /\ x.cp \in CpRecord /\ PortOK(x.cp)
      /\ SaOK(x.sa) /\ Stored(x.sa) /\ x.p \in ParticipantRecord
      /\ (\A k \in x.out : MsgOK(k)) /\ Role(x.cp, x.sa, x.p, i)
  BY DEF KayOK
<1>2. decode_sak_use(x, i, u) \in {x, y, r}
  BY Zenon DEF decode_sak_use
<1> HIDE DEF latest, same, server
<1>3. KayOK(y, i)
  <2>1. PICK c : c = [x.cp EXCEPT !.server_transmitting = @ \/ server, !.step_timer = @ \/ server]
    OBVIOUS
  <2>2. PICK q : q = [x.p EXCEPT !.sak_used = @ \/ same]  OBVIOUS
  <2>3. y = KayRecord(c, x.sa, q, x.out)
    <3>1. PICK a : a = WithP(x, q)  OBVIOUS
    <3>2. a = [x EXCEPT !.p.sak_used = @ \/ same]  BY <2>2, <3>1 DEF WithP
    <3>3. a = KayRecord(x.cp, x.sa, q, x.out)  BY <1>1, <3>1, SetP
    <3>4. a.cp = x.cp  BY <3>3, KayFields
    <3>5. y = [a EXCEPT !.cp.server_transmitting = @ \/ server,
                        !.cp.step_timer = @ \/ server]
      BY <3>2
    <3>6. y = WithCp(a, c)  BY <2>1, <3>4, <3>5 DEF WithCp
    <3> QED BY <3>3, <3>6, SetCp
  <2>4. (x.cp.server_transmitting \/ server) \in BOOLEAN /\ (x.cp.step_timer \/ server) \in BOOLEAN
        /\ (x.p.sak_used \/ same) \in BOOLEAN
    OBVIOUS
  <2>5. c \in CpRecord /\ PortOK(c)
    <3>1. PICK a, b : a = (x.cp.server_transmitting \/ server) /\ b = (x.cp.step_timer \/ server)
      OBVIOUS
    <3>2. a \in BOOLEAN /\ b \in BOOLEAN  BY <2>4, <3>1
    <3>3. c = [x.cp EXCEPT !.server_transmitting = a, !.step_timer = b]
      BY <1>1, <2>1, <3>1 DEF CpRecord
    <3> QED BY <1>1, <3>2, <3>3, ZenonT(60) DEF CpRecord, PortOK
  <2>6. SameServer(x.cp, c) /\ c.connect = x.cp.connect
    BY <1>1, <2>1 DEF CpRecord, SameServer
  <2>7. q \in ParticipantRecord  BY <1>1, <2>2, <2>4, ZenonT(60) DEF ParticipantRecord
  <2>8. SameRole(x.p, q) /\ q.new_sak = x.p.new_sak
    BY <1>1, <2>2 DEF ParticipantRecord, SameRole
  <2>9. Role(c, x.sa, q, i)  BY <1>1, <2>6, <2>8, SameServerKeeps, SameRoleKeeps
  <2> QED BY <1>1, <2>3, <2>5, <2>7, <2>9, KayIntro
<1> HIDE DEF y
<1>4. /\ y = KayRecord(y.cp, y.sa, y.p, y.out) /\ y.cp \in CpRecord /\ PortOK(y.cp)
      /\ SaOK(y.sa) /\ Stored(y.sa) /\ y.p \in ParticipantRecord
      /\ (\A k \in y.out : MsgOK(k)) /\ Role(y.cp, y.sa, y.p, i)
  BY <1>3 DEF KayOK
<1>5. KayOK(w, i)
  <2>1. PICK c : c = [y.cp EXCEPT !.all_receiving = TRUE]  OBVIOUS
  <2>2. PICK q : q = [y.p EXCEPT !.to_dist_sak = FALSE]  OBVIOUS
  <2>3. w = KayRecord(c, y.sa, q, y.out)
    <3>1. PICK a : a = WithP(y, q)  OBVIOUS
    <3>2. a = KayRecord(y.cp, y.sa, q, y.out)  BY <1>4, <3>1, SetP
    <3>3. a.cp = y.cp  BY <3>2, KayFields
    <3>4. w = WithCp(a, c)  BY <2>1, <2>2, <3>1, <3>3 DEF WithP, WithCp
    <3> QED BY <3>2, <3>4, SetCp
  <2>4. c \in CpRecord /\ PortOK(c)  BY <1>4, <2>1, ZenonT(60) DEF CpRecord, PortOK
  <2>5. SameServer(y.cp, c) /\ c.connect = y.cp.connect
    BY <1>4, <2>1 DEF CpRecord, SameServer
  <2>6. q \in ParticipantRecord  BY <1>4, <2>2, ZenonT(60) DEF ParticipantRecord
  <2>7. /\ q.dist_kn = y.p.dist_kn /\ q.dist_an = y.p.dist_an /\ q.advised = y.p.advised
        /\ q.session = y.p.session /\ q.to_dist_sak = FALSE /\ q.new_sak = y.p.new_sak
    BY <1>4, <2>2 DEF ParticipantRecord
  <2>8. Role(c, y.sa, y.p, i)  BY <1>4, <2>5, SameServerKeeps
  <2>9. Role(c, y.sa, q, i)  BY <2>7, <2>8 DEF Role, ServerRole
  <2> QED BY <1>4, <2>3, <2>4, <2>6, <2>9, KayIntro
<1> HIDE DEF w
<1>6. KayOK(z, i)  BY <1>3, <1>5, CpSmStepOK
<1> HIDE DEF z
<1>7. KayOK(r, i)
  <2>1. /\ z = KayRecord(z.cp, z.sa, z.p, z.out) /\ z.cp \in CpRecord /\ PortOK(z.cp)
        /\ SaOK(z.sa) /\ Stored(z.sa) /\ z.p \in ParticipantRecord
        /\ (\A k \in z.out : MsgOK(k)) /\ Role(z.cp, z.sa, z.p, i)
    BY <1>6 DEF KayOK
  <2>2. PICK b \in BOOLEAN : b = (z.p.new_sak \/ (Mine(i) /\ u.exhausted))  OBVIOUS
  <2>3. PICK q : q = [z.p EXCEPT !.new_sak = b]  OBVIOUS
  <2>4. r = KayRecord(z.cp, z.sa, q, z.out)  BY <2>1, <2>2, <2>3 DEF KayRecord
  <2>5. q \in ParticipantRecord  BY <2>1, <2>2, <2>3, ZenonT(60) DEF ParticipantRecord
  <2>6. SameRole(z.p, q) /\ q.new_sak = b
    BY <2>1, <2>3 DEF ParticipantRecord, SameRole
  <2>7. z.p.new_sak \in BOOLEAN  BY <2>1 DEF ParticipantRecord
  <2>8. ~Mine(i) => b = z.p.new_sak  BY <2>2, <2>7
  <2> QED BY <2>1, <2>4, <2>5, <2>6, <2>8, SameRoleKeeps, KayIntro
<1> QED BY <1>2, <1>3, <1>7

(* A KaY with another participant that fits its role. *)
LEMMA WithPOK ==
  ASSUME NEW x, NEW i, KayOK(x, i), NEW q \in ParticipantRecord, Role(x.cp, x.sa, q, i)
  PROVE  LET y == WithP(x, q)
         IN  KayOK(y, i) /\ y.p = q /\ y.sa = x.sa /\ y.cp = x.cp
<1>1. /\ x = KayRecord(x.cp, x.sa, x.p, x.out) /\ x.cp \in CpRecord /\ PortOK(x.cp)
      /\ SaOK(x.sa) /\ Stored(x.sa) /\ (\A k \in x.out : MsgOK(k))
  BY DEF KayOK
<1>2. WithP(x, q) = KayRecord(x.cp, x.sa, q, x.out)  BY <1>1, SetP
<1> QED BY <1>1, <1>2, KayIntro, KayFields

(* p with other fields that Role does not look at. *)
LEMMA ParticipantOK ==
  ASSUME NEW x, NEW i, KayOK(x, i), NEW q \in ParticipantRecord, SameRole(x.p, q),
         Mine(i) \/ q.new_sak = x.p.new_sak
  PROVE  LET y == WithP(x, q)
         IN  KayOK(y, i) /\ y.p = q /\ y.sa = x.sa /\ y.cp = x.cp
<1>1. Role(x.cp, x.sa, x.p, i)  BY DEF KayOK
<1>2. Role(x.cp, x.sa, q, i)  BY <1>1, SameRoleKeeps
<1> QED BY <1>2, WithPOK

(* Marking MACsec as advised on a node that is not the key server. *)
LEMMA AdvisedOK ==
  ASSUME NEW x, NEW i, KayOK(x, i), ~Mine(i), NEW y, y = [x EXCEPT !.p.advised = TRUE]
  PROVE  KayOK(y, i) /\ y.sa = x.sa
<1>1. x.p \in ParticipantRecord /\ Role(x.cp, x.sa, x.p, i)  BY DEF KayOK
<1>2. PICK q : q = [x.p EXCEPT !.advised = TRUE]  OBVIOUS
<1>3. y = WithP(x, q)  BY <1>2 DEF WithP
<1>4. q \in ParticipantRecord  BY <1>1, <1>2, ZenonT(60) DEF ParticipantRecord
<1>5. q.new_sak = x.p.new_sak /\ q.to_dist_sak = x.p.to_dist_sak
  BY <1>1, <1>2 DEF ParticipantRecord
<1>6. Role(x.cp, x.sa, q, i)  BY <1>1, <1>5 DEF Role
<1>7. KayOK(WithP(x, q), i) /\ WithP(x, q).sa = x.sa  BY <1>4, <1>6, WithPOK
<1> QED BY <1>3, <1>7, Zenon

(* The Distributed SAK parameter set: a SAK that is not listed yet is      *)
(* added under its AN.                                                     *)
LEMMA DistSakOK ==
  ASSUME NEW x, NEW i, KayOK(x, i), NEW k \in KN
  PROVE  KayOK(decode_dist_sak(x, i, k, AnOf(k)), i)
<1>1. PICK an : an = AnOf(k)  OBVIOUS
<1>2. PICK a : a = [x EXCEPT !.p.advised = TRUE]  OBVIOUS
<1>3. PICK y : y = connect(a, "SECURE")  OBVIOUS
<1>4. PICK t : t = [AddSak(y.sa, k, an) EXCEPT !.to_use_sak = TRUE]  OBVIOUS
<1>5. PICK c : c = [y.cp EXCEPT !.dki = k, !.dan = an, !.new_sak = TRUE]  OBVIOUS
<1>6. PICK r : r = [y EXCEPT !.sa = [AddSak(@, k, an) EXCEPT !.to_use_sak = TRUE],
                             !.cp = [@ EXCEPT !.dki = k, !.dan = an, !.new_sak = TRUE]]
  OBVIOUS
<1>7. decode_dist_sak(x, i, k, an) =
        IF ~x.sa.principal \/ Mine(i) \/ ~Live(x) \/ ~x.p.ks_known THEN x
        ELSE IF Listed(x.sa, k) THEN y ELSE r
  BY <1>2, <1>3, <1>6, Zenon DEF decode_dist_sak
<1>8. CASE ~x.sa.principal \/ Mine(i) \/ ~Live(x) \/ ~x.p.ks_known
  BY <1>1, <1>7, <1>8
<1>9. CASE ~(~x.sa.principal \/ Mine(i) \/ ~Live(x) \/ ~x.p.ks_known)
  <2>1. ~Mine(i) /\ x.sa.principal  BY <1>9
  <2>2. KayOK(a, i) /\ a.sa = x.sa  BY <1>2, <2>1, AdvisedOK
  <2>3. "SECURE" \in Connect  BY DEF Connect
  <2>4. KayOK(y, i) /\ y.sa = x.sa  BY <1>3, <2>1, <2>2, <2>3, ConnectOK
  <2>5. /\ y = KayRecord(y.cp, y.sa, y.p, y.out) /\ y.cp \in CpRecord /\ PortOK(y.cp)
        /\ SaOK(y.sa) /\ Stored(y.sa) /\ y.p \in ParticipantRecord
        /\ (\A m \in y.out : MsgOK(m)) /\ Role(y.cp, y.sa, y.p, i)
    BY <2>4 DEF KayOK
  <2>6. CASE ~Listed(x.sa, k)
    <3>1. y.sa.sak[k] = NoAN /\ y.sa.principal  BY <2>1, <2>4, <2>6 DEF Listed
    <3>2. PICK b : b = AddSak(y.sa, k, an)  OBVIOUS
    <3>3. SaOK(b) /\ Stored(b) /\ b.principal  BY <1>1, <2>5, <3>1, <3>2, AddSakStored
    <3>4. t = [b EXCEPT !.to_use_sak = TRUE]  BY <1>4, <3>2
    <3>5. /\ t \in SaRecord /\ t.principal = b.principal /\ t.sak = b.sak /\ t.user = b.user
          /\ t.rxsa = b.rxsa /\ t.txsa = b.txsa
      BY <3>3, <3>4 DEF SaOK, SaRecord
    <3>6. SaOK(t) /\ Stored(t)
      BY <3>3, <3>5, SameStoreKeeps DEF Keeps, Stored, Placed, Owned
    <3>7. k \in KI /\ an \in AN  BY <1>1, MaxKNAssumption DEF AnOf, KN, KI, AN
    <3>8. c \in CpRecord /\ PortOK(c)  BY <1>5, <2>5, <3>7, ZenonT(60) DEF CpRecord, PortOK
    <3>9. PICK v : v = WithSa(y, t)  OBVIOUS
    <3>10. v = KayRecord(y.cp, t, y.p, y.out)  BY <2>5, <3>9, SetSa
    <3>11. v.cp = y.cp  BY <3>10, KayFields
    <3>12. r = WithCp(v, c)  BY <1>4, <1>5, <1>6, <3>9, <3>11 DEF WithSa, WithCp
    <3>13. r = KayRecord(c, t, y.p, y.out)  BY <3>10, <3>12, SetCp
    <3>14. Role(c, t, y.p, i)  BY <2>1, <2>5 DEF Role
    <3>15. KayOK(r, i)  BY <2>5, <3>6, <3>8, <3>13, <3>14, KayIntro
    <3> QED BY <1>1, <1>7, <1>9, <2>6, <3>15
  <2> QED BY <1>1, <1>7, <1>9, <2>4, <2>6
<1> QED BY <1>8, <1>9

(* ieee802_1x_kay_decode_mkpdu. *)
LEMMA DecodeOK ==
  ASSUME NEW x, NEW i, KayOK(x, i), NEW m, MsgOK(m)
  PROVE  KayOK(decode_mkpdu(x, i, m), i)
<1>1. PICK b : b = decode_basic(x, m)  OBVIOUS
<1>2. PICK l : l = IF i_in_peerlist(b, m) /\ ~Live(b) THEN move_live_peer(b, i) ELSE b
  OBVIOUS
<1>3. PICK u : u = IF m.use.kind = "use" THEN decode_sak_use(l, i, m.use) ELSE l  OBVIOUS
<1>4. PICK d : d = IF m.kn # NoKey THEN decode_dist_sak(u, i, m.kn, m.an) ELSE u  OBVIOUS
<1>5. PICK r : r = [d EXCEPT !.p.retry_count = 0]  OBVIOUS
<1>6. decode_mkpdu(x, i, m) = IF Accepts(x, m) THEN r ELSE x
  BY <1>1, <1>2, <1>3, <1>4, <1>5, Zenon DEF decode_mkpdu
<1>7. KayOK(b, i)  BY <1>1, BasicOK
<1>8. KayOK(l, i)  BY <1>2, <1>7, MoveLiveOK
<1>9. KayOK(u, i)  BY <1>3, <1>8, SakUseOK
<1>10. KayOK(d, i)
  <2>1. CASE m.kn = NoKey  BY <1>4, <1>9, <2>1
  <2>2. CASE m.kn # NoKey
    <3>1. m.kn \in KN /\ m.an = AnOf(m.kn)  BY <2>2, KIFacts DEF MsgOK
    <3>2. KayOK(decode_dist_sak(u, i, m.kn, m.an), i)  BY <1>9, <3>1, DistSakOK
    <3> QED BY <1>4, <2>2, <3>2
  <2> QED BY <2>1, <2>2
<1>11. PICK q : q = [d.p EXCEPT !.retry_count = 0]  OBVIOUS
<1>12. d.p \in ParticipantRecord  BY <1>10 DEF KayOK
<1>13. 0 \in 0..MaxRetryCnt  BY DEF MaxRetryCnt
<1>14. q \in ParticipantRecord  BY <1>11, <1>12, <1>13, ZenonT(60) DEF ParticipantRecord
<1>15. SameRole(d.p, q) /\ q.new_sak = d.p.new_sak
  BY <1>11, <1>12 DEF ParticipantRecord, SameRole
<1>16. r = WithP(d, q)  BY <1>5, <1>11 DEF WithP
<1>17. KayOK(r, i)  BY <1>10, <1>14, <1>15, <1>16, ParticipantOK
<1> QED BY <1>6, <1>17

-----------------------------------------------------------------------------
(* The participant timer. *)

(* What decides whether a SAK can be generated. *)
SameCounters(p, q) ==
  q.new_sak = p.new_sak /\ q.dist_kn = p.dist_kn /\ q.session = p.session

(* The loss of the peer: its SAs go, MACsec is not advised any more. *)
LEMMA RemoveExpiredOK ==
  ASSUME NEW x, NEW i, KayOK(x, i)
  PROVE  KayOK(RemoveExpiredPeer(x), i) /\ SameCounters(x.p, RemoveExpiredPeer(x).p)
<1>1. PICK g : g = [x EXCEPT !.p.peer = "none", !.p.peer_mn = 0, !.p.peer_age = 0,
                             !.p.sak_used = FALSE]
  OBVIOUS
<1>2. PICK h : h = [g EXCEPT
               !.p.advised = FALSE,
               !.sa = [delete_transmit_sas(deinit_receive_sc(@)) EXCEPT !.to_use_sak = FALSE]]
  OBVIOUS
<1>3. PICK r : r = connect(h, "AUTHENTICATED")  OBVIOUS
<1>4. RemoveExpiredPeer(x) =
        IF x.p.peer = "none" \/ x.p.peer_age <= LifeTime THEN x
        ELSE IF ~Live(x) THEN g ELSE r
  <2>1. RemoveExpiredPeer(x) =
          IF x.p.peer = "none" \/ x.p.peer_age <= LifeTime THEN x
          ELSE IF ~Live(x) THEN g
          ELSE connect([g EXCEPT
               !.p.advised = FALSE,
               !.sa = [delete_transmit_sas(deinit_receive_sc(@)) EXCEPT !.to_use_sak = FALSE]],
               "AUTHENTICATED")
    BY <1>1 DEF RemoveExpiredPeer
  <2> QED BY <1>2, <1>3, <2>1
<1>5. /\ x = KayRecord(x.cp, x.sa, x.p, x.out)
      /\ x.p \in ParticipantRecord /\ Role(x.cp, x.sa, x.p, i)
  BY DEF KayOK
<1>6. PICK q : q = [x.p EXCEPT !.peer = "none", !.peer_mn = 0, !.peer_age = 0,
                               !.sak_used = FALSE]
  OBVIOUS
<1>7. g = WithP(x, q)  BY <1>1, <1>5, <1>6 DEF WithP, KayRecord
<1>8. q \in ParticipantRecord
  <2>1. 0 \in Nat /\ 0 \in 0..LifeTime + 1  BY DEF LifeTime
  <2> QED BY <1>5, <1>6, <2>1, ZenonT(60) DEF ParticipantRecord
<1>9. SameRole(x.p, q) /\ q.new_sak = x.p.new_sak
  BY <1>5, <1>6 DEF ParticipantRecord, SameRole
<1>10. KayOK(g, i) /\ g.p = q  BY <1>7, <1>8, <1>9, ParticipantOK
<1>11. SameCounters(x.p, g.p)  BY <1>9, <1>10 DEF SameRole, SameCounters
<1>12. /\ g = KayRecord(g.cp, g.sa, g.p, g.out) /\ g.cp \in CpRecord /\ PortOK(g.cp)
       /\ SaOK(g.sa) /\ Stored(g.sa) /\ g.p \in ParticipantRecord
       /\ (\A k \in g.out : MsgOK(k)) /\ Role(g.cp, g.sa, g.p, i)
  BY <1>10 DEF KayOK
<1>13. PICK t : t = [delete_transmit_sas(deinit_receive_sc(g.sa)) EXCEPT !.to_use_sak = FALSE]
  OBVIOUS
<1>14. SaOK(t) /\ Installs(g.sa, t)  BY <1>12, <1>13, ExpiryInstalls
<1>15. Stored(t)  BY <1>12, <1>14, InstallsStored
<1>16. t.principal = g.sa.principal /\ t.sak = g.sa.sak /\ t.new_key = g.sa.new_key
  BY <1>14 DEF Installs
<1>17. PICK w : w = [g.p EXCEPT !.advised = FALSE]  OBVIOUS
<1>18. w \in ParticipantRecord  BY <1>12, <1>17, ZenonT(60) DEF ParticipantRecord
<1>19. /\ w.new_sak = g.p.new_sak /\ w.to_dist_sak = g.p.to_dist_sak /\ w.advised = FALSE
       /\ w.dist_kn = g.p.dist_kn /\ w.dist_an = g.p.dist_an /\ w.session = g.p.session
  BY <1>12, <1>17 DEF ParticipantRecord
<1>20. Role(g.cp, t, w, i)
  BY <1>12, <1>16, <1>19 DEF Role, ServerRole, Server, Listed
<1>21. PICK a : a = WithP(g, w)  OBVIOUS
<1>22. a = KayRecord(g.cp, g.sa, w, g.out)  BY <1>12, <1>21, SetP
<1>23. a.sa = g.sa  BY <1>22, KayFields
<1>24. h = WithSa(a, t)  BY <1>2, <1>13, <1>17, <1>21, <1>23 DEF WithP, WithSa
<1>25. h = KayRecord(g.cp, t, w, g.out)  BY <1>22, <1>24, SetSa
<1>26. KayOK(h, i) /\ h.p = w
  BY <1>12, <1>14, <1>15, <1>18, <1>20, <1>25, KayIntro, KayFields
<1>27. "AUTHENTICATED" \in Connect  BY DEF Connect
<1>28. KayOK(r, i) /\ r.p = w  BY <1>3, <1>19, <1>26, <1>27, ConnectOK
<1>29. SameCounters(x.p, r.p)  BY <1>11, <1>19, <1>28 DEF SameCounters
<1>30. SameCounters(x.p, x.p)  BY DEF SameCounters
<1> QED BY <1>4, <1>10, <1>11, <1>28, <1>29, <1>30

(* ieee802_1x_kay_generate_new_sak: the next key number and its AN. *)
LEMMA GenerateOK ==
  ASSUME NEW x, NEW i, KayOK(x, i), Mine(i), x.p.session # 0, x.p.dist_kn <= MaxKN
  PROVE  KayOK(generate_new_sak(x), i)
<1> DEFINE k  == x.p.dist_kn
           an == x.p.dist_an
           t  == [AddSak(x.sa, k, an) EXCEPT !.new_key = k]
           c  == [x.cp EXCEPT !.dki = k, !.dan = an, !.new_sak = TRUE]
           q  == [x.p EXCEPT !.sak_used = FALSE, !.to_dist_sak = TRUE,
                             !.dist_kn = @ + 1, !.dist_an = (@ + 1) % 4,
                             !.dist_age = 0]
<1>1. generate_new_sak(x) = cp_sm_step([x EXCEPT !.sa = t, !.cp = c, !.p = q])
  BY Zenon DEF generate_new_sak
<1>2. k = x.p.dist_kn /\ an = x.p.dist_an /\ t = [AddSak(x.sa, k, an) EXCEPT !.new_key = k]
  OBVIOUS
<1>3. c = [x.cp EXCEPT !.dki = k, !.dan = an, !.new_sak = TRUE]  OBVIOUS
<1>4. q = [x.p EXCEPT !.sak_used = FALSE, !.to_dist_sak = TRUE,
                      !.dist_kn = @ + 1, !.dist_an = (@ + 1) % 4, !.dist_age = 0]
  OBVIOUS
<1> HIDE DEF k, an, t, c, q
<1>5. PICK y : y = KayRecord(c, t, q, x.out)  OBVIOUS
<1>6. generate_new_sak(x) = cp_sm_step(y)
  <2>1. x = KayRecord(x.cp, x.sa, x.p, x.out)  BY DEF KayOK
  <2>2. [x EXCEPT !.sa = t, !.cp = c, !.p = q] = WithP(WithCp(WithSa(x, t), c), q)
    BY DEF WithSa, WithCp, WithP
  <2>3. WithSa(x, t) = KayRecord(x.cp, t, x.p, x.out)  BY <2>1, SetSa
  <2>4. WithCp(WithSa(x, t), c) = KayRecord(c, t, x.p, x.out)  BY <2>3, SetCp
  <2>5. WithP(WithCp(WithSa(x, t), c), q) = y  BY <1>5, <2>4, SetP
  <2> QED BY <1>1, <2>2, <2>5
<1>7. /\ x = KayRecord(x.cp, x.sa, x.p, x.out) /\ x.cp \in CpRecord /\ PortOK(x.cp)
      /\ SaOK(x.sa) /\ Stored(x.sa) /\ x.p \in ParticipantRecord
      /\ (\A m \in x.out : MsgOK(m)) /\ ServerRole(x.cp, x.sa, x.p)
  BY DEF KayOK, Role
<1>8. /\ Server(x.cp, x.sa) /\ k = x.cp.dki + 1 /\ an = AnOf(k) /\ x.sa.principal
  BY <1>2, <1>7 DEF ServerRole
<1>9. x.p.dist_kn \in 1..MaxKN + 1  BY <1>7 DEF ParticipantRecord
<1>10. k \in KN /\ k \in KI /\ k + 1 \in 1..MaxKN + 1
  BY <1>2, <1>9, MaxKNAssumption DEF KN, KI
<1>11. x.cp.dki \in KI /\ x.cp.lki \in KI /\ x.cp.oki \in KI  BY <1>7 DEF CpRecord
<1>12. an \in AN /\ (an + 1) % 4 = AnOf(k + 1) /\ (an + 1) % 4 \in AN /\ an # NoAN
  BY <1>8, <1>10 DEF KN, AnOf, AN, NoAN
<1>13. x.sa.sak[k] = NoAN
  <2>1. ~(k <= x.cp.dki)  BY <1>8, <1>11 DEF KI
  <2> QED BY <1>8, <1>10, <2>1 DEF Server
<1>14. PICK b : b = AddSak(x.sa, k, an)  OBVIOUS
<1>15. /\ SaOK(b) /\ Stored(b) /\ b.principal
       /\ \A j \in KN : b.sak[j] = IF j = k THEN an ELSE x.sa.sak[j]
  BY <1>7, <1>8, <1>10, <1>13, <1>14, AddSakStored
<1>16. t = [b EXCEPT !.new_key = k]  BY <1>2, <1>14
<1>17. /\ t \in SaRecord /\ t.principal = b.principal /\ t.sak = b.sak /\ t.user = b.user
       /\ t.rxsa = b.rxsa /\ t.txsa = b.txsa /\ t.new_key = k
  BY <1>10, <1>15, <1>16 DEF SaOK, SaRecord
<1>18. SaOK(t) /\ Stored(t)
  BY <1>15, <1>17, SameStoreKeeps DEF Keeps, Stored, Placed, Owned
<1>19. c \in CpRecord /\ PortOK(c)
  BY <1>3, <1>7, <1>10, <1>12, ZenonT(60) DEF CpRecord, PortOK
<1>20. /\ c.chgd_server = x.cp.chgd_server /\ c.current_cipher = x.cp.current_cipher
       /\ c.cipher = x.cp.cipher /\ c.state = x.cp.state /\ c.lki = x.cp.lki
       /\ c.oki = x.cp.oki /\ c.dki = k /\ c.connect = x.cp.connect
  BY <1>3, <1>7 DEF CpRecord
<1>21. q = [x.p EXCEPT !.sak_used = FALSE, !.to_dist_sak = TRUE,
                       !.dist_kn = k + 1, !.dist_an = (an + 1) % 4, !.dist_age = 0]
  BY <1>2, <1>4, <1>7 DEF ParticipantRecord
<1>22. q \in ParticipantRecord
  <2>1. 0 \in 0..LifeTime  BY DEF LifeTime
  <2> QED BY <1>7, <1>10, <1>12, <1>21, <2>1, ZenonT(60) DEF ParticipantRecord
<1>23. /\ q.dist_kn = k + 1 /\ q.dist_an = (an + 1) % 4 /\ q.session = x.p.session
       /\ q.advised = x.p.advised
  BY <1>7, <1>21 DEF ParticipantRecord
<1>24. Server(c, t)
  <2>1. c.lki < k /\ c.oki < k
    BY <1>8, <1>11, <1>20 DEF Server, KI
  <2>2. \A j \in KN : j # k => t.sak[j] = x.sa.sak[j]  BY <1>15, <1>17
  <2>3. c.state \in Plain => ~Listed(t, c.lki) /\ ~Listed(t, c.oki)
    <3>1. c.lki # k /\ c.oki # k  BY <1>10, <1>11, <1>20, <2>1 DEF KI, KN
    <3>2. x.cp.state \in Plain => ~Listed(x.sa, x.cp.lki) /\ ~Listed(x.sa, x.cp.oki)
      BY <1>8 DEF Server
    <3> QED BY <1>20, <2>2, <3>1, <3>2 DEF Listed
  <2>4. ASSUME NEW j \in KN, t.sak[j] # NoAN PROVE j <= k
    <3>1. CASE j = k  BY <1>10, <3>1 DEF KN
    <3>2. CASE j # k
      <4>1. j <= x.cp.dki  BY <1>8, <2>2, <2>4, <3>2 DEF Server
      <4> QED BY <1>8, <1>11, <4>1 DEF KI, KN
    <3> QED BY <3>1, <3>2
  <2>5. c.lki <= k /\ c.oki <= k  BY <1>10, <1>11, <1>20, <2>1 DEF KI, KN
  <2> QED BY <1>8, <1>17, <1>20, <2>1, <2>3, <2>4, <2>5 DEF Server
<1>25. NewKeyListed(t)  BY <1>10, <1>12, <1>15, <1>17 DEF NewKeyListed, Listed
<1>26. ServerRole(c, t, q)
  BY <1>7, <1>8, <1>12, <1>15, <1>17, <1>20, <1>23, <1>24, <1>25 DEF ServerRole
<1>27. Role(c, t, q, i)  BY <1>26 DEF Role
<1>28. KayOK(y, i)  BY <1>5, <1>7, <1>18, <1>19, <1>22, <1>27, KayIntro
<1> QED BY <1>6, <1>28, CpSmStepOK

(* The request for a SAK is forgotten, served or not. *)
LEMMA GenerateIfAskedOK ==
  ASSUME NEW x, NEW i, KayOK(x, i), x.p.session # 0,
         Mine(i) /\ x.p.new_sak => x.p.dist_kn <= MaxKN
  PROVE  KayOK(GenerateIfAsked(x), i)
<1>1. PICK y : y = IF x.p.new_sak /\ CanGenerate(x) THEN generate_new_sak(x) ELSE x
  OBVIOUS
<1>2. KayOK(y, i)
  <2>1. ~Mine(i) => ~x.p.new_sak  BY DEF KayOK, Role
  <2> QED BY <1>1, <2>1, GenerateOK
<1>3. y.p \in ParticipantRecord /\ Role(y.cp, y.sa, y.p, i)  BY <1>2 DEF KayOK
<1>4. PICK q : q = [y.p EXCEPT !.new_sak = FALSE]  OBVIOUS
<1>5. q \in ParticipantRecord  BY <1>3, <1>4, ZenonT(60) DEF ParticipantRecord
<1>6. SameRole(y.p, q) /\ q.new_sak = FALSE  BY <1>3, <1>4 DEF ParticipantRecord, SameRole
<1>7. Role(y.cp, y.sa, q, i)
  BY <1>3, <1>6 DEF Role, ServerRole, SameRole
<1>8. GenerateIfAsked(x) = [y EXCEPT !.p.new_sak = FALSE]  BY <1>1, Zenon DEF GenerateIfAsked
<1>9. GenerateIfAsked(x) = WithP(y, q)  BY <1>4, <1>8 DEF WithP
<1>10. KayOK(WithP(y, q), i)  BY <1>2, <1>5, <1>7, WithPOK
<1> QED BY <1>9, <1>10

(* The fields of a KaY without participant. *)
LEMMA InitialKayOK ==
  ASSUME NEW b \in BOOLEAN
  PROVE  InitialKay(b) \in ParticipantRecord
<1>1. /\ 0 \in 0..MaxSess /\ 0 \in Nat /\ 0 \in 0..MaxRetryCnt /\ 0 \in 0..HelloTime
      /\ 0 \in 0..LifeTime + 1 /\ 1 \in 1..MaxKN + 1 /\ 0 \in AN /\ LifeTime \in 0..LifeTime
  BY MKAAssumption, MaxKNAssumption DEF MaxRetryCnt, HelloTime, LifeTime, AN
<1>2. NoLife \in -1..LifeTime + HelloTime \cup {NoLife}  OBVIOUS
<1> QED BY <1>1, <1>2 DEF InitialKay, ParticipantRecord

(* A KaY that lost its participant. *)
LEMMA NoParticipantOK ==
  ASSUME NEW p \in ParticipantRecord, NEW q, q = NoParticipant(p)
  PROVE  /\ q \in ParticipantRecord /\ q.dist_kn = p.dist_kn /\ q.dist_an = p.dist_an
         /\ q.session = 0 /\ q.advised = FALSE /\ q.to_dist_sak = FALSE /\ q.new_sak = FALSE
<1>1. PICK f : f = InitialKay(p.kay)  OBVIOUS
<1>2. p.kay \in BOOLEAN  BY DEF ParticipantRecord
<1>3. f \in ParticipantRecord  BY <1>1, <1>2, InitialKayOK
<1>4. f.session = 0 /\ f.advised = FALSE /\ f.to_dist_sak = FALSE /\ f.new_sak = FALSE
  BY <1>1 DEF InitialKay
<1>5. q = [f EXCEPT !.ks_known = p.ks_known, !.dist_kn = p.dist_kn,
                    !.dist_an = p.dist_an, !.dist_age = p.dist_age]
  BY <1>1 DEF NoParticipant
<1>6. p.ks_known \in BOOLEAN /\ p.dist_kn \in 1..MaxKN + 1 /\ p.dist_an \in AN
      /\ p.dist_age \in 0..LifeTime
  BY DEF ParticipantRecord
<1>7. q \in ParticipantRecord  BY <1>3, <1>5, <1>6, ZenonT(60) DEF ParticipantRecord
<1>8. /\ q.dist_kn = p.dist_kn /\ q.dist_an = p.dist_an /\ q.session = f.session
      /\ q.advised = f.advised /\ q.to_dist_sak = f.to_dist_sak /\ q.new_sak = f.new_sak
  BY <1>3, <1>5 DEF ParticipantRecord
<1> QED BY <1>4, <1>7, <1>8

(* ieee802_1x_kay_delete_mka, also right after CP was told to connect      *)
(* otherwise: nothing is advised any more.                                 *)
LEMMA DeleteMkaOK ==
  ASSUME NEW x, NEW i, KayOK(x, i), NEW c \in CpRecord, PortOK(c), SameServer(x.cp, c)
  PROVE  KayOK(delete_mka(WithCp(x, c)), i)
<1>1. /\ x = KayRecord(x.cp, x.sa, x.p, x.out) /\ x.cp \in CpRecord
      /\ x.p \in ParticipantRecord
      /\ (\A k \in x.out : MsgOK(k)) /\ Role(x.cp, x.sa, x.p, i)
  BY DEF KayOK
<1>2. PICK y : y = WithCp(x, c)  OBVIOUS
<1>3. y = KayRecord(c, x.sa, x.p, x.out)  BY <1>1, <1>2, SetCp
<1>4. PICK q : q = NoParticipant(x.p)  OBVIOUS
<1>5. /\ q \in ParticipantRecord /\ q.dist_kn = x.p.dist_kn /\ q.dist_an = x.p.dist_an
      /\ q.session = 0 /\ q.advised = FALSE /\ q.to_dist_sak = FALSE /\ q.new_sak = FALSE
  BY <1>1, <1>4, NoParticipantOK
<1>6. PICK s : s = FreshSa(FALSE)  OBVIOUS
<1>7. /\ SaOK(s) /\ Stored(s) /\ s.principal = FALSE /\ s.new_key = NoKey
      /\ \A k : ~Listed(s, k)
  BY <1>6, FreshStored
<1>8. y.p = x.p  BY <1>3, KayFields
<1>9. delete_mka(y) = WithSa(WithP(y, q), s)
  BY <1>4, <1>6, <1>8 DEF delete_mka, WithSa, WithP
<1>10. WithP(y, q) = KayRecord(c, x.sa, q, x.out)  BY <1>3, SetP
<1>11. delete_mka(y) = KayRecord(c, s, q, x.out)  BY <1>9, <1>10, SetSa
<1>12. Role(c, s, q, i)
  <2>1. CASE ~Mine(i)  BY <1>5, <2>1 DEF Role
  <2>2. CASE Mine(i)
    <3>1. ServerRole(x.cp, x.sa, x.p)  BY <1>1, <2>2 DEF Role
    <3>2. \A k \in KN : s.sak[k] = NoAN  BY <1>7 DEF Listed
    <3>3. Server(c, s)  BY <1>7, <3>1, <3>2 DEF ServerRole, Server, SameServer
    <3>4. c.dki = x.cp.dki  BY DEF SameServer
    <3>5. ServerRole(c, s, q)  BY <1>5, <1>7, <3>1, <3>3, <3>4 DEF ServerRole
    <3> QED BY <2>2, <3>5 DEF Role
  <2> QED BY <2>1, <2>2
<1>13. KayOK(KayRecord(c, s, q, x.out), i)  BY <1>1, <1>5, <1>7, <1>12, KayIntro
<1> QED BY <1>2, <1>11, <1>13

(* The deletion at the end of the life. *)
LEMMA DeleteOK ==
  ASSUME NEW x, NEW i, KayOK(x, i)
  PROVE  KayOK(delete_mka(x), i)
<1>1. x = KayRecord(x.cp, x.sa, x.p, x.out) /\ x.cp \in CpRecord /\ PortOK(x.cp)
  BY DEF KayOK
<1>2. WithCp(x, x.cp) = x  BY <1>1, SetCp
<1>3. SameServer(x.cp, x.cp)  BY DEF SameServer
<1>4. KayOK(delete_mka(WithCp(x, x.cp)), i)  BY <1>1, <1>3, DeleteMkaOK
<1> QED BY <1>2, <1>4

(* ieee802_1x_participant_timer. *)
LEMMA ParticipantTimerOK ==
  ASSUME NEW x, NEW i, KayOK(x, i), x.p.session # 0,
         Mine(i) /\ x.p.new_sak => x.p.dist_kn <= MaxKN
  PROVE  KayOK(ParticipantTimer(x, i), i)
<1>1. x.p \in ParticipantRecord  BY DEF KayOK
<1>2. PICK v : v = IF Live(x) THEN NoLife ELSE x.p.life  OBVIOUS
<1>3. PICK q : q = [x.p EXCEPT !.life = v]  OBVIOUS
<1>4. v \in -1..LifeTime + HelloTime \cup {NoLife}  BY <1>1, <1>2 DEF ParticipantRecord
<1>5. q \in ParticipantRecord  BY <1>1, <1>3, <1>4, ZenonT(60) DEF ParticipantRecord
<1>6. /\ SameRole(x.p, q) /\ q.new_sak = x.p.new_sak
  BY <1>1, <1>3 DEF ParticipantRecord, SameRole
<1>7. PICK l : l = [x EXCEPT !.p.life = IF Live(x) THEN NoLife ELSE @]  OBVIOUS
<1>8. l = WithP(x, q)  BY <1>2, <1>3, <1>7 DEF WithP
<1>9. KayOK(l, i) /\ l.p = q  BY <1>5, <1>6, <1>8, ParticipantOK
<1>10. PICK e : e = RemoveExpiredPeer(l)  OBVIOUS
<1>11. KayOK(e, i) /\ SameCounters(l.p, e.p)  BY <1>9, <1>10, RemoveExpiredOK
<1>12. e.p.session # 0 /\ (Mine(i) /\ e.p.new_sak => e.p.dist_kn <= MaxKN)
  BY <1>6, <1>9, <1>11 DEF SameCounters, SameRole
<1>13. PICK g : g = GenerateIfAsked(e)  OBVIOUS
<1>14. KayOK(g, i)  BY <1>11, <1>12, <1>13, GenerateIfAskedOK
<1>15. PICK y : y = SendIfAllowed(g, i)  OBVIOUS
<1>16. KayOK(y, i)  BY <1>14, <1>15, SendIfAllowedOK
<1>17. y.p \in ParticipantRecord  BY <1>16 DEF KayOK
<1>18. PICK w : w = [y.p EXCEPT !.hello = HelloTime]  OBVIOUS
<1>19. HelloTime \in 0..HelloTime  BY DEF HelloTime
<1>20. w \in ParticipantRecord  BY <1>17, <1>18, <1>19, ZenonT(60) DEF ParticipantRecord
<1>21. SameRole(y.p, w) /\ w.new_sak = y.p.new_sak
  BY <1>17, <1>18 DEF ParticipantRecord, SameRole
<1>22. ParticipantTimer(x, i) = IF LifeElapsed(x) THEN delete_mka(x)
                                ELSE [y EXCEPT !.p.hello = HelloTime]
  BY <1>7, <1>10, <1>13, <1>15, Zenon DEF ParticipantTimer
<1>23. [y EXCEPT !.p.hello = HelloTime] = WithP(y, w)  BY <1>18 DEF WithP
<1>24. KayOK(WithP(y, w), i)  BY <1>16, <1>20, <1>21, ParticipantOK
<1> QED BY <1>22, <1>23, <1>24, DeleteOK

-----------------------------------------------------------------------------
(* EAP success, the CP timers, the clock and the initial state. *)

(* A KaY with another CP machine that fits its role. *)
LEMMA WithCpOK ==
  ASSUME NEW x, NEW i, KayOK(x, i), NEW c \in CpRecord, PortOK(c), SameServer(x.cp, c),
         c.connect = x.cp.connect
  PROVE  KayOK(WithCp(x, c), i)
<1>1. /\ x = KayRecord(x.cp, x.sa, x.p, x.out)
      /\ SaOK(x.sa) /\ Stored(x.sa) /\ x.p \in ParticipantRecord
      /\ (\A k \in x.out : MsgOK(k)) /\ Role(x.cp, x.sa, x.p, i)
  BY DEF KayOK
<1>2. WithCp(x, c) = KayRecord(c, x.sa, x.p, x.out)  BY <1>1, SetCp
<1>3. Role(c, x.sa, x.p, i)  BY <1>1, SameServerKeeps
<1>4. KayOK(KayRecord(c, x.sa, x.p, x.out), i)  BY <1>1, <1>3, KayIntro
<1> QED BY <1>2, <1>4

(* ieee802_1x_kay_create_mka, in a KaY that has a participant or none. *)
LEMMA CreateMkaOK ==
  ASSUME NEW x, NEW i, KayOK(x, i), NEW s \in 0..MaxSess, Mine(i) => s # 0,
         NEW delay \in 0..HelloTime - 1
  PROVE  KayOK(create_mka(x, i, s, delay), i)
<1>1. PICK y : y = IF x.p.kay THEN delete_mka_hotswap(connect(x, "UNAUTHENTICATED")) ELSE x
  OBVIOUS
<1>2. KayOK(y, i)
  <2>1. /\ x = KayRecord(x.cp, x.sa, x.p, x.out) /\ x.cp \in CpRecord /\ PortOK(x.cp)
    BY DEF KayOK
  <2>2. PICK b : b = [x.cp EXCEPT !.connect = "UNAUTHENTICATED"]  OBVIOUS
  <2>3. PICK c : c = [b EXCEPT !.step_timer = TRUE]  OBVIOUS
  <2>4. b \in CpRecord /\ PortOK(b)
    BY <2>1, <2>2, ZenonT(60) DEF CpRecord, PortOK, Connect
  <2>5. c \in CpRecord /\ PortOK(c)  BY <2>3, <2>4, ZenonT(60) DEF CpRecord, PortOK
  <2>6. SameServer(x.cp, b)  BY <2>1, <2>2 DEF CpRecord, SameServer
  <2>7. SameServer(b, c)  BY <2>3, <2>4 DEF CpRecord, SameServer
  <2>8. SameServer(x.cp, c)  BY <2>6, <2>7 DEF SameServer
  <2>9. [x EXCEPT !.cp.connect = "UNAUTHENTICATED"] = WithCp(x, b)  BY <2>2 DEF WithCp
  <2>10. PICK a : a = WithCp(x, b)  OBVIOUS
  <2>11. a = KayRecord(b, x.sa, x.p, x.out)  BY <2>1, <2>10, SetCp
  <2>12. a.cp = b  BY <2>11, KayFields
  <2>13. cp_sm_step(a) = WithCp(a, c)  BY <2>3, <2>12 DEF cp_sm_step, WithCp
  <2>14. WithCp(a, c) = KayRecord(c, x.sa, x.p, x.out)  BY <2>11, SetCp
  <2>15. WithCp(x, c) = KayRecord(c, x.sa, x.p, x.out)  BY <2>1, SetCp
  <2>16. connect(x, "UNAUTHENTICATED") = WithCp(x, c)
    BY <2>9, <2>10, <2>13, <2>14, <2>15 DEF connect
  <2>17. KayOK(delete_mka(WithCp(x, c)), i)  BY <2>5, <2>8, DeleteMkaOK
  <2> QED BY <1>1, <2>16, <2>17 DEF delete_mka_hotswap
<1>3. /\ y = KayRecord(y.cp, y.sa, y.p, y.out) /\ y.cp \in CpRecord /\ PortOK(y.cp)
      /\ SaOK(y.sa) /\ Stored(y.sa) /\ y.p \in ParticipantRecord
      /\ (\A k \in y.out : MsgOK(k)) /\ Role(y.cp, y.sa, y.p, i)
  BY <1>2 DEF KayOK
<1>4. PICK t : t = FreshSa(Mine(i))  OBVIOUS
<1>5. Mine(i) \in BOOLEAN  BY DEF Mine
<1>6. /\ SaOK(t) /\ Stored(t) /\ t.principal = Mine(i) /\ t.new_key = NoKey
      /\ \A k : ~Listed(t, k)
  BY <1>4, <1>5, FreshStored
<1>7. PICK q : q = [y.p EXCEPT !.kay = TRUE, !.session = s, !.hello = delay,
                               !.life = LifeTime + delay]
  OBVIOUS
<1>8. delay \in 0..HelloTime /\ LifeTime + delay \in -1..LifeTime + HelloTime \cup {NoLife}
  BY DEF HelloTime, LifeTime, NoLife
<1>9. q \in ParticipantRecord  BY <1>3, <1>7, <1>8, ZenonT(60) DEF ParticipantRecord
<1>10. /\ q.session = s /\ q.new_sak = y.p.new_sak /\ q.to_dist_sak = y.p.to_dist_sak
       /\ q.advised = y.p.advised /\ q.dist_kn = y.p.dist_kn /\ q.dist_an = y.p.dist_an
  BY <1>3, <1>7 DEF ParticipantRecord
<1>11. Role(y.cp, t, q, i)
  <2>1. CASE ~Mine(i)  BY <1>3, <1>10, <2>1 DEF Role
  <2>2. CASE Mine(i)
    <3>1. ServerRole(y.cp, y.sa, y.p)  BY <1>3, <2>2 DEF Role
    <3>2. \A k \in KN : t.sak[k] = NoAN  BY <1>6 DEF Listed
    <3>3. Server(y.cp, t)  BY <1>6, <3>1, <3>2 DEF ServerRole, Server
    <3>4. NewKeyListed(t)  BY <1>6 DEF NewKeyListed
    <3>5. ServerRole(y.cp, t, q)  BY <1>6, <1>10, <2>2, <3>1, <3>3, <3>4 DEF ServerRole
    <3> QED BY <2>2, <3>5 DEF Role
  <2> QED BY <2>1, <2>2
<1>12. PICK r : r = [y EXCEPT !.sa = FreshSa(Mine(i)),
                !.p  = [@ EXCEPT !.kay = TRUE, !.session = s, !.hello = delay,
                                 !.life = LifeTime + delay]]
  OBVIOUS
<1>13. create_mka(x, i, s, delay) = r  BY <1>1, <1>12, Zenon DEF create_mka
<1>14. PICK a : a = WithSa(y, t)  OBVIOUS
<1>15. a = KayRecord(y.cp, t, y.p, y.out)  BY <1>3, <1>14, SetSa
<1>16. a.p = y.p  BY <1>15, KayFields
<1>17. r = WithP(a, q)  BY <1>4, <1>7, <1>12, <1>14, <1>16 DEF WithSa, WithP
<1>18. r = KayRecord(y.cp, t, q, y.out)  BY <1>15, <1>17, SetP
<1>19. KayOK(KayRecord(y.cp, t, q, y.out), i)
  BY <1>3, <1>6, <1>9, <1>11, KayIntro
<1> QED BY <1>13, <1>18, <1>19

(* A timer of CP stops, and with it what it was waiting for. *)
LEMMA TimeoutsOK ==
  ASSUME NEW x, NEW i, KayOK(x, i)
  PROVE  /\ KayOK([x EXCEPT !.cp.step_timer = FALSE], i)
         /\ KayOK([x EXCEPT !.cp.transmit_timer = NoTimer, !.cp.transmit_when = FALSE], i)
         /\ KayOK([x EXCEPT !.cp.retire_timer = NoTimer, !.cp.retire_when = FALSE], i)
<1>1. x = KayRecord(x.cp, x.sa, x.p, x.out) /\ x.cp \in CpRecord /\ PortOK(x.cp)
  BY DEF KayOK
<1>2. NoTimer \in Timers  BY DEF Timers
<1>3. KayOK([x EXCEPT !.cp.step_timer = FALSE], i)
  <2>1. PICK c : c = [x.cp EXCEPT !.step_timer = FALSE]  OBVIOUS
  <2>2. c \in CpRecord /\ PortOK(c)  BY <1>1, <2>1, ZenonT(60) DEF CpRecord, PortOK
  <2>3. SameServer(x.cp, c) /\ c.connect = x.cp.connect
    BY <1>1, <2>1 DEF CpRecord, SameServer
  <2>4. [x EXCEPT !.cp.step_timer = FALSE] = WithCp(x, c)  BY <2>1 DEF WithCp
  <2>5. KayOK(WithCp(x, c), i)  BY <2>2, <2>3, WithCpOK
  <2> QED BY <2>4, <2>5
<1>4. KayOK([x EXCEPT !.cp.transmit_timer = NoTimer, !.cp.transmit_when = FALSE], i)
  <2>1. PICK c : c = [x.cp EXCEPT !.transmit_timer = NoTimer, !.transmit_when = FALSE]
    OBVIOUS
  <2>2. c \in CpRecord /\ PortOK(c)
    BY <1>1, <1>2, <2>1, ZenonT(60) DEF CpRecord, PortOK
  <2>3. SameServer(x.cp, c) /\ c.connect = x.cp.connect
    BY <1>1, <2>1 DEF CpRecord, SameServer
  <2>4. [x EXCEPT !.cp.transmit_timer = NoTimer, !.cp.transmit_when = FALSE] = WithCp(x, c)
    BY <1>1, <2>1 DEF WithCp, KayRecord
  <2>5. KayOK(WithCp(x, c), i)  BY <2>2, <2>3, WithCpOK
  <2> QED BY <2>4, <2>5
<1>5. KayOK([x EXCEPT !.cp.retire_timer = NoTimer, !.cp.retire_when = FALSE], i)
  <2>1. PICK c : c = [x.cp EXCEPT !.retire_timer = NoTimer, !.retire_when = FALSE]  OBVIOUS
  <2>2. c \in CpRecord /\ PortOK(c)
    BY <1>1, <1>2, <2>1, ZenonT(60) DEF CpRecord, PortOK
  <2>3. SameServer(x.cp, c) /\ c.connect = x.cp.connect
    BY <1>1, <2>1 DEF CpRecord, SameServer
  <2>4. [x EXCEPT !.cp.retire_timer = NoTimer, !.cp.retire_when = FALSE] = WithCp(x, c)
    BY <1>1, <2>1 DEF WithCp, KayRecord
  <2>5. KayOK(WithCp(x, c), i)  BY <2>2, <2>3, WithCpOK
  <2> QED BY <2>4, <2>5
<1> QED BY <1>3, <1>4, <1>5

(* The state of a node between two callbacks. *)
Held(y) == KayRecord(y.cp, y.sa, y.p, {})

(* It is right. *)
NodeState(y, i) == y = [cp |-> y.cp, sa |-> y.sa, p |-> y.p] /\ KayOK(Held(y), i)

(* The parts of the state of a node. *)
LEMMA NodeStateParts ==
  ASSUME NEW y, NEW i
  PROVE  NodeState(y, i) <=>
           /\ y = [cp |-> y.cp, sa |-> y.sa, p |-> y.p]
           /\ y.cp \in CpRecord /\ PortOK(y.cp) /\ SaOK(y.sa) /\ Stored(y.sa)
           /\ y.p \in ParticipantRecord /\ Role(y.cp, y.sa, y.p, i)
BY DEF NodeState, Held, KayOK, KayRecord

(* A second passes. *)
LEMMA AgedOK ==
  ASSUME NEW x, NEW i, NodeState(x, i)
  PROVE  NodeState(Aged(x), i)
<1>1. /\ x = [cp |-> x.cp, sa |-> x.sa, p |-> x.p]
      /\ x.cp \in CpRecord /\ PortOK(x.cp) /\ SaOK(x.sa) /\ Stored(x.sa)
      /\ x.p \in ParticipantRecord /\ Role(x.cp, x.sa, x.p, i)
  BY NodeStateParts
<1>2. PICK t, r : t = Down(x.cp.transmit_timer) /\ r = Down(x.cp.retire_timer)  OBVIOUS
<1>3. PICK c : c = [x.cp EXCEPT !.transmit_timer = t, !.retire_timer = r]  OBVIOUS
<1>4. PICK h, l, a, d :
        /\ h = Down(x.p.hello)
        /\ l = IF x.p.life = NoLife \/ x.p.life < 0 THEN x.p.life ELSE x.p.life - 1
        /\ a = IF x.p.peer # "none" /\ x.p.peer_age <= LifeTime
               THEN x.p.peer_age + 1 ELSE x.p.peer_age
        /\ d = IF x.p.dist_age < LifeTime THEN x.p.dist_age + 1 ELSE x.p.dist_age
  OBVIOUS
<1>5. PICK q : q = [x.p EXCEPT !.hello = h, !.life = l, !.peer_age = a, !.dist_age = d]
  OBVIOUS
<1>6. PICK y : y = Aged(x)  OBVIOUS
<1>7. y = [cp |-> c, sa |-> x.sa, p |-> q]
  <2> DEFINE e == [x.cp EXCEPT !.transmit_timer = Down(@), !.retire_timer = Down(@)]
             f == [x.p EXCEPT !.hello = Down(@),
                     !.life = IF @ = NoLife \/ @ < 0 THEN @ ELSE @ - 1,
                     !.peer_age = IF x.p.peer # "none" /\ @ <= LifeTime THEN @ + 1 ELSE @,
                     !.dist_age = IF @ < LifeTime THEN @ + 1 ELSE @]
  <2>1. f = q  BY <1>1, <1>4, <1>5 DEF ParticipantRecord
  <2>2. e = c  BY <1>1, <1>2, <1>3 DEF CpRecord
  <2>3. y = [x EXCEPT !.cp = e, !.p = f]  BY <1>6, Zenon DEF Aged
  <2> HIDE DEF e, f
  <2> QED BY <1>1, <2>1, <2>2, <2>3
<1>8. t \in Timers /\ r \in Timers
  <2>1. x.cp.transmit_timer \in Timers /\ x.cp.retire_timer \in Timers  BY <1>1 DEF CpRecord
  <2> QED BY <1>2, <2>1 DEF Timers, NoTimer, TransmitDelay, Down
<1>9. c \in CpRecord /\ PortOK(c)  BY <1>1, <1>3, <1>8, ZenonT(60) DEF CpRecord, PortOK
<1>10. SameServer(x.cp, c) /\ c.connect = x.cp.connect
  BY <1>1, <1>3 DEF CpRecord, SameServer
<1>11. /\ h \in 0..HelloTime /\ l \in -1..LifeTime + HelloTime \cup {NoLife}
       /\ a \in 0..LifeTime + 1 /\ d \in 0..LifeTime
  <2>1. /\ x.p.hello \in 0..HelloTime /\ x.p.life \in -1..LifeTime + HelloTime \cup {NoLife}
        /\ x.p.peer_age \in 0..LifeTime + 1 /\ x.p.dist_age \in 0..LifeTime
    BY <1>1 DEF ParticipantRecord
  <2> QED BY <1>4, <2>1 DEF HelloTime, LifeTime, NoLife, Down
<1>12. q \in ParticipantRecord  BY <1>1, <1>5, <1>11, ZenonT(60) DEF ParticipantRecord
<1>13. SameRole(x.p, q) /\ q.new_sak = x.p.new_sak
  BY <1>1, <1>5 DEF ParticipantRecord, SameRole
<1>14. Role(c, x.sa, q, i)  BY <1>1, <1>10, <1>13, SameServerKeeps, SameRoleKeeps
<1>15. y = [cp |-> y.cp, sa |-> y.sa, p |-> y.p] /\ y.cp = c /\ y.sa = x.sa /\ y.p = q
  BY <1>7
<1>16. NodeState(y, i)  BY <1>1, <1>9, <1>12, <1>14, <1>15, NodeStateParts
<1> QED BY <1>6, <1>16

(* A node before the first EAP success. *)
LEMMA InitialNodeOK ==
  ASSUME NEW i, NEW c \in Ciphers
  PROVE  NodeState(InitialNode(i, c), i)
<1>1. PICK s : s = FreshSa(FALSE)  OBVIOUS
<1>2. /\ SaOK(s) /\ Stored(s) /\ s.principal = FALSE /\ s.new_key = NoKey
      /\ \A k : ~Listed(s, k)
  BY <1>1, FreshStored
<1>3. PICK m : m = cp_sm_init(c, s)  OBVIOUS
<1>4. NodeOK(m)  BY <1>1, <1>3, CpSmInitOK
<1>5. m.cp \in CpRecord /\ PortOK(m.cp)  BY <1>4 DEF NodeOK
<1>6. PICK n : n = CP_INIT([cp |-> InitialCp(c), sa |-> s])  OBVIOUS
<1>7. /\ n.cp.state = "INIT" /\ ~n.cp.chgd_server /\ n.cp.current_cipher = n.cp.cipher
      /\ n.cp.lki = NoKey /\ n.cp.oki = NoKey /\ n.cp.dki = NoKey /\ ~n.cp.new_sak
  BY <1>6 DEF CP_INIT, InitialCp
<1>8. m = CP_CHANGE(n)  BY <1>3, <1>6, <1>7 DEF cp_sm_init, SM_STEP
<1>9. /\ m.cp.state = "CHANGE" /\ ~m.cp.chgd_server /\ m.cp.current_cipher = m.cp.cipher
      /\ m.cp.lki = NoKey /\ m.cp.oki = NoKey /\ m.cp.dki = NoKey /\ ~m.cp.new_sak
  <2>1. PICK d : d = [n.cp EXCEPT !.state = "CHANGE", !.port_valid = FALSE,
                                  !.controlled_port = FALSE]
    OBVIOUS
  <2>2. m.cp = d  BY <1>8, <2>1 DEF CP_CHANGE
  <2>3. InitialCp(c) \in CpRecord
    BY KIFacts DEF InitialCp, CpRecord, CPStates, Connect, Timers, NoTimer
  <2>4. n.cp \in CpRecord  BY <1>2, <1>6, <2>3, InitFollows DEF Follows, NodeOK
  <2> QED BY <1>7, <2>1, <2>2, <2>4 DEF CpRecord
<1>10. PICK p : p = InitialKay(~Mine(i))  OBVIOUS
<1>11. p \in ParticipantRecord
  <2>1. (~Mine(i)) \in BOOLEAN  BY DEF Mine
  <2> QED BY <1>10, <2>1, InitialKayOK
<1>12. /\ p.session = 0 /\ p.advised = FALSE /\ p.to_dist_sak = FALSE /\ p.new_sak = FALSE
       /\ p.dist_kn = 1 /\ p.dist_an = 0
  BY <1>10 DEF InitialKay
<1>13. Server(m.cp, s)
  BY <1>2, <1>9, MaxKNAssumption DEF Server, NoKey, Listed
<1>14. Role(m.cp, s, p, i)
  BY <1>2, <1>9, <1>12, <1>13 DEF Role, ServerRole, AnOf, NoKey
<1>15. PICK y : y = InitialNode(i, c)  OBVIOUS
<1>16. y = [cp |-> m.cp, sa |-> s, p |-> p]  BY <1>1, <1>3, <1>10, <1>15 DEF InitialNode
<1>17. y = [cp |-> y.cp, sa |-> y.sa, p |-> y.p] /\ y.cp = m.cp /\ y.sa = s /\ y.p = p
  BY <1>16
<1>18. NodeState(y, i)  BY <1>2, <1>5, <1>11, <1>14, <1>17, NodeStateParts
<1> QED BY <1>15, <1>18

-----------------------------------------------------------------------------
(* The system. *)

(* Both nodes are right. *)
NodesOK == node = [i \in Nodes |-> node[i]] /\ \A i \in Nodes : NodeState(node[i], i)

(* So is every MKPDU under way. *)
NetOK == \A m \in net : MsgOK(m)

(* The environment keeps within its bounds. *)
CountersOK ==
  /\ sess \in 0..MaxSess /\ success \in BOOLEAN
  /\ worn \in [KN -> Fresh..WornCap]
  /\ up \in BOOLEAN /\ outage \in 0..MaxOutage
  /\ now \in 0..MaxTime /\ faults \in 0..MaxFaults

(* The inductive invariant. *)
Inv == NodesOK /\ NetOK /\ CountersOK

(* The mark of an MKPDU does not matter. *)
LEMMA LateOK ==
  ASSUME NEW m, MsgOK(m), NEW b
  PROVE  MsgOK([m EXCEPT !.late = b])
<1>1. PICK n : n = [m EXCEPT !.late = b]  OBVIOUS
<1>2. n = [src |-> m.src, session |-> m.session, mn |-> m.mn, listed |-> m.listed,
           use |-> m.use, kn |-> m.kn, an |-> m.an, late |-> b]
  BY <1>1 DEF MsgOK
<1>3. MsgOK(n)  BY <1>2 DEF MsgOK
<1> QED BY <1>1, <1>3

(* A node starts its callbacks in a right state. *)
LEMMA RunningOK ==
  ASSUME NodesOK, NEW i \in Nodes
  PROVE  KayOK(Running(i), i) /\ Running(i).p = node[i].p
<1>1. NodeState(node[i], i)  BY DEF NodesOK
<1>2. Running(i) = Held(node[i])  BY DEF Running, Held, KayRecord
<1> QED BY <1>1, <1>2 DEF NodeState, Held, KayRecord

(* A callback that ends in a right state. *)
LEMMA CallbackOK ==
  ASSUME NodesOK, NEW i \in Nodes, NEW x, KayOK(x, i),
         NEW rest, \A m \in rest : MsgOK(m), Callback(i, x, rest)
  PROVE  NodesOK' /\ NetOK'
<1>1. PICK y : y = [cp |-> x.cp, sa |-> x.sa, p |-> x.p]  OBVIOUS
<1>2. node' = [node EXCEPT ![i] = y] /\ net' = rest \cup Sent(i, x)  BY <1>1 DEF Callback
<1>3. y = [cp |-> y.cp, sa |-> y.sa, p |-> y.p] /\ y.cp = x.cp /\ y.sa = x.sa /\ y.p = x.p
  BY <1>1
<1>4. /\ x.cp \in CpRecord /\ PortOK(x.cp) /\ SaOK(x.sa) /\ Stored(x.sa)
      /\ x.p \in ParticipantRecord /\ (\A m \in x.out : MsgOK(m))
      /\ Role(x.cp, x.sa, x.p, i)
  BY DEF KayOK
<1>5. NodeState(y, i)  BY <1>3, <1>4, NodeStateParts
<1>6. node = [j \in Nodes |-> node[j]] /\ \A j \in Nodes : NodeState(node[j], j)
  BY DEF NodesOK
<1>7. /\ node' = [j \in Nodes |-> node'[j]]
      /\ \A j \in Nodes : node'[j] = IF j = i THEN y ELSE node[j]
  BY <1>2, <1>6
<1>8. \A j \in Nodes : NodeState(node'[j], j)  BY <1>5, <1>6, <1>7
<1>9. NodesOK'  BY <1>7, <1>8 DEF NodesOK, NodeState, Held
<1>10. ASSUME NEW m \in Sent(i, x) PROVE MsgOK(m)
  BY <1>4, <1>10, LateOK DEF Sent
<1>11. NetOK'  BY <1>2, <1>10 DEF NetOK
<1> QED BY <1>9, <1>11

(* Nothing happened to the nodes. *)
LEMMA SameNodes ==
  ASSUME NodesOK, UNCHANGED node
  PROVE  NodesOK'
BY DEF NodesOK, NodeState, Held

(* The initial states. *)
LEMMA InitInv == Init => Inv
<1> SUFFICES ASSUME Init PROVE Inv  OBVIOUS
<1>1. PICK c \in Ciphers : node = [i \in Nodes |-> InitialNode(i, c)]  BY DEF Init
<1>2. \A i \in Nodes : NodeState(node[i], i)  BY <1>1, InitialNodeOK
<1>3. NodesOK  BY <1>1, <1>2 DEF NodesOK
<1>4. NetOK  BY DEF Init, NetOK
<1>5. CountersOK
  <2>1. success \in BOOLEAN /\ up \in BOOLEAN  BY Zenon DEF Init
  <2>2. worn \in [KN -> Fresh..WornCap]  BY DEF Init, Fresh, WornCap, RekeyTime
  <2>3. /\ sess \in 0..MaxSess /\ outage \in 0..MaxOutage /\ now \in 0..MaxTime
        /\ faults \in 0..MaxFaults
    BY MKAAssumption DEF Init
  <2> QED BY <2>1, <2>2, <2>3 DEF CountersOK
<1> QED BY <1>3, <1>4, <1>5 DEF Inv

(* A callback overtakes MKPDUs within the bound on faults. *)
LEMMA OvertakesOK ==
  ASSUME CountersOK, Overtakes
  PROVE  faults' \in 0..MaxFaults
BY MKAAssumption DEF CountersOK, Overtakes

(* Every step keeps the invariant. *)
LEMMA NextInv == Inv /\ [Next]_vars => Inv'
<1> SUFFICES ASSUME Inv, [Next]_vars PROVE Inv'  OBVIOUS
<1>0. NodesOK /\ NetOK /\ CountersOK  BY DEF Inv
<1>1. ASSUME NEW i \in Nodes, step_cb(i) PROVE Inv'
  <2>1. PICK x : x = [Running(i) EXCEPT !.cp.step_timer = FALSE]  OBVIOUS
  <2>2. KayOK(x, i)  BY <1>0, <2>1, RunningOK, TimeoutsOK
  <2>3. KayOK(cp_step_run(x, i), i)  BY <2>2, StepRunOK
  <2>4. PICK rest : rest = {[m EXCEPT !.late = @ /\ m.src = i] : m \in net}  OBVIOUS
  <2>5. \A m \in rest : MsgOK(m)
    <3>1. ASSUME NEW n \in rest PROVE MsgOK(n)
      <4>1. PICK m \in net : n = [m EXCEPT !.late = @ /\ m.src = i]  BY <2>4, <3>1
      <4>2. MsgOK(m)  BY <1>0 DEF NetOK
      <4>3. n = [m EXCEPT !.late = (m.late /\ m.src = i)]  BY <4>1
      <4> QED BY <4>2, <4>3, LateOK
    <3> QED BY <3>1
  <2>6. Callback(i, cp_step_run(x, i), rest)  BY <1>1, <2>1, <2>4 DEF step_cb
  <2>7. NodesOK' /\ NetOK'  BY <1>0, <2>3, <2>5, <2>6, CallbackOK
  <2>8. CountersOK'  BY <1>0, <1>1 DEF step_cb, CountersOK
  <2> QED BY <2>7, <2>8 DEF Inv
<1>2. ASSUME NEW i \in Nodes, transmit_when_timeout(i) PROVE Inv'
  <2>1. PICK x : x = [Running(i) EXCEPT !.cp.transmit_timer = NoTimer,
                                        !.cp.transmit_when = FALSE]
    OBVIOUS
  <2>2. KayOK(x, i)  BY <1>0, <2>1, RunningOK, TimeoutsOK
  <2>3. KayOK(cp_step_run(x, i), i)  BY <2>2, StepRunOK
  <2>4. Callback(i, cp_step_run(x, i), net)  BY <1>2, <2>1 DEF transmit_when_timeout
  <2>5. NodesOK' /\ NetOK'  BY <1>0, <2>3, <2>4, CallbackOK DEF NetOK
  <2>6. CountersOK'
    BY <1>0, <1>2, OvertakesOK DEF transmit_when_timeout, CountersOK
  <2> QED BY <2>5, <2>6 DEF Inv
<1>3. ASSUME NEW i \in Nodes, retire_when_timeout(i) PROVE Inv'
  <2>1. PICK x : x = [Running(i) EXCEPT !.cp.retire_timer = NoTimer,
                                        !.cp.retire_when = FALSE]
    OBVIOUS
  <2>2. KayOK(x, i)  BY <1>0, <2>1, RunningOK, TimeoutsOK
  <2>3. KayOK(cp_step_run(x, i), i)  BY <2>2, StepRunOK
  <2>4. Callback(i, cp_step_run(x, i), net)  BY <1>3, <2>1 DEF retire_when_timeout
  <2>5. NodesOK' /\ NetOK'  BY <1>0, <2>3, <2>4, CallbackOK DEF NetOK
  <2>6. CountersOK'
    BY <1>0, <1>3, OvertakesOK DEF retire_when_timeout, CountersOK
  <2> QED BY <2>5, <2>6 DEF Inv
<1>4. ASSUME NEW i \in Nodes, participant_timer(i) PROVE Inv'
  <2>1. PICK x : x = Running(i)  OBVIOUS
  <2>2. KayOK(x, i) /\ x.p = node[i].p  BY <1>0, <2>1, RunningOK
  <2>3. x.p.session # 0  BY <1>4, <2>2 DEF participant_timer, Ongoing
  <2>4. Mine(i) /\ x.p.new_sak => x.p.dist_kn <= MaxKN
    <3>1. Mine(i) => ~OutOfKeys  BY <1>4 DEF participant_timer
    <3>2. Mine(i) => i = "auth"  BY DEF Mine
    <3>3. x.p.dist_kn \in 1..MaxKN + 1  BY <2>2 DEF KayOK, ParticipantRecord
    <3> QED BY <2>2, <3>1, <3>2, <3>3, MaxKNAssumption DEF OutOfKeys
  <2>5. KayOK(ParticipantTimer(x, i), i)  BY <2>2, <2>3, <2>4, ParticipantTimerOK
  <2>6. Callback(i, ParticipantTimer(x, i), net)  BY <1>4, <2>1 DEF participant_timer
  <2>7. NodesOK' /\ NetOK'  BY <1>0, <2>5, <2>6, CallbackOK DEF NetOK
  <2>8. CountersOK'  BY <1>0, <1>4, OvertakesOK DEF participant_timer, CountersOK
  <2> QED BY <2>7, <2>8 DEF Inv
<1>5. ASSUME NEW i \in Nodes, l2_receive(i) PROVE Inv'
  <2>1. PICK m \in net : Callback(i, decode_mkpdu(Running(i), i, m), net \ {m})
    BY <1>5 DEF l2_receive
  <2>2. MsgOK(m) /\ \A n \in net \ {m} : MsgOK(n)  BY <1>0 DEF NetOK
  <2>3. KayOK(decode_mkpdu(Running(i), i, m), i)  BY <1>0, <2>2, RunningOK, DecodeOK
  <2>4. NodesOK' /\ NetOK'  BY <1>0, <2>1, <2>2, <2>3, CallbackOK
  <2>5. CountersOK'  BY <1>0, <1>5 DEF l2_receive, CountersOK
  <2> QED BY <2>4, <2>5 DEF Inv
<1>6. ASSUME NEW i \in Nodes, duplicate(i) PROVE Inv'
  <2>1. PICK m \in net : Callback(i, decode_mkpdu(Running(i), i, m), net)
    BY <1>6 DEF duplicate
  <2>2. MsgOK(m) /\ \A n \in net : MsgOK(n)  BY <1>0 DEF NetOK
  <2>3. KayOK(decode_mkpdu(Running(i), i, m), i)  BY <1>0, <2>2, RunningOK, DecodeOK
  <2>4. NodesOK' /\ NetOK'  BY <1>0, <2>1, <2>2, <2>3, CallbackOK
  <2>5. CountersOK'  BY <1>0, <1>6, MKAAssumption DEF duplicate, CountersOK
  <2> QED BY <2>4, <2>5 DEF Inv
<1>7. ASSUME eap_success PROVE Inv'
  <2>1. PICK delay \in 0..HelloTime - 1 :
          Callback("auth", create_mka(Running("auth"), "auth", sess + 1, delay), net)
    BY <1>7 DEF eap_success
  <2>2. sess + 1 \in 0..MaxSess /\ sess + 1 # 0
    BY <1>0, <1>7, MKAAssumption DEF eap_success, CountersOK
  <2>3. "auth" \in Nodes  BY DEF Nodes
  <2>4. KayOK(Running("auth"), "auth")  BY <1>0, <2>3, RunningOK
  <2>5. KayOK(create_mka(Running("auth"), "auth", sess + 1, delay), "auth")
    BY <2>2, <2>4, CreateMkaOK
  <2>6. NodesOK' /\ NetOK'  BY <1>0, <2>1, <2>3, <2>5, CallbackOK DEF NetOK
  <2>7. CountersOK'  BY <1>0, <1>7, <2>2, MKAAssumption DEF eap_success, CountersOK
  <2> QED BY <2>6, <2>7 DEF Inv
<1>8. ASSUME notify_create_actor PROVE Inv'
  <2>1. PICK delay \in 0..HelloTime - 1 :
          Callback("supp", create_mka(Running("supp"), "supp", sess, delay), net)
    BY <1>8 DEF notify_create_actor
  <2>2. sess \in 0..MaxSess /\ ~Mine("supp")  BY <1>0 DEF CountersOK, Mine
  <2>3. "supp" \in Nodes  BY DEF Nodes
  <2>4. KayOK(Running("supp"), "supp")  BY <1>0, <2>3, RunningOK
  <2>5. KayOK(create_mka(Running("supp"), "supp", sess, delay), "supp")
    BY <2>2, <2>4, CreateMkaOK
  <2>6. NodesOK' /\ NetOK'  BY <1>0, <2>1, <2>3, <2>5, CallbackOK DEF NetOK
  <2>7. CountersOK'  BY <1>0, <1>8 DEF notify_create_actor, CountersOK
  <2> QED BY <2>6, <2>7 DEF Inv
<1>9. ASSUME lose PROVE Inv'
  <2>1. NodesOK'  BY <1>0, <1>9, SameNodes DEF lose
  <2>2. NetOK'  BY <1>0, <1>9 DEF lose, NetOK
  <2>3. CountersOK'  BY <1>0, <1>9, MKAAssumption DEF lose, CountersOK
  <2> QED BY <2>1, <2>2, <2>3 DEF Inv
<1>10. ASSUME cut PROVE Inv'
  <2>1. NodesOK'  BY <1>0, <1>10, SameNodes DEF cut
  <2>2. NetOK'  BY <1>10 DEF cut, NetOK
  <2>3. outage' \in 0..MaxOutage /\ faults' \in 0..MaxFaults
    BY <1>0, <1>10, MKAAssumption DEF cut, CountersOK
  <2>4. up' \in BOOLEAN  BY <1>10, Zenon DEF cut
  <2>5. CountersOK'  BY <1>0, <1>10, <2>3, <2>4 DEF cut, CountersOK
  <2> QED BY <2>1, <2>2, <2>5 DEF Inv
<1>11. ASSUME mend PROVE Inv'
  <2>1. NodesOK'  BY <1>0, <1>11, SameNodes DEF mend
  <2>2. NetOK'  BY <1>0, <1>11 DEF mend, NetOK
  <2>3. CountersOK'  BY <1>0, <1>11, MKAAssumption DEF mend, CountersOK
  <2> QED BY <2>1, <2>2, <2>3 DEF Inv
<1>12. ASSUME tick PROVE Inv'
  <2>1. node' = [i \in Nodes |-> Aged(node[i])]  BY <1>12 DEF tick
  <2>2. \A i \in Nodes : NodeState(node'[i], i)
    BY <1>0, <2>1, AgedOK DEF NodesOK
  <2>3. node' = [i \in Nodes |-> node'[i]]  BY <2>1
  <2>4. NodesOK'  BY <2>2, <2>3 DEF NodesOK, NodeState, Held
  <2>5. NetOK'  BY <1>0, <1>12 DEF tick, NetOK
  <2>6. worn' \in [KN -> Fresh..WornCap]
    BY <1>0, <1>12 DEF tick, CountersOK, Fresh, WornCap, RekeyTime
  <2>7. faults' \in 0..MaxFaults  BY <1>0, <1>12, OvertakesOK DEF tick
  <2>8. now' \in 0..MaxTime /\ outage' \in 0..MaxOutage
    BY <1>0, <1>12, MKAAssumption DEF tick, CountersOK
  <2>9. CountersOK'  BY <1>0, <1>12, <2>6, <2>7, <2>8 DEF tick, CountersOK
  <2> QED BY <2>4, <2>5, <2>9 DEF Inv
<1>13. ASSUME NEW k \in KN, wear(k) PROVE Inv'
  <2>1. NodesOK'  BY <1>0, <1>13, SameNodes DEF wear
  <2>2. NetOK'  BY <1>0, <1>13 DEF wear, NetOK
  <2>3. CountersOK'  BY <1>0, <1>13 DEF wear, CountersOK, Fresh, WornCap, RekeyTime
  <2> QED BY <2>1, <2>2, <2>3 DEF Inv
<1>14. ASSUME UNCHANGED vars PROVE Inv'
  <2>1. NodesOK'  BY <1>0, <1>14, SameNodes DEF vars
  <2>2. NetOK' /\ CountersOK'  BY <1>0, <1>14 DEF vars, NetOK, CountersOK
  <2> QED BY <2>1, <2>2 DEF Inv
<1>15. horizon => UNCHANGED vars  BY DEF horizon
<1> QED BY <1>1, <1>2, <1>3, <1>4, <1>5, <1>6, <1>7, <1>8, <1>9, <1>10, <1>11, <1>12,
           <1>13, <1>14, <1>15
        DEF Next

(* The invariant holds always. *)
LEMMA AlwaysInv == Spec => []Inv
BY InitInv, NextInv, PTL DEF Spec

(* The variables of both KaYs keep their types: the timers stay within     *)
(* their delays, the retry counter within MAX_RETRY_CNT, key numbers and   *)
(* ANs within their ranges, whatever is lost, repeated or delayed and      *)
(* however often EAP authenticates again.                                  *)
THEOREM TypeCorrect == Spec => []TypeOK
<1>1. Inv => TypeOK
  <2> SUFFICES ASSUME Inv PROVE TypeOK  OBVIOUS
  <2>1. NodesOK /\ CountersOK  BY DEF Inv
  <2>2. ASSUME NEW i \in Nodes
        PROVE  node[i] \in [cp : CpRecord, sa : SaRecord, p : ParticipantRecord]
    <3>1. /\ node[i] = [cp |-> node[i].cp, sa |-> node[i].sa, p |-> node[i].p]
          /\ node[i].cp \in CpRecord /\ SaOK(node[i].sa) /\ node[i].p \in ParticipantRecord
      BY <2>1, NodeStateParts DEF NodesOK
    <3>2. node[i].sa \in SaRecord  BY <3>1 DEF SaOK
    <3> QED BY <3>1, <3>2
  <2>3. node \in [Nodes -> [cp : CpRecord, sa : SaRecord, p : ParticipantRecord]]
    BY <2>1, <2>2 DEF NodesOK
  <2> QED BY <2>1, <2>3 DEF TypeOK, CountersOK
<1> QED BY <1>1, AlwaysInv, PTL

(* A SAK is installed under one AN on both nodes: the AN in the SecTAG of  *)
(* what one node transmits is that of the receive SA the other holds for   *)
(* the key, whatever MKPDUs are lost, repeated or reordered.               *)
THEOREM SameAssociationAlways == Spec => []SameAssociation
<1>1. Inv => SameAssociation
  <2> SUFFICES ASSUME Inv, NEW i \in Nodes, NEW k \in KN, NEW a \in AN, NEW b \in AN,
                      node[i].sa.txsa[a] = k, node[Other(i)].sa.rxsa[b] = k
               PROVE  a = b
    BY DEF SameAssociation
  <2>1. Other(i) \in Nodes  BY DEF Other, Nodes
  <2>2. Placed(node[i].sa) /\ Placed(node[Other(i)].sa)
    BY <2>1, NodeStateParts DEF Inv, NodesOK, Stored
  <2>3. NoAN \notin AN  BY KIFacts
  <2>4. node[i].sa.sak[k] = a /\ node[i].sa.sak[k] \in {NoAN, AnOf(k)}  BY <2>2 DEF Placed
  <2>5. node[Other(i)].sa.sak[k] = b /\ node[Other(i)].sa.sak[k] \in {NoAN, AnOf(k)}
    BY <2>2 DEF Placed
  <2> QED BY <2>3, <2>4, <2>5
<1> QED BY <1>1, AlwaysInv, PTL

(* The key server never distributes a SAK it has freed: new_key may        *)
(* dangle, but then MACsec is not advised or to_dist_sak is cleared.       *)
THEOREM DistributedAlwaysAllocated == Spec => []DistributedKeyAllocated
<1>1. Inv => DistributedKeyAllocated
  <2> SUFFICES ASSUME Inv, DistSak(node["auth"]) # NoKey
               PROVE  node["auth"].sa.user[node["auth"].sa.new_key] > 0
    BY DEF DistributedKeyAllocated
  <2>1. PICK x : x = node["auth"]  OBVIOUS
  <2>2. "auth" \in Nodes /\ Mine("auth")  BY DEF Nodes, Mine
  <2>3. SaOK(x.sa) /\ Role(x.cp, x.sa, x.p, "auth")
    BY <2>1, <2>2, NodeStateParts DEF Inv, NodesOK
  <2>4. x.p.to_dist_sak /\ x.p.advised /\ x.sa.new_key # NoKey  BY <2>1 DEF DistSak
  <2>5. Listed(x.sa, x.sa.new_key)
    BY <2>2, <2>3, <2>4 DEF Role, ServerRole, NewKeyListed
  <2> QED BY <2>1, <2>3, <2>5, ListedKept
<1> QED BY <1>1, AlwaysInv, PTL
===============================================================================
