------------------------------- MODULE CPProofs -------------------------------
(***************************************************************************)
(* What holds of the CP state machine for every number of SAKs and every   *)
(* set of cipher suites: its types, the reference counts of the SAKs and   *)
(* the protection of the controlled port.                                  *)
(*                                                                         *)
(* The argument goes one entry function at a time: by the lemmas of        *)
(* CPMachineProofs each takes a node that is NodeOK to one that is NodeOK, *)
(* without bringing a freed key back to life (Follows), and SM_STEP is a   *)
(* choice among their compositions.  The inductive invariant adds to       *)
(* NodeOK that keys not yet distributed are free (so that distribute_sak   *)
(* starts a count at its right value) and how the state determines the     *)
(* settings of the port.                                                   *)
(***************************************************************************)
EXTENDS CP, CPMachineProofs

(* The inductive invariant. *)
Fresh(s, last) == \A k \in KN : k > last => s.user[k] = 0

Inv ==
  /\ NodeOK(node)
  /\ loop \in 0..MaxPasses
  /\ lastkn \in KI
  /\ participant \in BOOLEAN
  /\ is_key_server \in BOOLEAN
  /\ Fresh(node.sa, lastkn)

(* A right successor keeps undistributed keys free. *)
LEMMA FollowsFresh ==
  ASSUME NEW n, NEW m, NEW last, Follows(n, m), Fresh(n.sa, last)
  PROVE  NodeOK(m) /\ Fresh(m.sa, last)
BY DEF Follows, Keeps, Fresh

(* The store of a new participant has no key at all. *)
LEMMA FreshSaFresh ==
  ASSUME NEW p \in BOOLEAN, NEW last
  PROVE  SaOK(FreshSa(p)) /\ Fresh(FreshSa(p), last)
BY FreshSaOK DEF Fresh

(* The invariant holds initially. *)
LEMMA InitInv == Init => Inv
<1> SUFFICES ASSUME Init PROVE Inv  OBVIOUS
<1>1. PICK c \in Ciphers : node = cp_sm_init(c, FreshSa(is_key_server))  BY DEF Init
<1>2. is_key_server \in BOOLEAN  BY DEF Init
<1>3. NodeOK(node) /\ \A k \in KN : node.sa.user[k] = 0  BY <1>1, <1>2, CpSmInitOK
<1>4. loop \in 0..MaxPasses /\ lastkn \in KI /\ participant \in BOOLEAN
  BY KIFacts, MaxKNAssumption DEF Init, MaxPasses, KI
<1> QED BY <1>2, <1>3, <1>4 DEF Inv, Fresh

(* The three timeouts of CP and the passes of its loop. *)
LEMMA StepRunInv ==
  ASSUME Inv, step_cb \/ transmit_when_timeout \/ retire_when_timeout \/ step_run
  PROVE  Inv'
<1>1. /\ NodeOK(node) /\ Fresh(node.sa, lastkn) /\ lastkn' = lastkn
      /\ participant' = participant /\ is_key_server' = is_key_server
  BY DEF Inv, step_cb, transmit_when_timeout, retire_when_timeout, step_run
<1>2. CASE step_cb \/ transmit_when_timeout \/ retire_when_timeout
  <2> DEFINE c1 == [node.cp EXCEPT !.step_timer = FALSE]
             c2 == [node.cp EXCEPT !.transmit_timer = NoTimer, !.transmit_when = FALSE]
             c3 == [node.cp EXCEPT !.retire_timer = NoTimer, !.retire_when = FALSE]
  <2>1. node.cp \in CpRecord /\ PortOK(node.cp)  BY <1>1 DEF NodeOK
  <2>2. NoTimer \in Timers  BY DEF Timers
  <2>3. c1 \in CpRecord /\ PortOK(c1)  BY <2>1, ZenonT(60) DEF CpRecord, PortOK
  <2>4. c2 \in CpRecord /\ PortOK(c2)  BY <2>1, <2>2, ZenonT(60) DEF CpRecord, PortOK
  <2>5. c3 \in CpRecord /\ PortOK(c3)  BY <2>1, <2>2, ZenonT(60) DEF CpRecord, PortOK
  <2>6. \E c \in {c1, c2, c3} : node' = [node EXCEPT !.cp = c]
    BY <1>2 DEF step_cb, transmit_when_timeout, retire_when_timeout
  <2> HIDE DEF c1, c2, c3
  <2>7. PICK c \in {c1, c2, c3} : node' = [node EXCEPT !.cp = c]  BY <2>6
  <2>8. node' = [cp |-> c, sa |-> node.sa]  BY <1>1, <2>7, NodeExcept
  <2>9. Follows(node, node')  BY <1>1, <2>3, <2>4, <2>5, <2>8, SameSaFollows
  <2>10. loop' \in 0..MaxPasses
    BY <1>2 DEF step_cb, transmit_when_timeout, retire_when_timeout, MaxPasses
  <2> QED BY <1>1, <2>9, <2>10, FollowsFresh DEF Inv
<1>3. CASE step_run
  <2> DEFINE m == SM_STEP(node)
             c == [m.cp EXCEPT !.new_info = FALSE]
  <2>1. Follows(node, m) /\ NodeOK(m)  BY <1>1, StepFollows DEF Follows
  <2>2. node' = [m EXCEPT !.cp = c]  BY <1>3 DEF step_run
  <2>3. loop' = IF m.cp.state = node.cp.state \/ loop = MaxPasses THEN 0 ELSE loop + 1
    BY <1>3 DEF step_run, cp
  <2> HIDE DEF m
  <2>4. c \in CpRecord /\ PortOK(c)  BY <2>1, ZenonT(60) DEF NodeOK, CpRecord, PortOK
  <2> HIDE DEF c
  <2>5. node' = [cp |-> c, sa |-> m.sa]  BY <2>1, <2>2, NodeExcept
  <2>6. Follows(m, node')  BY <2>1, <2>4, <2>5, SameSaFollows
  <2>7. Follows(node, node')  BY <2>1, <2>6, FollowsTransitive
  <2>8. loop' \in 0..MaxPasses  BY <2>3 DEF Inv, MaxPasses
  <2> QED BY <1>1, <2>7, <2>8, FollowsFresh DEF Inv
<1> QED BY <1>2, <1>3

(* The process ends and starts again. *)
LEMMA RestartInv ==
  ASSUME Inv, restart
  PROVE  Inv'
<1>1. PICK c \in Ciphers : node' = cp_sm_init(c, FreshSa(is_key_server))  BY DEF restart
<1>2. is_key_server \in BOOLEAN /\ is_key_server' = is_key_server
      /\ participant' = is_key_server
  BY DEF Inv, restart
<1>3. NodeOK(node') /\ \A k \in KN : node'.sa.user[k] = 0  BY <1>1, <1>2, CpSmInitOK
<1>4. loop' \in 0..MaxPasses /\ lastkn' \in KI
  BY KIFacts, MaxKNAssumption DEF restart, MaxPasses, KI
<1> QED BY <1>2, <1>3, <1>4 DEF Inv, Fresh

(* What the KaY's callbacks have in common: it is enough that the new CP   *)
(* and the new store are right.                                            *)
LEMMA CallbackInv ==
  ASSUME Inv, NEW c \in CpRecord, PortOK(c), NEW s, SaOK(s), Fresh(s, lastkn),
         node' = [cp |-> c, sa |-> s],
         UNCHANGED <<loop, lastkn, is_key_server>>, participant' \in BOOLEAN
  PROVE  Inv'
<1>1. NodeOK(node') /\ node'.sa = s  BY DEF NodeOK
<1> QED BY <1>1 DEF Inv

(* The inputs of CP do not touch the port. *)
LEMMA CpInput ==
  ASSUME NEW d \in CpRecord, PortOK(d), NEW v \in Connect, NEW st \in BOOLEAN,
         NEW es \in BOOLEAN, NEW cs \in BOOLEAN
  PROVE  LET c == [d EXCEPT !.connect = v, !.step_timer = st]
             e == [d EXCEPT !.elected_self = es, !.chgd_server = cs, !.step_timer = st]
             f == [d EXCEPT !.elected_self = es, !.connect = v, !.step_timer = st]
         IN  /\ c \in CpRecord /\ PortOK(c)
             /\ e \in CpRecord /\ PortOK(e)
             /\ f \in CpRecord /\ PortOK(f)
<1> DEFINE c == [d EXCEPT !.connect = v, !.step_timer = st]
           e == [d EXCEPT !.elected_self = es, !.chgd_server = cs, !.step_timer = st]
           f == [d EXCEPT !.elected_self = es, !.connect = v, !.step_timer = st]
<1>1. c \in CpRecord /\ PortOK(c)  BY ZenonT(60) DEF CpRecord, PortOK
<1>2. e \in CpRecord /\ PortOK(e)
  <2> DEFINE b == [d EXCEPT !.elected_self = es]
  <2>1. b \in CpRecord /\ PortOK(b)  BY DEF CpRecord, PortOK
  <2> HIDE DEF b
  <2>2. [b EXCEPT !.chgd_server = cs, !.step_timer = st] \in CpRecord
    BY <2>1 DEF CpRecord
  <2>3. PortOK([b EXCEPT !.chgd_server = cs, !.step_timer = st])
    BY <2>1 DEF CpRecord, PortOK
  <2> QED BY <2>2, <2>3 DEF b
<1>3. f \in CpRecord /\ PortOK(f)
  <2> DEFINE b == [d EXCEPT !.elected_self = es]
  <2>1. b \in CpRecord /\ PortOK(b)  BY DEF CpRecord, PortOK
  <2> HIDE DEF b
  <2>2. [b EXCEPT !.connect = v, !.step_timer = st] \in CpRecord
    BY <2>1 DEF CpRecord
  <2>3. PortOK([b EXCEPT !.connect = v, !.step_timer = st])
    BY <2>1 DEF CpRecord, PortOK
  <2> QED BY <2>2, <2>3 DEF b
<1> QED BY <1>1, <1>2, <1>3

(* The participant and its peer come and go. *)
LEMMA PeerInv ==
  ASSUME Inv, reauthenticated \/ peer_live \/ peer_expired \/ participant_deleted
  PROVE  Inv'
<1>1. /\ node.cp \in CpRecord /\ PortOK(node.cp) /\ SaOK(node.sa)
      /\ Fresh(node.sa, lastkn) /\ is_key_server \in BOOLEAN /\ participant \in BOOLEAN
  BY DEF Inv, NodeOK
<1>2. node.sa \in SaRecord  BY <1>1 DEF SaOK
<1>3. /\ node.cp.step_timer \in BOOLEAN /\ node.cp.chgd_server \in BOOLEAN
      /\ node.cp.elected_self \in BOOLEAN
  BY <1>1 DEF CpRecord
<1>4. {"UNAUTHENTICATED", "AUTHENTICATED", "SECURE"} \subseteq Connect  BY DEF Connect
<1>5. CASE reauthenticated
  <2> DEFINE c == [node.cp EXCEPT !.connect = "UNAUTHENTICATED", !.step_timer = TRUE]
  <2>1. node' = [cp |-> c, sa |-> FreshSa(is_key_server)]
    BY <1>5 DEF reauthenticated, KayCallback, cp
  <2>2. UNCHANGED <<loop, lastkn, is_key_server>> /\ participant' = TRUE
    BY <1>5 DEF reauthenticated, KayCallback
  <2>3. c \in CpRecord /\ PortOK(c)  BY <1>1, <1>4, CpInput
  <2>4. SaOK(FreshSa(is_key_server)) /\ Fresh(FreshSa(is_key_server), lastkn)
    BY <1>1, FreshSaFresh
  <2> HIDE DEF c
  <2> QED BY <2>1, <2>2, <2>3, <2>4, CallbackInv
<1>6. CASE peer_live
  <2> DEFINE t1 == [node.sa EXCEPT !.rxsc = TRUE]
             t2 == [node.sa EXCEPT !.rxsc = TRUE, !.principal = TRUE]
             c1 == [node.cp EXCEPT !.elected_self = TRUE, !.connect = "SECURE",
                                   !.step_timer = TRUE]
             c2(g) == [node.cp EXCEPT !.elected_self = FALSE,
                                      !.chgd_server = node.cp.chgd_server \/ g,
                                      !.step_timer = node.cp.step_timer \/ g]
  <2>1. \/ node' = [cp |-> c1, sa |-> t1]
        \/ \E g \in BOOLEAN : node' = [cp |-> c2(g), sa |-> t2]
    BY <1>6 DEF peer_live, KayCallback, cp, sa
  <2>2. UNCHANGED <<loop, lastkn, is_key_server>> /\ participant' = participant
    BY <1>6 DEF peer_live, KayCallback
  <2>3. c1 \in CpRecord /\ PortOK(c1)  BY <1>1, <1>4, CpInput
  <2>4. ASSUME NEW g \in BOOLEAN PROVE c2(g) \in CpRecord /\ PortOK(c2(g))
    BY <1>1, <1>3, <1>4, CpInput
  <2>5. /\ t1 \in SaRecord /\ t1.sak = node.sa.sak /\ t1.user = node.sa.user
        /\ t1.rxsa = node.sa.rxsa /\ t1.txsa = node.sa.txsa
    BY <1>2 DEF SaRecord
  <2>6. /\ t2 \in SaRecord /\ t2.sak = node.sa.sak /\ t2.user = node.sa.user
        /\ t2.rxsa = node.sa.rxsa /\ t2.txsa = node.sa.txsa
    BY <1>2 DEF SaRecord
  <2> HIDE DEF t1, t2, c1, c2
  <2>7. SaOK(t1) /\ Fresh(t1, lastkn) /\ SaOK(t2) /\ Fresh(t2, lastkn)
    BY <1>1, <2>5, <2>6, SameStoreKeeps DEF Keeps, Fresh
  <2>8. CASE node' = [cp |-> c1, sa |-> t1]
    BY <1>1, <2>2, <2>3, <2>7, <2>8, CallbackInv
  <2>9. ASSUME NEW g \in BOOLEAN, node' = [cp |-> c2(g), sa |-> t2] PROVE Inv'
    BY <1>1, <2>2, <2>4, <2>7, <2>9, CallbackInv
  <2> QED BY <2>1, <2>8, <2>9
<1>7. CASE peer_expired
  <2> DEFINE c == [node.cp EXCEPT !.connect = "AUTHENTICATED", !.step_timer = TRUE]
             d == deinit_receive_sc(node.sa)
             e == delete_transmit_sas(d)
             t == [e EXCEPT !.to_use_sak = FALSE]
  <2>1. node' = [cp |-> c, sa |-> t]  BY <1>7 DEF peer_expired, KayCallback, cp, sa
  <2>2. UNCHANGED <<loop, lastkn, is_key_server>> /\ participant' = participant
    BY <1>7 DEF peer_expired, KayCallback
  <2>3. c \in CpRecord /\ PortOK(c)  BY <1>1, <1>4, CpInput
  <2>4. Keeps(node.sa, d) /\ SaOK(d)  BY <1>1, DeinitReceiveScKeeps DEF Keeps
  <2> HIDE DEF c, d
  <2>5. Keeps(d, e) /\ SaOK(e)  BY <2>4, DeleteTransmitSasKeeps DEF Keeps
  <2> HIDE DEF e
  <2>6. /\ t \in SaRecord /\ t.sak = e.sak /\ t.user = e.user
        /\ t.rxsa = e.rxsa /\ t.txsa = e.txsa
    BY <2>5 DEF SaRecord, SaOK
  <2> HIDE DEF t
  <2>7. Keeps(e, t)  BY <2>5, <2>6, SameStoreKeeps
  <2>8. SaOK(t) /\ Fresh(t, lastkn)  BY <1>1, <2>4, <2>5, <2>7 DEF Keeps, Fresh
  <2> QED BY <1>1, <2>1, <2>2, <2>3, <2>8, CallbackInv
<1>8. CASE participant_deleted
  <2>1. node' = [cp |-> node.cp, sa |-> FreshSa(FALSE)]
    BY <1>8 DEF participant_deleted, KayCallback, cp
  <2>2. UNCHANGED <<loop, lastkn, is_key_server>> /\ participant' = FALSE
    BY <1>8 DEF participant_deleted, KayCallback
  <2>3. SaOK(FreshSa(FALSE)) /\ Fresh(FreshSa(FALSE), lastkn)  BY FreshSaFresh
  <2> QED BY <1>1, <2>1, <2>2, <2>3, CallbackInv
<1> QED BY <1>5, <1>6, <1>7, <1>8

(* The parameter sets of the peer's MKPDUs other than a new SAK. *)
LEMMA ParameterInv ==
  ASSUME Inv, no_macsec \/ sak_installed \/ all_receiving \/ server_transmitting
  PROVE  Inv'
<1> DEFINE c1 == [node.cp EXCEPT !.connect = "AUTHENTICATED", !.step_timer = TRUE]
           c2 == [node.cp EXCEPT !.connect = "SECURE", !.step_timer = TRUE]
           c3 == [node.cp EXCEPT !.all_receiving = TRUE, !.step_timer = TRUE]
           c4 == [node.cp EXCEPT !.server_transmitting = TRUE, !.step_timer = TRUE]
           t  == [node.sa EXCEPT !.to_use_sak = TRUE]
<1>1. /\ node.cp \in CpRecord /\ PortOK(node.cp) /\ SaOK(node.sa) /\ NodeOK(node)
      /\ Fresh(node.sa, lastkn) /\ participant \in BOOLEAN
  BY DEF Inv, NodeOK
<1>2. node.sa \in SaRecord  BY <1>1 DEF SaOK
<1>3. c1 \in CpRecord /\ PortOK(c1) /\ c2 \in CpRecord /\ PortOK(c2)
  BY <1>1, ZenonT(60) DEF CpRecord, PortOK, Connect
<1>4. c3 \in CpRecord /\ PortOK(c3) /\ c4 \in CpRecord /\ PortOK(c4)
  BY <1>1, ZenonT(60) DEF CpRecord, PortOK
<1>5. /\ t \in SaRecord /\ t.sak = node.sa.sak /\ t.user = node.sa.user
      /\ t.rxsa = node.sa.rxsa /\ t.txsa = node.sa.txsa
  BY <1>2 DEF SaRecord
<1>6. \/ node' = [cp |-> c1, sa |-> t]
      \/ \E c \in {c2, c3, c4} : node' = [node EXCEPT !.cp = c]
  BY DEF no_macsec, sak_installed, all_receiving, server_transmitting, KayCallback, cp, sa
<1>7. UNCHANGED <<loop, lastkn, is_key_server>> /\ participant' = participant
  BY DEF no_macsec, sak_installed, all_receiving, server_transmitting, KayCallback
<1> HIDE DEF c1, c2, c3, c4, t
<1>8. SaOK(t) /\ Fresh(t, lastkn)  BY <1>1, <1>5, SameStoreKeeps DEF Keeps, Fresh
<1>9. CASE node' = [cp |-> c1, sa |-> t]
  BY <1>1, <1>3, <1>7, <1>8, <1>9, CallbackInv
<1>10. ASSUME NEW c \in {c2, c3, c4}, node' = [node EXCEPT !.cp = c] PROVE Inv'
  <2>1. node' = [cp |-> c, sa |-> node.sa]  BY <1>1, <1>10, NodeExcept
  <2> QED BY <1>1, <1>3, <1>4, <1>7, <2>1, CallbackInv
<1> QED BY <1>6, <1>9, <1>10

(* A new SAK enters the store with the count of its list entry: no key of  *)
(* that number is in use yet.                                              *)
LEMMA DistributeInv ==
  ASSUME Inv, distribute_sak
  PROVE  Inv'
<1> DEFINE k  == lastkn + 1
           an == lastkn % 4
           a  == AddSak(node.sa, k, an)
           nk == IF is_key_server THEN k ELSE a.new_key
           us == a.to_use_sak \/ ~is_key_server
           t  == [a EXCEPT !.new_key = nk, !.to_use_sak = us]
           v  == IF is_key_server THEN node.cp.connect ELSE "SECURE"
           c(x) == [node.cp EXCEPT !.connect = v, !.cipher = x, !.dki = k, !.dan = an,
                                   !.new_sak = TRUE, !.step_timer = TRUE]
<1>1. /\ node.cp \in CpRecord /\ PortOK(node.cp) /\ SaOK(node.sa)
      /\ Fresh(node.sa, lastkn) /\ participant \in BOOLEAN /\ is_key_server \in BOOLEAN
      /\ lastkn \in KI /\ loop \in 0..MaxPasses
  BY DEF Inv, NodeOK
<1>2. /\ loop' = loop /\ participant' = participant /\ is_key_server' = is_key_server
      /\ lastkn' = k /\ lastkn < MaxKN
  BY DEF distribute_sak
<1>3. k \in KN /\ k \in KI /\ k > lastkn /\ an \in AN
      /\ \A i \in KN : i > k => i > lastkn /\ i # k
  BY <1>1, <1>2, MaxKNAssumption DEF KN, KI, AN
<1>4. \E x \in Ciphers : node' = [cp |-> c(x), sa |-> t]
  BY DEF distribute_sak, cp, sa
<1>5. v \in Connect  BY <1>1 DEF CpRecord, Connect
<1> HIDE DEF k, an, v
<1>6. ASSUME NEW x \in Ciphers PROVE c(x) \in CpRecord /\ PortOK(c(x))
  BY <1>1, <1>3, <1>5, ZenonT(60) DEF CpRecord, PortOK
<1>7. node.sa.user[k] = 0  BY <1>1, <1>3 DEF Fresh
<1>8. SaOK(a) /\ \A i \in KN : i # k => a.user[i] = node.sa.user[i]
  BY <1>1, <1>3, <1>7, AddSakOK
<1> HIDE DEF a, c
<1>9. nk \in KI /\ us \in BOOLEAN  BY <1>1, <1>3, <1>8 DEF SaOK, SaRecord
<1> HIDE DEF nk, us
<1>10. t \in SaRecord /\ t.sak = a.sak /\ t.user = a.user /\ t.rxsa = a.rxsa /\ t.txsa = a.txsa
  BY <1>8, <1>9 DEF SaRecord, SaOK
<1> HIDE DEF t
<1>11. SaOK(t)  BY <1>8, <1>10, SameStoreKeeps DEF Keeps
<1>12. Fresh(t, k)  BY <1>1, <1>3, <1>8, <1>10 DEF Fresh
<1>13. PICK x \in Ciphers : node' = [cp |-> c(x), sa |-> t]  BY <1>4
<1>14. NodeOK(node') /\ node'.sa = t  BY <1>6, <1>11, <1>13 DEF NodeOK
<1> QED BY <1>1, <1>2, <1>3, <1>12, <1>14 DEF Inv

(* Every step of the specification keeps the invariant. *)
LEMMA NextInv == Inv /\ [Next]_vars => Inv'
<1> SUFFICES ASSUME Inv, [Next]_vars PROVE Inv'  OBVIOUS
<1>1. CASE step_cb \/ transmit_when_timeout \/ retire_when_timeout \/ step_run
  BY <1>1, StepRunInv
<1>2. CASE restart  BY <1>2, RestartInv
<1>3. CASE reauthenticated \/ peer_live \/ peer_expired \/ participant_deleted
  BY <1>3, PeerInv
<1>4. CASE no_macsec \/ sak_installed \/ all_receiving \/ server_transmitting
  BY <1>4, ParameterInv
<1>5. CASE distribute_sak  BY <1>5, DistributeInv
<1>6. CASE UNCHANGED vars  BY <1>6 DEF vars, Inv, Fresh
<1> QED BY <1>1, <1>2, <1>3, <1>4, <1>5, <1>6 DEF Next

(* The invariant gives the three properties that the runs check. *)
LEMMA InvProperties == Inv => TypeOK /\ KeysCounted /\ ProtectedPort
<1> SUFFICES ASSUME Inv PROVE TypeOK /\ KeysCounted /\ ProtectedPort  OBVIOUS
<1>1. /\ node = [cp |-> node.cp, sa |-> node.sa] /\ node.cp \in CpRecord
      /\ node.sa \in SaRecord /\ ReferencesCounted(node.sa) /\ PortOK(node.cp)
  BY DEF Inv, NodeOK, SaOK
<1>2. node \in [cp : CpRecord, sa : SaRecord]  BY <1>1
<1>3. TypeOK  BY <1>2 DEF TypeOK, Inv
<1>4. KeysCounted  BY <1>1 DEF KeysCounted, sa
<1>5. node.cp.state \in CPStates  BY <1>1 DEF CpRecord
<1>6. ProtectedPort  BY <1>1, <1>5 DEF ProtectedPort, PortOK, Plain, cp, CPStates
<1> QED BY <1>3, <1>4, <1>6

(* The variables keep their types: the timers stay within the delays they  *)
(* are registered with, the loop within its bound, keys within the ones    *)
(* distributed, reference counts never go below zero.                      *)
THEOREM TypeCorrect == Spec => []TypeOK
<1>1. Inv => TypeOK  BY InvProperties
<1> QED BY <1>1, InitInv, NextInv, PTL DEF Spec

(* Every SAK has exactly one reference per list entry and per SA besides   *)
(* its own, and is freed exactly when nobody refers to it, whatever the    *)
(* order of rekeying, peer loss, reauthentication and retirement.          *)
THEOREM KeysAlwaysCounted == Spec => []KeysCounted
<1>1. Inv => KeysCounted  BY InvProperties
<1> QED BY <1>1, InitInv, NextInv, PTL DEF Spec

(* The controlled port never passes frames unprotected outside the states  *)
(* ALLOWED and AUTHENTICATED, and is never reported valid while plain.     *)
THEOREM PortAlwaysProtected == Spec => []ProtectedPort
<1>1. Inv => ProtectedPort  BY InvProperties
<1> QED BY <1>1, InitInv, NextInv, PTL DEF Spec

-----------------------------------------------------------------------------
(***************************************************************************)
(* How the loop of ieee802_1x_cp_step_run runs, for every number of SAKs   *)
(* and every set of cipher suites: it converges, it ends in a state that   *)
(* needs no further pass, and the SAs it announces are enabled.            *)
(*                                                                         *)
(* Three facts carry the proofs.  Rank bounds the state changes a node has *)
(* before it, and every pass that changes the state lowers it.  FlagsOK    *)
(* says when using_receive_sas and using_transmit_sa can be trusted: both  *)
(* are set by one pass for the next one, but the first may survive a pass  *)
(* that goes from READY through RECEIVE to TRANSMIT.  RoleOK says why that *)
(* does no harm: only a supplicant is READY, and the SAK it takes up next  *)
(* is listed while it is connected.                                        *)
(***************************************************************************)

(* The passes that follow CHANGE: to ALLOWED or AUTHENTICATED, or through  *)
(* SECURED, RECEIVE and RECEIVING to READY.                                *)
AfterChange(c) == IF c.new_sak THEN 4 ELSE 1

(* A bound on the state changes of ieee802_1x_cp_step_run from node n on. *)
Rank(n) ==
  LET c == n.cp
      changed == changed_connect(c)
  IN  CASE c.state = "INIT"   -> 6
        [] c.state = "CHANGE" -> AfterChange(c)
        [] c.state = "ALLOWED" ->
             IF c.connect = "UNAUTHENTICATED" THEN 0 ELSE 1 + AfterChange(c)
        [] c.state = "AUTHENTICATED" ->
             IF c.connect = "AUTHENTICATED" THEN 0 ELSE 1 + AfterChange(c)
        [] c.state \in {"SECURED", "RETIRE"} ->
             IF changed THEN 1 + AfterChange(c) ELSE IF c.new_sak THEN 3 ELSE 0
        [] c.state = "RECEIVE" ->
             IF ~c.using_receive_sas THEN 0
             ELSE IF ~changed THEN 2 ELSE IF c.elected_self THEN 5 ELSE 3
        [] c.state = "RECEIVING" ->
             IF ~c.elected_self
             THEN IF c.server_transmitting THEN 6
                  ELSE IF ~changed THEN 1 ELSE IF c.lki = c.dki THEN 2 ELSE 5
             ELSE IF changed \/ c.new_sak THEN 4
             ELSE IF c.all_receiving \/ ~c.transmit_when THEN 5 ELSE 0
        [] c.state = "READY" ->
             IF c.server_transmitting THEN 5
             ELSE IF ~changed THEN (IF c.new_sak THEN 3 ELSE 0)
             ELSE IF ~Receivable(n.sa, c.dki) THEN 1
             ELSE IF c.elected_self THEN 6 ELSE 4
        [] c.state = "TRANSMIT" -> IF c.using_transmit_sa THEN 4 ELSE 0
        [] c.state = "TRANSMITTING" ->
             IF changed THEN 2 + AfterChange(c) ELSE IF c.new_sak THEN 4 ELSE 1
        [] c.state = "ABANDON" ->
             IF changed THEN 2 + AfterChange(c) ELSE IF c.new_sak THEN 3 ELSE 0

(* A flag that the state machine is about to test is about the latest key. *)
FlagsOK(n) ==
  /\ n.cp.using_transmit_sa
       => n.cp.state = "TRANSMIT" /\ ~n.cp.new_sak /\ TxEnabled(n)
  /\ n.cp.state = "RECEIVE" /\ n.cp.using_receive_sas
       => /\ ~n.cp.new_sak /\ n.cp.lki = n.cp.dki /\ ~n.cp.all_receiving
          /\ RxEnabled(n)
  /\ n.cp.state \in {"RECEIVING", "READY", "ABANDON"} => ~n.cp.using_receive_sas

(* The key server has elected itself before it has a key, and is not READY.*)
ServerOK(n) ==
  /\ n.cp.state # "READY"
  /\ n.cp.using_receive_sas => n.cp.state = "RECEIVE"
  /\ n.cp.state \in {"RECEIVE", "RECEIVING"} => n.cp.elected_self
  /\ n.cp.new_sak => n.cp.elected_self
  /\ n.sa.rxsc => n.cp.elected_self

(* A supplicant is secured while it has its peer; the SAK it was told of   *)
(* is listed, or the participant it belonged to is gone.                   *)
PeerOK(n) ==
  /\ ~n.cp.elected_self
  /\ n.cp.connect = "SECURE" => n.sa.rxsc /\ n.sa.principal
  /\ n.cp.new_sak =>
       \/ n.sa.sak[n.cp.dki] # NoAN
       \/ n.cp.connect # "SECURE" /\ \A k \in KN : n.sa.sak[k] = NoAN

RoleOK(n, server) == IF server THEN ServerOK(n) ELSE PeerOK(n)

(* The keys CP holds were distributed; a new one is none of those in use.  *)
KeysOK(c, last) ==
  /\ c.dki <= last /\ c.lki <= last /\ c.oki <= last
  /\ c.new_sak => c.dki \in KN /\ c.dki # c.lki /\ c.dki # c.oki

StepOK(n, server, last) == FlagsOK(n) /\ RoleOK(n, server) /\ KeysOK(n.cp, last)

-----------------------------------------------------------------------------
(* Good: the pass changes the state, keeps StepOK, lowers the rank, and    *)
(* announces only what is enabled.                                         *)

Announces(n, y) ==
  /\ ~n.cp.lrx /\ y.cp.lrx => RxEnabled(y)
  /\ n.cp.state # "TRANSMITTING" /\ y.cp.state = "TRANSMITTING" => TxEnabled(y)

Good(n, y, server, last) ==
  /\ StepOK(y, server, last)
  /\ Rank(y) < Rank(n)
  /\ Announces(n, y)
  /\ y.cp.state # n.cp.state

(* The rank is at most 6: no loop has more state changes before it. *)
LEMMA RankRange ==
  ASSUME NEW n, n.cp.state \in CPStates
  PROVE  Rank(n) \in 0..6
BY DEF Rank, AfterChange, CPStates

(* Into CHANGE: the connection is not the one of the state. *)
LEMMA ChangeGood ==
  ASSUME NEW n, NodeOK(n), NEW server \in BOOLEAN, NEW last \in KI,
         StepOK(n, server, last), NEW y, y = CP_CHANGE(n),
         \/ n.cp.state = "INIT"
         \/ n.cp.state = "ALLOWED" /\ n.cp.connect # "UNAUTHENTICATED"
         \/ n.cp.state = "AUTHENTICATED" /\ n.cp.connect # "AUTHENTICATED"
         \/ n.cp.state \in {"SECURED", "RETIRE"} /\ changed_connect(n.cp)
  PROVE  Good(n, y, server, last)
<1>1. /\ y.cp.state = "CHANGE" /\ Steady(n.cp, y.cp) /\ SameFlags(n.cp, y.cp)
      /\ Trims(n.sa, y.sa, {n.cp.lki, n.cp.oki})
  BY ChangeEffect
<1>2. FlagsOK(n) /\ RoleOK(n, server) /\ KeysOK(n.cp, last)  BY DEF StepOK
<1>3. Rank(y) < Rank(n)  BY <1>1 DEF Rank, AfterChange, SameFlags
<1>4. Announces(n, y)  BY <1>1 DEF Announces, SameFlags
<1>5. FlagsOK(y)  BY <1>1, <1>2 DEF FlagsOK, SameFlags
<1>6. KeysOK(y.cp, last)  BY <1>1, <1>2 DEF KeysOK, SameFlags, Steady
<1>7. CASE server
  BY <1>1, <1>2, <1>3, <1>4, <1>5, <1>6, <1>7
     DEF Good, StepOK, RoleOK, ServerOK, SameFlags, Steady, Trims
<1>8. CASE ~server
  <2>1. PeerOK(n)  BY <1>2, <1>8 DEF RoleOK
  <2>2. n.cp.new_sak => n.cp.dki \in KN /\ n.cp.dki \notin {n.cp.lki, n.cp.oki}
    BY <1>2 DEF KeysOK
  <2>3. PeerOK(y)  BY <1>1, <2>1, <2>2 DEF PeerOK, SameFlags, Steady, Trims
  <2> QED BY <1>1, <1>3, <1>4, <1>5, <1>6, <1>8, <2>3 DEF Good, StepOK, RoleOK
<1> QED BY <1>7, <1>8

(* Out of CHANGE, as the connection demands. *)
LEMMA ConnectGood ==
  ASSUME NEW n, NodeOK(n), NEW server \in BOOLEAN, NEW last \in KI,
         StepOK(n, server, last), n.cp.state = "CHANGE", NEW y,
         \/ n.cp.connect = "UNAUTHENTICATED" /\ y = CP_ALLOWED(n)
         \/ n.cp.connect = "AUTHENTICATED" /\ y = CP_AUTHENTICATED(n)
         \/ n.cp.connect = "SECURE" /\ y = CP_SECURED(n)
  PROVE  Good(n, y, server, last)
<1>1. FlagsOK(n) /\ RoleOK(n, server) /\ KeysOK(n.cp, last)  BY DEF StepOK
<1>2. /\ y.cp.connect = n.cp.connect /\ y.cp.elected_self = n.cp.elected_self
      /\ y.cp.dki = n.cp.dki /\ SameFlags(n.cp, y.cp) /\ y.sa = n.sa
      /\ \/ y.cp.state = "ALLOWED" /\ n.cp.connect = "UNAUTHENTICATED"
         \/ y.cp.state = "AUTHENTICATED" /\ n.cp.connect = "AUTHENTICATED"
         \/ y.cp.state = "SECURED" /\ ~changed_connect(y.cp)
  BY PlainEffect, SecuredEffect DEF CP_ALLOWED, CP_AUTHENTICATED, Steady
<1>3. Rank(y) < Rank(n)  BY <1>2 DEF Rank, AfterChange, SameFlags
<1>4. Announces(n, y)  BY <1>2 DEF Announces, SameFlags
<1>5. FlagsOK(y)  BY <1>1, <1>2 DEF FlagsOK, SameFlags
<1>6. KeysOK(y.cp, last)  BY <1>1, <1>2 DEF KeysOK, SameFlags
<1>7. RoleOK(y, server)  BY <1>1, <1>2 DEF RoleOK, ServerOK, PeerOK, SameFlags
<1> QED BY <1>2, <1>3, <1>4, <1>5, <1>6, <1>7 DEF Good, StepOK

(* Into RECEIVE with a new SAK, or from READY whatever the reason. *)
LEMMA ReceiveGood ==
  ASSUME NEW n, NodeOK(n), NEW server \in BOOLEAN, NEW last \in KI,
         StepOK(n, server, last), NEW y, y = CP_RECEIVE(n),
         \/ /\ n.cp.state \in {"SECURED", "RETIRE", "ABANDON"}
            /\ ~changed_connect(n.cp) /\ n.cp.new_sak
         \/ /\ n.cp.state = "READY"
            /\ changed_connect(n.cp) \/ n.cp.new_sak
  PROVE  /\ StepOK(y, server, last)
         /\ n.cp.server_transmitting = FALSE \/ n.cp.state # "READY" => Rank(y) < Rank(n)
         /\ Announces(n, y) /\ y.cp.state # n.cp.state
<1>1. /\ y.cp.state = "RECEIVE" /\ Steady(n.cp, y.cp)
      /\ y.cp.new_sak = FALSE /\ y.cp.all_receiving = FALSE
      /\ y.cp.lki = n.cp.dki /\ y.cp.oki = n.cp.lki /\ y.cp.lrx = FALSE
      /\ y.cp.using_transmit_sa = n.cp.using_transmit_sa
      /\ SameList(n.sa, y.sa)
      /\ \/ y.cp.using_receive_sas = n.cp.using_receive_sas
         \/ RxEnabled(y) /\ Receivable(n.sa, n.cp.dki)
      /\ n.sa.principal /\ n.sa.rxsc /\ Listed(n.sa, n.cp.dki) => RxEnabled(y)
  BY ReceiveEffect
<1>2. FlagsOK(n) /\ RoleOK(n, server) /\ KeysOK(n.cp, last)  BY DEF StepOK
<1>3. changed_connect(y.cp) <=> changed_connect(n.cp)  BY <1>1, SteadyConnect
<1>4. ~n.cp.using_transmit_sa /\ y.cp.using_transmit_sa = n.cp.using_transmit_sa
  BY <1>1, <1>2 DEF FlagsOK
<1>5. \/ ~y.cp.using_receive_sas
      \/ RxEnabled(y) /\ (n.cp.state = "READY" => Receivable(n.sa, n.cp.dki))
  <2>1. CASE n.cp.state \in {"READY", "ABANDON"}
    BY <1>1, <1>2, <2>1 DEF FlagsOK
  <2>2. CASE n.cp.state \in {"SECURED", "RETIRE"} /\ server
    BY <1>1, <1>2, <2>2 DEF RoleOK, ServerOK
  <2>3. CASE n.cp.state \in {"SECURED", "RETIRE"} /\ ~server
    <3>1. n.cp.connect = "SECURE" /\ n.cp.new_sak  BY <2>3 DEF changed_connect
    <3>2. n.sa.rxsc /\ n.sa.principal /\ Listed(n.sa, n.cp.dki)
      BY <1>2, <2>3, <3>1 DEF RoleOK, PeerOK, KeysOK, Listed
    <3> QED BY <1>1, <2>3, <3>2
  <2> QED BY <2>1, <2>2, <2>3
<1>6. FlagsOK(y)  BY <1>1, <1>4, <1>5 DEF FlagsOK, Steady
<1>7. KeysOK(y.cp, last)  BY <1>1, <1>2 DEF KeysOK, Steady
<1>8. RoleOK(y, server)
  <2>1. CASE server  BY <1>1, <1>2, <2>1 DEF RoleOK, ServerOK, Steady, SameList
  <2>2. CASE ~server  BY <1>1, <1>2, <2>2 DEF RoleOK, PeerOK, Steady, SameList
  <2> QED BY <2>1, <2>2
<1>9. Announces(n, y)  BY <1>1 DEF Announces
<1>10. ASSUME n.cp.server_transmitting = FALSE \/ n.cp.state # "READY"
       PROVE  Rank(y) < Rank(n)
  <2>1. y.cp.elected_self = n.cp.elected_self  BY <1>1 DEF Steady
  <2>2. CASE n.cp.state = "READY"
    BY <1>1, <1>3, <1>5, <1>10, <2>1, <2>2 DEF Rank
  <2>3. CASE n.cp.state # "READY"
    BY <1>1, <1>3, <2>1, <2>3 DEF Rank
  <2> QED BY <2>2, <2>3
<1> QED BY <1>1, <1>6, <1>7, <1>8, <1>9, <1>10 DEF StepOK

(* From RECEIVE to RECEIVING: the receive SA of the latest key is enabled. *)
LEMMA ReceivingGood ==
  ASSUME NEW n, NodeOK(n), NEW server \in BOOLEAN, NEW last \in KI,
         StepOK(n, server, last), NEW y, y = CP_RECEIVING(n),
         n.cp.state = "RECEIVE", n.cp.using_receive_sas
  PROVE  Good(n, y, server, last)
<1>1. /\ y.cp.state = "RECEIVING" /\ Steady(n.cp, y.cp)
      /\ y.cp.new_sak = n.cp.new_sak /\ y.cp.lki = n.cp.lki /\ y.cp.oki = n.cp.oki
      /\ y.cp.lrx = TRUE /\ y.cp.transmit_when = TRUE
      /\ y.cp.using_receive_sas = FALSE /\ y.cp.server_transmitting = FALSE
      /\ y.cp.using_transmit_sa = n.cp.using_transmit_sa
      /\ y.cp.all_receiving = n.cp.all_receiving
      /\ SameSas(n.sa, y.sa)
  BY ReceivingEffect
<1>2. FlagsOK(n) /\ RoleOK(n, server) /\ KeysOK(n.cp, last)  BY DEF StepOK
<1>3. changed_connect(y.cp) <=> changed_connect(n.cp)  BY <1>1, SteadyConnect
<1>4. ~n.cp.new_sak /\ n.cp.lki = n.cp.dki /\ ~n.cp.all_receiving /\ RxEnabled(n)
      /\ ~n.cp.using_transmit_sa
  BY <1>2 DEF FlagsOK
<1>5. Announces(n, y)  BY <1>1, <1>4 DEF Announces, RxEnabled, SameSas
<1>6. FlagsOK(y)  BY <1>1, <1>4 DEF FlagsOK
<1>7. KeysOK(y.cp, last)  BY <1>1, <1>2 DEF KeysOK, Steady
<1>8. RoleOK(y, server)
  <2>1. CASE server  BY <1>1, <1>2, <2>1 DEF RoleOK, ServerOK, Steady, SameSas
  <2>2. CASE ~server  BY <1>1, <1>2, <2>2 DEF RoleOK, PeerOK, Steady, SameSas
  <2> QED BY <2>1, <2>2
<1>9. Rank(y) < Rank(n)
  <2>1. y.cp.elected_self = n.cp.elected_self /\ y.cp.lki = y.cp.dki
    BY <1>1, <1>4 DEF Steady
  <2> QED BY <1>1, <1>3, <1>4, <2>1 DEF Rank
<1> QED BY <1>1, <1>5, <1>6, <1>7, <1>8, <1>9 DEF Good, StepOK

(* Into TRANSMITTING: the transmit SA of the latest key is enabled. *)
LEMMA TransmittingGood ==
  ASSUME NEW n, NodeOK(n), NEW server \in BOOLEAN, NEW last \in KI,
         StepOK(n, server, last), NEW y, y = CP_TRANSMITTING(n),
         n.cp.state = "TRANSMIT", n.cp.using_transmit_sa
  PROVE  Good(n, y, server, last)
<1>1. /\ y.cp.state = "TRANSMITTING" /\ Steady(n.cp, y.cp)
      /\ y.cp.new_sak = n.cp.new_sak /\ y.cp.lki = n.cp.lki /\ y.cp.oki = n.cp.oki
      /\ y.cp.lrx = n.cp.lrx /\ y.cp.using_receive_sas = n.cp.using_receive_sas
      /\ y.cp.using_transmit_sa = FALSE
      /\ SameSas(n.sa, y.sa)
  BY TransmittingEffect
<1>2. FlagsOK(n) /\ RoleOK(n, server) /\ KeysOK(n.cp, last)  BY DEF StepOK
<1>3. ~n.cp.new_sak /\ TxEnabled(n)  BY <1>2 DEF FlagsOK
<1>4. Announces(n, y)  BY <1>1, <1>3 DEF Announces, TxEnabled, SameSas
<1>5. FlagsOK(y)  BY <1>1 DEF FlagsOK
<1>6. KeysOK(y.cp, last)  BY <1>1, <1>2 DEF KeysOK, Steady
<1>7. RoleOK(y, server)
  <2>1. CASE server  BY <1>1, <1>2, <2>1 DEF RoleOK, ServerOK, Steady, SameSas
  <2>2. CASE ~server  BY <1>1, <1>2, <2>2 DEF RoleOK, PeerOK, Steady, SameSas
  <2> QED BY <2>1, <2>2
<1>8. Rank(y) < Rank(n)  BY <1>1, <1>3 DEF Rank, AfterChange
<1> QED BY <1>1, <1>4, <1>5, <1>6, <1>7, <1>8 DEF Good, StepOK

(* Into RETIRE. *)
LEMMA RetireGood ==
  ASSUME NEW n, NodeOK(n), NEW server \in BOOLEAN, NEW last \in KI,
         StepOK(n, server, last), NEW y, y = CP_RETIRE(n),
         \/ n.cp.state = "TRANSMITTING"
         \/ n.cp.state = "ABANDON" /\ changed_connect(n.cp)
  PROVE  Good(n, y, server, last)
<1>1. /\ y.cp.state = "RETIRE" /\ Steady(n.cp, y.cp)
      /\ y.cp.new_sak = n.cp.new_sak /\ y.cp.lki = n.cp.lki /\ y.cp.oki = NoKey
      /\ y.cp.lrx = n.cp.lrx /\ y.cp.using_receive_sas = n.cp.using_receive_sas
      /\ y.cp.using_transmit_sa = n.cp.using_transmit_sa
      /\ SameSas(n.sa, y.sa)
  BY RetireEffect
<1>2. FlagsOK(n) /\ RoleOK(n, server) /\ KeysOK(n.cp, last)  BY DEF StepOK
<1>3. changed_connect(y.cp) <=> changed_connect(n.cp)  BY <1>1, SteadyConnect
<1>4. Announces(n, y)  BY <1>1 DEF Announces
<1>5. FlagsOK(y)  BY <1>1, <1>2 DEF FlagsOK
<1>6. KeysOK(y.cp, last)
  <2>1. NoKey <= last /\ NoKey \notin KN  BY DEF KI, KN, NoKey
  <2> QED BY <1>1, <1>2, <2>1 DEF KeysOK, Steady
<1>7. RoleOK(y, server)
  <2>1. CASE server  BY <1>1, <1>2, <2>1 DEF RoleOK, ServerOK, Steady, SameSas
  <2>2. CASE ~server  BY <1>1, <1>2, <2>2 DEF RoleOK, PeerOK, Steady, SameSas
  <2> QED BY <2>1, <2>2
<1>8. Rank(y) < Rank(n)  BY <1>1, <1>3 DEF Rank, AfterChange
<1> QED BY <1>1, <1>4, <1>5, <1>6, <1>7, <1>8 DEF Good, StepOK

(* Into TRANSMIT, from RECEIVING or READY and what they passed through. *)
LEMMA TransmitGood ==
  ASSUME NEW m, NodeOK(m), NEW server \in BOOLEAN, NEW last \in KI,
         NEW y, y = CP_TRANSMIT(m),
         ~m.cp.using_transmit_sa, ~m.cp.new_sak, KeysOK(m.cp, last),
         server => ~m.cp.using_receive_sas /\ (m.sa.rxsc => m.cp.elected_self),
         ~server => PeerOK(m)
  PROVE  /\ StepOK(y, server, last) /\ y.cp.state = "TRANSMIT" /\ y.cp.lrx = m.cp.lrx
         /\ Rank(y) <= 4 /\ (m.cp.lki = NoKey => Rank(y) = 0)
<1>1. /\ y.cp.state = "TRANSMIT" /\ Steady(m.cp, y.cp)
      /\ y.cp.new_sak = m.cp.new_sak /\ y.cp.lki = m.cp.lki /\ y.cp.oki = m.cp.oki
      /\ y.cp.lrx = m.cp.lrx /\ y.cp.using_receive_sas = m.cp.using_receive_sas
      /\ SameList(m.sa, y.sa)
      /\ \/ y.cp.using_transmit_sa = m.cp.using_transmit_sa
         \/ TxEnabled(y) /\ m.cp.lki # NoKey
  BY TransmitEffect
<1>2. FlagsOK(y)  BY <1>1 DEF FlagsOK
<1>3. KeysOK(y.cp, last)  BY <1>1 DEF KeysOK, Steady
<1>4. RoleOK(y, server)
  <2>1. CASE server  BY <1>1, <2>1 DEF RoleOK, ServerOK, Steady, SameList
  <2>2. CASE ~server  BY <1>1, <2>2 DEF RoleOK, PeerOK, Steady, SameList
  <2> QED BY <2>1, <2>2
<1>5. Rank(y) <= 4 /\ (m.cp.lki = NoKey => Rank(y) = 0)  BY <1>1 DEF Rank
<1> QED BY <1>1, <1>2, <1>3, <1>4, <1>5 DEF StepOK

(* Out of RECEIVING when the SAK is superseded or the connection changed:  *)
(* through ABANDON.                                                        *)
LEMMA AbandonGood ==
  ASSUME NEW n, NodeOK(n), NEW server \in BOOLEAN, NEW last \in KI,
         StepOK(n, server, last), n.cp.state = "RECEIVING",
         n.cp.new_sak \/ changed_connect(n.cp), NEW m, m = CP_ABANDON(n), NEW y,
         \/ ~m.cp.elected_self /\ y = CP_READY(m)
         \/ m.cp.elected_self /\ (y = CP_TRANSMIT(m) \/ y = m)
  PROVE  Good(n, y, server, last)
<1>1. /\ m.cp.state = "ABANDON" /\ Steady(n.cp, m.cp)
      /\ m.cp.new_sak = FALSE /\ m.cp.lki = NoKey /\ m.cp.oki = n.cp.oki
      /\ m.cp.lrx = FALSE /\ m.cp.using_receive_sas = n.cp.using_receive_sas
      /\ m.cp.using_transmit_sa = n.cp.using_transmit_sa
      /\ m.cp.server_transmitting = n.cp.server_transmitting
      /\ Trims(n.sa, m.sa, {n.cp.lki}) /\ ~Receivable(m.sa, n.cp.lki)
  BY AbandonEffect
<1>2. FlagsOK(n) /\ RoleOK(n, server) /\ KeysOK(n.cp, last)  BY DEF StepOK
<1>3. NodeOK(m)  BY AbandonFollows DEF Follows, Plain
<1>4. changed_connect(m.cp) <=> changed_connect(n.cp)  BY <1>1, SteadyConnect
<1>5. ~m.cp.using_transmit_sa /\ ~m.cp.using_receive_sas  BY <1>1, <1>2 DEF FlagsOK
<1>6. KeysOK(m.cp, last)
  <2>1. NoKey <= last  BY DEF KI, NoKey
  <2> QED BY <1>1, <1>2, <2>1 DEF KeysOK, Steady
<1>7. RoleOK(m, server)
  <2>1. CASE server  BY <1>1, <1>2, <1>5, <2>1 DEF RoleOK, ServerOK, Steady, Trims
  <2>2. CASE ~server  BY <1>1, <1>2, <2>2 DEF RoleOK, PeerOK, Steady, Trims
  <2> QED BY <2>1, <2>2
<1>8. m.cp.elected_self = n.cp.elected_self /\ m.cp.dki = n.cp.dki  BY <1>1 DEF Steady
<1>9. CASE ~m.cp.elected_self /\ y = CP_READY(m)
  <2>1. /\ y.cp.state = "READY" /\ Steady(m.cp, y.cp) /\ SameFlags(m.cp, y.cp)
        /\ y.cp.server_transmitting = m.cp.server_transmitting
        /\ y.sa = m.sa
    BY <1>3, <1>9, ReadyEffect
  <2>2. changed_connect(y.cp) <=> changed_connect(n.cp)  BY <1>4, <2>1, SteadyConnect
  <2>3. ~server  BY <1>2, <1>8, <1>9 DEF RoleOK, ServerOK
  <2>4. PeerOK(y)  BY <1>7, <2>1, <2>3 DEF RoleOK, PeerOK, SameFlags, Steady
  <2>5. FlagsOK(y)  BY <1>5, <2>1 DEF FlagsOK, SameFlags
  <2>6. KeysOK(y.cp, last)  BY <1>6, <2>1 DEF KeysOK, SameFlags, Steady
  <2>7. Announces(n, y)  BY <1>1, <2>1 DEF Announces, SameFlags
  <2>8. y.cp.new_sak = FALSE /\ y.cp.dki = n.cp.dki /\ ~y.cp.elected_self
        /\ ~n.cp.elected_self /\ y.cp.server_transmitting = n.cp.server_transmitting
    BY <1>1, <1>8, <1>9, <2>1 DEF SameFlags, Steady
  <2>9. n.cp.lki = n.cp.dki => ~Receivable(y.sa, y.cp.dki)  BY <1>1, <2>1, <2>8
  <2>10. Rank(y) < Rank(n)  BY <2>1, <2>2, <2>8, <2>9 DEF Rank
  <2> QED BY <2>1, <2>3, <2>4, <2>5, <2>6, <2>7, <2>10 DEF Good, StepOK, RoleOK
<1>10. CASE m.cp.elected_self /\ y = CP_TRANSMIT(m)
  <2>1. /\ server => ~m.cp.using_receive_sas /\ (m.sa.rxsc => m.cp.elected_self)
        /\ ~server => PeerOK(m)
    BY <1>5, <1>7 DEF RoleOK, ServerOK
  <2>2. ~m.cp.new_sak  BY <1>1
  <2>3. /\ StepOK(y, server, last) /\ y.cp.state = "TRANSMIT" /\ y.cp.lrx = m.cp.lrx
        /\ (m.cp.lki = NoKey => Rank(y) = 0)
    BY <1>3, <1>5, <1>6, <1>10, <2>1, <2>2, TransmitGood
  <2>4. Announces(n, y)  BY <1>1, <2>3 DEF Announces
  <2>5. Rank(n) = 4  BY <1>8, <1>10 DEF Rank
  <2> QED BY <1>1, <2>3, <2>4, <2>5 DEF Good
<1>11. CASE m.cp.elected_self /\ y = m
  <2>1. Announces(n, y)  BY <1>1, <1>11 DEF Announces
  <2>2. FlagsOK(y)  BY <1>1, <1>5, <1>11 DEF FlagsOK
  <2>3. Rank(y) < Rank(n)  BY <1>1, <1>4, <1>8, <1>11 DEF Rank, AfterChange
  <2> QED BY <1>1, <1>6, <1>7, <1>11, <2>1, <2>2, <2>3 DEF Good, StepOK
<1> QED BY <1>9, <1>10, <1>11

(* Out of RECEIVING with the SAK: to READY, or to TRANSMIT. *)
LEMMA ReceivedGood ==
  ASSUME NEW n, NodeOK(n), NEW server \in BOOLEAN, NEW last \in KI,
         StepOK(n, server, last), n.cp.state = "RECEIVING",
         ~n.cp.new_sak, ~changed_connect(n.cp), NEW y,
         \/ ~n.cp.elected_self /\ y = CP_READY(n)
         \/ /\ n.cp.elected_self /\ y = CP_TRANSMIT(n)
            /\ n.cp.all_receiving \/ ~n.cp.transmit_when
  PROVE  Good(n, y, server, last)
<1>2. FlagsOK(n) /\ RoleOK(n, server) /\ KeysOK(n.cp, last)  BY DEF StepOK
<1>5. ~n.cp.using_transmit_sa /\ ~n.cp.using_receive_sas  BY <1>2 DEF FlagsOK
<1>9. CASE ~n.cp.elected_self /\ y = CP_READY(n)
  <2>1. /\ y.cp.state = "READY" /\ Steady(n.cp, y.cp) /\ SameFlags(n.cp, y.cp)
        /\ y.cp.server_transmitting = n.cp.server_transmitting
        /\ y.sa = n.sa
    BY <1>9, ReadyEffect
  <2>2. changed_connect(y.cp) <=> changed_connect(n.cp)  BY <2>1, SteadyConnect
  <2>3. ~server  BY <1>2, <1>9 DEF RoleOK, ServerOK
  <2>4. PeerOK(y)  BY <1>2, <2>1, <2>3 DEF RoleOK, PeerOK, SameFlags, Steady
  <2>5. FlagsOK(y)  BY <1>5, <2>1 DEF FlagsOK, SameFlags
  <2>6. KeysOK(y.cp, last)  BY <1>2, <2>1 DEF KeysOK, SameFlags, Steady
  <2>7. Announces(n, y)  BY <2>1 DEF Announces, SameFlags
  <2>8. Rank(y) < Rank(n)  BY <1>9, <2>1, <2>2 DEF Rank, SameFlags
  <2> QED BY <2>1, <2>3, <2>4, <2>5, <2>6, <2>7, <2>8 DEF Good, StepOK, RoleOK
<1>10. CASE n.cp.elected_self /\ y = CP_TRANSMIT(n)
            /\ (n.cp.all_receiving \/ ~n.cp.transmit_when)
  <2>1. /\ server => ~n.cp.using_receive_sas /\ (n.sa.rxsc => n.cp.elected_self)
        /\ ~server => PeerOK(n)
    BY <1>2, <1>5 DEF RoleOK, ServerOK
  <2>2. /\ StepOK(y, server, last) /\ y.cp.state = "TRANSMIT" /\ y.cp.lrx = n.cp.lrx
        /\ Rank(y) <= 4
    BY <1>2, <1>5, <1>10, <2>1, TransmitGood
  <2>3. Announces(n, y)  BY <2>2 DEF Announces
  <2>4. Rank(n) = 5  BY <1>10 DEF Rank
  <2>5. Rank(y) \in 0..6  BY <2>2, RankRange DEF CPStates
  <2> QED BY <2>2, <2>3, <2>4, <2>5 DEF Good
<1> QED BY <1>9, <1>10

(* Out of READY: RECEIVE once more, TRANSMIT, or both in one pass. *)
LEMMA ReadyGood ==
  ASSUME NEW n, NodeOK(n), NEW server \in BOOLEAN, NEW last \in KI,
         StepOK(n, server, last), n.cp.state = "READY", NEW y, y = StepREADY(n),
         n.cp.new_sak \/ changed_connect(n.cp) \/ n.cp.server_transmitting
  PROVE  Good(n, y, server, last)
<1>1. FlagsOK(n) /\ RoleOK(n, server) /\ KeysOK(n.cp, last)  BY DEF StepOK
<1>2. ~server /\ PeerOK(n)  BY <1>1 DEF RoleOK, ServerOK
<1>3. PICK m : m = IF n.cp.new_sak \/ changed_connect(n.cp) THEN CP_RECEIVE(n) ELSE n
  OBVIOUS
<1>4. y = IF m.cp.server_transmitting THEN CP_TRANSMIT(m) ELSE m
  BY <1>3, Zenon DEF StepREADY
<1>5. n.cp.server_transmitting \in BOOLEAN  BY DEF NodeOK, CpRecord
<1>6. CASE n.cp.new_sak \/ changed_connect(n.cp)
  <2>1. m = CP_RECEIVE(n)  BY <1>3, <1>6
  <2>2. NodeOK(m)  BY <2>1, ReceiveFollows DEF Follows, Plain
  <2>3. m.cp.new_sak = FALSE /\ m.cp.lrx = FALSE
        /\ m.cp.using_transmit_sa = n.cp.using_transmit_sa
        /\ m.cp.server_transmitting = n.cp.server_transmitting
    BY <2>1, ReceiveEffect
  <2>4. /\ StepOK(m, server, last) /\ Announces(n, m) /\ m.cp.state # n.cp.state
        /\ n.cp.server_transmitting = FALSE => Rank(m) < Rank(n)
    BY <1>6, <2>1, ReceiveGood
  <2>5. CASE n.cp.server_transmitting = FALSE
    BY <1>4, <2>3, <2>4, <2>5 DEF Good
  <2>6. CASE n.cp.server_transmitting = TRUE
    <3>1. y = CP_TRANSMIT(m)  BY <1>4, <2>3, <2>6
    <3>2. ~m.cp.using_transmit_sa /\ ~m.cp.new_sak  BY <1>1, <2>3 DEF FlagsOK
    <3>3. KeysOK(m.cp, last) /\ PeerOK(m)  BY <1>2, <2>4 DEF StepOK, RoleOK
    <3>4. /\ StepOK(y, server, last) /\ y.cp.state = "TRANSMIT" /\ y.cp.lrx = m.cp.lrx
          /\ Rank(y) <= 4
      BY <1>2, <2>2, <3>1, <3>2, <3>3, TransmitGood
    <3>5. Rank(n) = 5  BY <2>6 DEF Rank
    <3>6. Rank(y) \in 0..6  BY <3>4, RankRange DEF CPStates
    <3>7. Announces(n, y)  BY <2>3, <3>4 DEF Announces
    <3> QED BY <3>4, <3>5, <3>6, <3>7 DEF Good
  <2> QED BY <1>5, <2>5, <2>6
<1>7. CASE ~(n.cp.new_sak \/ changed_connect(n.cp))
  <2>1. m = n /\ n.cp.server_transmitting  BY <1>3, <1>7
  <2>2. y = CP_TRANSMIT(n)  BY <1>4, <2>1
  <2>3. ~n.cp.using_transmit_sa /\ ~n.cp.new_sak  BY <1>1, <1>7 DEF FlagsOK
  <2>4. /\ StepOK(y, server, last) /\ y.cp.state = "TRANSMIT" /\ y.cp.lrx = n.cp.lrx
        /\ Rank(y) <= 4
    BY <1>1, <1>2, <2>2, <2>3, TransmitGood
  <2>5. Rank(n) = 5  BY <2>1 DEF Rank
  <2>6. Rank(y) \in 0..6  BY <2>4, RankRange DEF CPStates
  <2>7. Announces(n, y)  BY <2>4 DEF Announces
  <2> QED BY <2>4, <2>5, <2>6, <2>7 DEF Good
<1> QED BY <1>6, <1>7

-----------------------------------------------------------------------------
(* The nodes on which a pass of SM_STEP has nothing to do. *)
Stable(c) ==
  \/ c.state = "CHANGE" /\ c.connect = "PENDING"
  \/ c.state = "ALLOWED" /\ c.connect = "UNAUTHENTICATED"
  \/ c.state = "AUTHENTICATED" /\ c.connect = "AUTHENTICATED"
  \/ c.state \in {"SECURED", "RETIRE", "ABANDON"} /\ ~changed_connect(c) /\ ~c.new_sak
  \/ c.state = "RECEIVE" /\ ~c.using_receive_sas
  \/ /\ c.state = "RECEIVING" /\ ~changed_connect(c) /\ ~c.new_sak
     /\ c.elected_self /\ ~c.all_receiving /\ c.transmit_when
  \/ /\ c.state = "READY" /\ ~changed_connect(c) /\ ~c.new_sak
     /\ ~c.server_transmitting
  \/ c.state = "TRANSMIT" /\ ~c.using_transmit_sa
  \/ c.state = "TRANSMITTING" /\ c.retire_when /\ ~changed_connect(c)

(* A pass over a stable node does nothing at all. *)
LEMMA StableStep ==
  ASSUME NEW n, Stable(n.cp)
  PROVE  SM_STEP(n) = n
<1>1. CASE n.cp.state = "RECEIVING"
  <2>1. ~(n.cp.new_sak \/ changed_connect(n.cp)) /\ n.cp.elected_self
        /\ ~n.cp.all_receiving /\ n.cp.transmit_when
    BY <1>1 DEF Stable
  <2>2. StepRECEIVING(n) = n  BY <2>1 DEF StepRECEIVING
  <2> QED BY <1>1, <2>2 DEF SM_STEP
<1>2. CASE n.cp.state = "READY"
  <2>1. ~(n.cp.new_sak \/ changed_connect(n.cp)) /\ ~n.cp.server_transmitting
    BY <1>2 DEF Stable
  <2>2. StepREADY(n) = n  BY <2>1 DEF StepREADY
  <2> QED BY <1>2, <2>2 DEF SM_STEP
<1>3. CASE n.cp.state \notin {"RECEIVING", "READY"}
  BY <1>3 DEF Stable, SM_STEP, StepCHANGE, StepSecured, StepABANDON
<1> QED BY <1>1, <1>2, <1>3

(* A pass over any other node is Good. *)
LEMMA UnstableStep ==
  ASSUME NEW n, NodeOK(n), NEW server \in BOOLEAN, NEW last \in KI,
         StepOK(n, server, last), ~Stable(n.cp), NEW y, y = SM_STEP(n)
  PROVE  Good(n, y, server, last)
<1>0. n.cp \in CpRecord  BY DEF NodeOK
<1>1. n.cp.state \in CPStates /\ n.cp.connect \in Connect  BY <1>0 DEF CpRecord
<1>2. CASE n.cp.state \in {"INIT", "ALLOWED", "AUTHENTICATED"}
  <2>1. y = CP_CHANGE(n)  BY <1>2 DEF SM_STEP, Stable
  <2> QED BY <1>2, <2>1, ChangeGood DEF Stable
<1>3. CASE n.cp.state = "CHANGE"
  <2>1. y = StepCHANGE(n) /\ n.cp.connect # "PENDING"  BY <1>3 DEF SM_STEP, Stable
  <2>2. \/ n.cp.connect = "UNAUTHENTICATED" /\ y = CP_ALLOWED(n)
        \/ n.cp.connect = "AUTHENTICATED" /\ y = CP_AUTHENTICATED(n)
        \/ n.cp.connect = "SECURE" /\ y = CP_SECURED(n)
    BY <1>1, <2>1 DEF StepCHANGE, Connect
  <2> QED BY <1>3, <2>2, ConnectGood
<1>4. CASE n.cp.state \in {"SECURED", "RETIRE", "ABANDON"}
  <2>1. changed_connect(n.cp) \/ n.cp.new_sak  BY <1>4 DEF Stable
  <2>2. CASE changed_connect(n.cp) /\ n.cp.state # "ABANDON"
    <3>1. y = CP_CHANGE(n)  BY <1>4, <2>2 DEF SM_STEP, StepSecured
    <3> QED BY <1>4, <2>2, <3>1, ChangeGood
  <2>3. CASE changed_connect(n.cp) /\ n.cp.state = "ABANDON"
    <3>1. y = CP_RETIRE(n)  BY <2>3 DEF SM_STEP, StepABANDON
    <3> QED BY <2>3, <3>1, RetireGood
  <2>4. CASE ~changed_connect(n.cp)
    <3>1. y = CP_RECEIVE(n)  BY <1>4, <2>1, <2>4 DEF SM_STEP, StepSecured, StepABANDON
    <3> QED BY <1>4, <2>1, <2>4, <3>1, ReceiveGood DEF Good
  <2> QED BY <2>2, <2>3, <2>4
<1>5. CASE n.cp.state = "RECEIVE"
  <2>1. y = CP_RECEIVING(n) /\ n.cp.using_receive_sas  BY <1>5 DEF SM_STEP, Stable
  <2> QED BY <1>5, <2>1, ReceivingGood
<1>6. CASE n.cp.state = "RECEIVING"
  <2>1. y = StepRECEIVING(n)  BY <1>6 DEF SM_STEP
  <2>2. PICK m : m = IF n.cp.new_sak \/ changed_connect(n.cp) THEN CP_ABANDON(n) ELSE n
    OBVIOUS
  <2>3. y = IF ~m.cp.elected_self THEN CP_READY(m)
            ELSE IF m.cp.all_receiving \/ ~m.cp.transmit_when THEN CP_TRANSMIT(m) ELSE m
    BY <2>1, <2>2, Zenon DEF StepRECEIVING
  <2>4. CASE n.cp.new_sak \/ changed_connect(n.cp)
    <3>1. m = CP_ABANDON(n)  BY <2>2, <2>4
    <3>2. \/ ~m.cp.elected_self /\ y = CP_READY(m)
          \/ m.cp.elected_self /\ (y = CP_TRANSMIT(m) \/ y = m)
      BY <2>3
    <3> QED BY <1>6, <2>4, <3>1, <3>2, AbandonGood
  <2>5. CASE ~n.cp.new_sak /\ ~changed_connect(n.cp)
    <3>1. m = n  BY <2>2, <2>5
    <3>2. \/ ~n.cp.elected_self /\ y = CP_READY(n)
          \/ /\ n.cp.elected_self /\ y = CP_TRANSMIT(n)
             /\ n.cp.all_receiving \/ ~n.cp.transmit_when
      BY <1>6, <2>3, <2>5, <3>1 DEF Stable
    <3> QED BY <1>6, <2>5, <3>2, ReceivedGood
  <2> QED BY <2>4, <2>5
<1>7. CASE n.cp.state = "READY"
  <2>1. y = StepREADY(n)  BY <1>7 DEF SM_STEP
  <2>2. n.cp.new_sak \/ changed_connect(n.cp) \/ n.cp.server_transmitting
    BY <1>7 DEF Stable
  <2> QED BY <1>7, <2>1, <2>2, ReadyGood
<1>8. CASE n.cp.state = "TRANSMIT"
  <2>1. y = CP_TRANSMITTING(n) /\ n.cp.using_transmit_sa  BY <1>8 DEF SM_STEP, Stable
  <2> QED BY <1>8, <2>1, TransmittingGood
<1>9. CASE n.cp.state = "TRANSMITTING"
  <2>1. y = CP_RETIRE(n)  BY <1>9 DEF SM_STEP, Stable
  <2> QED BY <1>9, <2>1, RetireGood
<1> QED BY <1>1, <1>2, <1>3, <1>4, <1>5, <1>6, <1>7, <1>8, <1>9 DEF CPStates

-----------------------------------------------------------------------------
(* The inductive invariant.  Between callbacks no flag waits for a pass    *)
(* (Quiet); during a loop the passes made and the rank left add up.        *)
Quiet(c) ==
  ~c.using_transmit_sa /\ (c.state = "RECEIVE" => ~c.using_receive_sas)

StepInv ==
  /\ Inv
  /\ StepOK(node, is_key_server, lastkn)
  /\ loop > 0 => loop + Rank(node) <= 7
  /\ loop = 0 => Quiet(node.cp)
  /\ Idle => node.cp.step_timer \/ Stable(node.cp)

(* A step announces only SAs that are enabled. *)
Announced ==
  /\ ~cp.lrx /\ cp'.lrx => \E a \in sa'.rxuse : sa'.rxsa[a] = cp'.lki
  /\ cp.state # "TRANSMITTING" /\ cp'.state = "TRANSMITTING"
       => \E a \in sa'.txuse : sa'.txsa[a] = cp'.lki

(* The rank of the node in a state of the invariant. *)
LEMMA NodeRank ==
  ASSUME NEW n, NodeOK(n)
  PROVE  Rank(n) \in 0..6
<1>1. n.cp.state \in CPStates  BY DEF NodeOK, CpRecord
<1> QED BY <1>1, RankRange

(* A new CP waits in CHANGE for its first connection. *)
LEMMA CpSmInitStep ==
  ASSUME NEW x \in Ciphers, NEW p \in BOOLEAN, NEW m, m = cp_sm_init(x, FreshSa(p))
  PROVE  /\ StepOK(m, p, 0) /\ Quiet(m.cp) /\ Stable(m.cp)
         /\ m.cp.lrx = FALSE /\ m.cp.state = "CHANGE"
<1> DEFINE d == InitialCp(x)
           s == FreshSa(p)
           n == [cp |-> d, sa |-> s]
           i == CP_INIT(n)
<1>1. d \in CpRecord
  BY KIFacts DEF InitialCp, CpRecord, CPStates, Connect, Timers, NoTimer
<1>2. SaOK(s)  BY FreshSaOK
<1>3. /\ i.cp.state = "INIT" /\ i.cp.connect = "PENDING" /\ i.cp.elected_self = FALSE
      /\ i.cp.new_sak = FALSE /\ i.cp.dki = NoKey /\ i.cp.lki = NoKey /\ i.cp.oki = NoKey
      /\ i.cp.lrx = FALSE /\ i.cp.using_receive_sas = FALSE
      /\ i.cp.using_transmit_sa = FALSE /\ i.sa = s
  BY DEF CP_INIT, InitialCp
<1>4. s.rxsc = FALSE  BY DEF FreshSa
<1>5. m = SM_STEP(i)  BY Zenon DEF cp_sm_init
<1> HIDE DEF d, s
<1>6. NodeOK(i)  BY <1>1, <1>2, InitFollows DEF Follows
<1> HIDE DEF i
<1>7. m = CP_CHANGE(i)  BY <1>3, <1>5 DEF SM_STEP
<1>8. /\ m.cp.state = "CHANGE" /\ Steady(i.cp, m.cp) /\ SameFlags(i.cp, m.cp)
      /\ Trims(i.sa, m.sa, {i.cp.lki, i.cp.oki})
  BY <1>6, <1>7, ChangeEffect
<1>9. m.cp.connect = "PENDING" /\ m.cp.dki = NoKey /\ m.cp.elected_self = FALSE
  BY <1>3, <1>8 DEF Steady
<1>10. /\ m.cp.new_sak = FALSE /\ m.cp.lki = NoKey /\ m.cp.oki = NoKey
       /\ m.cp.lrx = FALSE /\ m.cp.using_receive_sas = FALSE
       /\ m.cp.using_transmit_sa = FALSE
  BY <1>3, <1>8 DEF SameFlags
<1>11. m.sa.rxsc = FALSE  BY <1>3, <1>4, <1>8 DEF Trims
<1>12. FlagsOK(m) /\ Quiet(m.cp) /\ Stable(m.cp)
  BY <1>8, <1>9, <1>10 DEF FlagsOK, Quiet, Stable
<1>13. KeysOK(m.cp, 0)  BY <1>9, <1>10 DEF KeysOK, NoKey
<1>14. ServerOK(m) /\ PeerOK(m)
  BY <1>8, <1>9, <1>10, <1>11 DEF ServerOK, PeerOK
<1> QED BY <1>8, <1>10, <1>12, <1>13, <1>14 DEF StepOK, RoleOK

(* The invariant holds initially. *)
LEMMA InitStep == Init => StepInv
<1> SUFFICES ASSUME Init PROVE StepInv  OBVIOUS
<1>1. Inv  BY InitInv
<1>2. PICK c \in Ciphers : node = cp_sm_init(c, FreshSa(is_key_server))  BY DEF Init
<1>3. is_key_server \in BOOLEAN /\ loop = 0 /\ lastkn = 0  BY DEF Init
<1>4. StepOK(node, is_key_server, 0) /\ Quiet(node.cp) /\ Stable(node.cp)
  BY <1>2, <1>3, CpSmInitStep
<1> QED BY <1>1, <1>3, <1>4 DEF StepInv

(* The process starts again. *)
LEMMA RestartStep ==
  ASSUME StepInv, restart
  PROVE  StepInv' /\ Announced
<1>1. Inv'  BY RestartInv DEF StepInv
<1>2. PICK c \in Ciphers : node' = cp_sm_init(c, FreshSa(is_key_server))  BY DEF restart
<1>3. is_key_server \in BOOLEAN /\ is_key_server' = is_key_server /\ loop' = 0 /\ lastkn' = 0
  BY DEF restart, StepInv, Inv
<1>4. /\ StepOK(node', is_key_server, 0) /\ Quiet(node'.cp) /\ Stable(node'.cp)
      /\ node'.cp.lrx = FALSE /\ node'.cp.state = "CHANGE"
  BY <1>2, <1>3, CpSmInitStep
<1>5. StepInv'  BY <1>1, <1>3, <1>4 DEF StepInv
<1>6. Announced  BY <1>4 DEF Announced, cp
<1> QED BY <1>5, <1>6

(* The three timeouts of CP start a loop; they set no flag. *)
LEMMA TimeoutStep ==
  ASSUME StepInv, step_cb \/ transmit_when_timeout \/ retire_when_timeout
  PROVE  StepInv' /\ Announced
<1>1. Inv'  BY StepRunInv DEF StepInv
<1>2. NodeOK(node) /\ StepOK(node, is_key_server, lastkn)  BY DEF StepInv, Inv
<1>3. node.cp \in CpRecord /\ node = [cp |-> node.cp, sa |-> node.sa]  BY <1>2 DEF NodeOK
<1>4. loop' = 1 /\ lastkn' = lastkn /\ is_key_server' = is_key_server
  BY DEF step_cb, transmit_when_timeout, retire_when_timeout
<1>5. \/ node' = [node EXCEPT !.cp.step_timer = FALSE]
      \/ node' = [node EXCEPT !.cp.transmit_timer = NoTimer, !.cp.transmit_when = FALSE]
      \/ node' = [node EXCEPT !.cp.retire_timer = NoTimer, !.cp.retire_when = FALSE]
  BY DEF step_cb, transmit_when_timeout, retire_when_timeout
<1>6. /\ node'.sa = node.sa
      /\ \/ node'.cp = [node.cp EXCEPT !.step_timer = FALSE]
         \/ node'.cp = [node.cp EXCEPT !.transmit_timer = NoTimer, !.transmit_when = FALSE]
         \/ node'.cp = [node.cp EXCEPT !.retire_timer = NoTimer, !.retire_when = FALSE]
  BY <1>3, <1>5
<1>7. /\ node'.cp.state = node.cp.state /\ Steady(node.cp, node'.cp)
      /\ SameFlags(node.cp, node'.cp) /\ node'.cp.all_receiving = node.cp.all_receiving
  <2>1. PICK d : d = node'.cp  OBVIOUS
  <2>2. CASE d = [node.cp EXCEPT !.step_timer = FALSE]
    BY <1>3, <2>1, <2>2 DEF CpRecord, Steady, SameFlags
  <2>3. CASE d = [node.cp EXCEPT !.transmit_timer = NoTimer, !.transmit_when = FALSE]
    BY <1>3, <2>1, <2>3 DEF CpRecord, Steady, SameFlags
  <2>4. CASE d = [node.cp EXCEPT !.retire_timer = NoTimer, !.retire_when = FALSE]
    BY <1>3, <2>1, <2>4 DEF CpRecord, Steady, SameFlags
  <2> QED BY <1>6, <2>1, <2>2, <2>3, <2>4
<1>8. FlagsOK(node')
  BY <1>2, <1>6, <1>7 DEF StepOK, FlagsOK, SameFlags, Steady, RxEnabled, TxEnabled
<1>9. RoleOK(node', is_key_server)
  BY <1>2, <1>6, <1>7 DEF StepOK, RoleOK, ServerOK, PeerOK, SameFlags, Steady
<1>10. KeysOK(node'.cp, lastkn)  BY <1>2, <1>7 DEF StepOK, KeysOK, SameFlags, Steady
<1>11. Rank(node') \in 0..6  BY <1>1, NodeRank DEF Inv
<1>12. loop' > 0 => loop' + Rank(node') <= 7  BY <1>4, <1>11
<1>13. StepInv'
  BY <1>1, <1>4, <1>8, <1>9, <1>10, <1>12 DEF StepInv, StepOK, Idle
<1>14. Announced  BY <1>7 DEF Announced, cp, SameFlags
<1> QED BY <1>13, <1>14

(* A pass of the loop: it is the last one, and the node is stable, or it   *)
(* lowers the rank.                                                        *)
LEMMA PassStep ==
  ASSUME StepInv, step_run
  PROVE  StepInv' /\ Announced
<1>1. Inv'  BY StepRunInv DEF StepInv
<1>2. /\ NodeOK(node) /\ StepOK(node, is_key_server, lastkn) /\ is_key_server \in BOOLEAN
      /\ lastkn \in KI /\ loop \in 0..MaxPasses
  BY DEF StepInv, Inv
<1>3. loop > 0 /\ loop + Rank(node) <= 7 /\ Rank(node) \in 0..6
  BY <1>2, NodeRank DEF StepInv, step_run
<1>4. loop < MaxPasses  BY <1>2, <1>3 DEF MaxPasses
<1>5. PICK m : m = SM_STEP(node)  OBVIOUS
<1>6. /\ node' = [m EXCEPT !.cp = [@ EXCEPT !.new_info = FALSE]]
      /\ loop' = IF m.cp.state = node.cp.state THEN 0 ELSE loop + 1
      /\ lastkn' = lastkn /\ is_key_server' = is_key_server
  BY <1>2, <1>4, <1>5 DEF step_run, cp
<1>7. NodeOK(m)  BY <1>2, <1>5, StepFollows DEF Follows
<1>8. node'.cp = [m.cp EXCEPT !.new_info = FALSE] /\ node'.sa = m.sa
  BY <1>6, <1>7 DEF NodeOK
<1>9. /\ node'.cp.state = m.cp.state /\ Steady(m.cp, node'.cp) /\ SameFlags(m.cp, node'.cp)
      /\ node'.cp.all_receiving = m.cp.all_receiving
      /\ node'.cp.server_transmitting = m.cp.server_transmitting
      /\ node'.cp.transmit_when = m.cp.transmit_when
      /\ node'.cp.retire_when = m.cp.retire_when
  BY <1>7, <1>8 DEF NodeOK, CpRecord, Steady, SameFlags
<1>10. changed_connect(node'.cp) <=> changed_connect(m.cp)  BY <1>9, SteadyConnect
<1>11. ASSUME StepOK(m, is_key_server, lastkn) PROVE StepOK(node', is_key_server', lastkn')
  <2>1. FlagsOK(node')
    BY <1>8, <1>9, <1>11 DEF StepOK, FlagsOK, SameFlags, Steady, RxEnabled, TxEnabled
  <2>2. RoleOK(node', is_key_server)
    BY <1>8, <1>9, <1>11 DEF StepOK, RoleOK, ServerOK, PeerOK, SameFlags, Steady
  <2>3. KeysOK(node'.cp, lastkn)  BY <1>9, <1>11 DEF StepOK, KeysOK, SameFlags, Steady
  <2> QED BY <1>6, <2>1, <2>2, <2>3 DEF StepOK
<1>12. Rank(node') = Rank(m)
  BY <1>8, <1>9, <1>10 DEF Rank, AfterChange, SameFlags, Steady
<1>13. CASE Stable(node.cp)
  <2>1. m = node  BY <1>5, <1>13, StableStep
  <2>2. loop' = 0  BY <1>6, <2>1
  <2>3. Stable(node'.cp)
    BY <1>9, <1>10, <1>13, <2>1 DEF Stable, SameFlags, Steady
  <2>4. Quiet(node'.cp)
    BY <1>2, <1>9, <1>13, <2>1 DEF Stable, Quiet, SameFlags, StepOK, FlagsOK
  <2>5. StepInv'  BY <1>1, <1>2, <1>11, <2>1, <2>2, <2>3, <2>4 DEF StepInv
  <2>6. Announced  BY <1>9, <2>1 DEF Announced, cp, SameFlags
  <2> QED BY <2>5, <2>6
<1>14. CASE ~Stable(node.cp)
  <2>1. Good(node, m, is_key_server, lastkn)  BY <1>2, <1>5, <1>14, UnstableStep
  <2>2. loop' = loop + 1  BY <1>6, <2>1 DEF Good
  <2>3. Rank(m) \in 0..6 /\ Rank(m) < Rank(node)  BY <1>7, <2>1, NodeRank DEF Good
  <2>4. loop' + Rank(node') <= 7  BY <1>2, <1>3, <1>12, <2>2, <2>3
  <2>5. loop' # 0 /\ loop' > 0  BY <1>2, <2>2
  <2>6. StepInv'
    BY <1>1, <1>11, <2>1, <2>4, <2>5 DEF StepInv, Good, Idle
  <2>7. Announced
    BY <1>8, <1>9, <2>1 DEF Good, Announces, Announced, cp, sa, SameFlags, RxEnabled, TxEnabled
  <2> QED BY <2>6, <2>7
<1> QED BY <1>13, <1>14

-----------------------------------------------------------------------------
(* The callbacks of the KaY. *)

(* What they have in common: CP is quiet, and stays so.  It is enough that *)
(* keys and role stay right and that a pass is requested where one is due. *)
LEMMA CallbackStep ==
  ASSUME StepInv, Idle, Inv', loop' = loop, is_key_server' = is_key_server,
         node'.cp.state = node.cp.state, node'.cp.lrx = node.cp.lrx,
         node'.cp.using_receive_sas = node.cp.using_receive_sas,
         node'.cp.using_transmit_sa = node.cp.using_transmit_sa,
         KeysOK(node'.cp, lastkn'), RoleOK(node', is_key_server),
         node'.cp.step_timer \/ Stable(node'.cp)
  PROVE  StepInv' /\ Announced
<1>1. loop = 0 /\ Quiet(node.cp) /\ FlagsOK(node)  BY DEF StepInv, Idle, StepOK
<1>2. Quiet(node'.cp)  BY <1>1 DEF Quiet
<1>3. FlagsOK(node')  BY <1>1 DEF Quiet, FlagsOK
<1>4. StepOK(node', is_key_server', lastkn')  BY <1>3 DEF StepOK
<1>5. StepInv'  BY <1>1, <1>2, <1>4 DEF StepInv
<1>6. Announced  BY DEF Announced, cp
<1> QED BY <1>5, <1>6

(* The callbacks that leave the keys as they are. *)
LEMMA SameKeysStep ==
  ASSUME StepInv, Idle, Inv', loop' = loop, is_key_server' = is_key_server,
         lastkn' = lastkn,
         node'.cp.state = node.cp.state, node'.cp.dki = node.cp.dki,
         SameFlags(node.cp, node'.cp), RoleOK(node', is_key_server),
         node'.cp.step_timer \/ Stable(node'.cp)
  PROVE  StepInv' /\ Announced
<1>1. KeysOK(node.cp, lastkn)  BY DEF StepInv, StepOK
<1>2. KeysOK(node'.cp, lastkn')  BY <1>1 DEF KeysOK, SameFlags
<1> QED BY <1>2, CallbackStep DEF SameFlags

(* A new session: the participant has no peer and no SAK. *)
LEMMA ReauthenticatedStep ==
  ASSUME StepInv, reauthenticated
  PROVE  StepInv' /\ Announced
<1>1. Inv'  BY PeerInv DEF StepInv
<1>2. /\ Idle /\ loop' = loop /\ lastkn' = lastkn /\ is_key_server' = is_key_server
      /\ node' = [cp |-> [node.cp EXCEPT !.connect = "UNAUTHENTICATED", !.step_timer = TRUE],
                  sa |-> FreshSa(is_key_server)]
  BY DEF reauthenticated, KayCallback, cp
<1>3. RoleOK(node, is_key_server) /\ node.cp \in CpRecord
  BY DEF StepInv, StepOK, Inv, NodeOK
<1>4. /\ node'.cp.state = node.cp.state /\ node'.cp.dki = node.cp.dki
      /\ SameFlags(node.cp, node'.cp) /\ node'.cp.elected_self = node.cp.elected_self
      /\ node'.cp.step_timer = TRUE /\ node'.cp.connect = "UNAUTHENTICATED"
  BY <1>2, <1>3 DEF CpRecord, SameFlags
<1>5. node'.sa.rxsc = FALSE /\ \A k \in KN : node'.sa.sak[k] = NoAN
  BY <1>2 DEF FreshSa
<1>6. RoleOK(node', is_key_server)
  BY <1>3, <1>4, <1>5 DEF RoleOK, ServerOK, PeerOK, SameFlags
<1> QED BY <1>1, <1>2, <1>4, <1>6, SameKeysStep

(* The peer becomes live: on the key server CP is elected and secured, a   *)
(* supplicant has not elected itself and hears of a new key server.        *)
LEMMA PeerLiveStep ==
  ASSUME StepInv, peer_live
  PROVE  StepInv' /\ Announced
<1>1. Inv'  BY PeerInv DEF StepInv
<1>2. Idle /\ loop' = loop /\ lastkn' = lastkn /\ is_key_server' = is_key_server
  BY DEF peer_live, KayCallback
<1>3. /\ RoleOK(node, is_key_server) /\ node.cp \in CpRecord /\ node.sa \in SaRecord
      /\ node.cp.step_timer \/ Stable(node.cp)
  BY <1>2 DEF StepInv, StepOK, Inv, NodeOK, SaOK
<1>4. CASE is_key_server
  <2>1. node' = [cp |-> [node.cp EXCEPT !.elected_self = TRUE, !.connect = "SECURE",
                                        !.step_timer = TRUE],
                 sa |-> [node.sa EXCEPT !.rxsc = TRUE]]
    BY <1>4 DEF peer_live, KayCallback, cp, sa
  <2>2. /\ node'.cp.state = node.cp.state /\ node'.cp.dki = node.cp.dki
        /\ SameFlags(node.cp, node'.cp) /\ node'.cp.elected_self = TRUE
        /\ node'.cp.step_timer = TRUE
    BY <1>3, <2>1 DEF CpRecord, SameFlags
  <2>3. RoleOK(node', is_key_server)
    BY <1>3, <1>4, <2>2 DEF RoleOK, ServerOK, SameFlags
  <2> QED BY <1>1, <1>2, <2>2, <2>3, SameKeysStep
<1>5. CASE ~is_key_server
  <2>1. PICK g \in BOOLEAN :
          node' = [cp |-> [node.cp EXCEPT !.elected_self = FALSE,
                                          !.chgd_server = @ \/ g,
                                          !.step_timer = @ \/ g],
                   sa |-> [node.sa EXCEPT !.rxsc = TRUE, !.principal = TRUE]]
    BY <1>5 DEF peer_live, KayCallback, cp, sa
  <2>2. PICK cs, st : cs = (node.cp.chgd_server \/ g) /\ st = (node.cp.step_timer \/ g)
    OBVIOUS
  <2>3. /\ node'.cp = [node.cp EXCEPT !.elected_self = FALSE, !.chgd_server = cs,
                                      !.step_timer = st]
        /\ node'.sa = [node.sa EXCEPT !.rxsc = TRUE, !.principal = TRUE]
    BY <2>1, <2>2
  <2>4. /\ node'.cp.state = node.cp.state /\ node'.cp.dki = node.cp.dki
        /\ SameFlags(node.cp, node'.cp) /\ node'.cp.elected_self = FALSE
        /\ node'.cp.connect = node.cp.connect
        /\ node'.cp.chgd_server = cs /\ node'.cp.step_timer = st
        /\ node'.cp.cipher = node.cp.cipher
        /\ node'.cp.current_cipher = node.cp.current_cipher
        /\ node'.cp.all_receiving = node.cp.all_receiving
        /\ node'.cp.server_transmitting = node.cp.server_transmitting
        /\ node'.cp.transmit_when = node.cp.transmit_when
        /\ node'.cp.retire_when = node.cp.retire_when
    BY <1>3, <2>3 DEF CpRecord, SameFlags
  <2>5. node'.sa.rxsc = TRUE /\ node'.sa.principal = TRUE /\ node'.sa.sak = node.sa.sak
    BY <1>3, <2>3 DEF SaRecord
  <2>6. PeerOK(node)  BY <1>3, <1>5 DEF RoleOK
  <2>7. RoleOK(node', is_key_server)
    BY <1>5, <2>4, <2>5, <2>6 DEF RoleOK, PeerOK, SameFlags
  <2>8. node'.cp.step_timer \/ Stable(node'.cp)
    <3>1. node.cp.chgd_server \in BOOLEAN /\ node.cp.step_timer \in BOOLEAN
          /\ node.cp.elected_self \in BOOLEAN
      BY <1>3 DEF CpRecord
    <3>2. CASE g
      BY <2>2, <2>4, <3>2
    <3>3. CASE ~g
      <4>1. cs = node.cp.chgd_server /\ st = node.cp.step_timer  BY <2>2, <3>1, <3>3
      <4>2. node'.cp.elected_self = node.cp.elected_self  BY <2>4, <2>6, <3>1 DEF PeerOK
      <4>3. Steady(node.cp, node'.cp)  BY <2>4, <4>1, <4>2 DEF Steady
      <4>4. changed_connect(node'.cp) <=> changed_connect(node.cp)  BY <4>3, SteadyConnect
      <4>5. Stable(node.cp) => Stable(node'.cp)
        BY <2>4, <4>2, <4>4 DEF Stable, SameFlags
      <4> QED BY <1>3, <2>4, <4>1, <4>5
    <3> QED BY <3>2, <3>3
  <2> QED BY <1>1, <1>2, <2>4, <2>7, <2>8, SameKeysStep
<1> QED BY <1>4, <1>5, <1>3 DEF RoleOK

(* What the loss of the peer leaves in the store: the list of SAKs, and no *)
(* receive SC.                                                             *)
LEMMA ExpiredEffect ==
  ASSUME NEW s, SaOK(s), s.rxsc,
         NEW t, t = [delete_transmit_sas(deinit_receive_sc(s)) EXCEPT !.to_use_sak = FALSE]
  PROVE  t.rxsc = FALSE /\ t.sak = s.sak
<1>0. 0 \in AN /\ 1 \in AN /\ 2 \in AN /\ 3 \in AN  BY KIFacts
<1>1. ASSUME NEW u, SaOK(u), NEW a \in AN
      PROVE  /\ SaOK(delete_receive_sa(u, a)) /\ delete_receive_sa(u, a).sak = u.sak
             /\ SaOK(delete_transmit_sa(u, a)) /\ delete_transmit_sa(u, a).sak = u.sak
             /\ delete_transmit_sa(u, a).rxsc = u.rxsc
  <2>1. u \in SaRecord  BY <1>1 DEF SaOK
  <2>2. SaOK(delete_receive_sa(u, a)) /\ SaOK(delete_transmit_sa(u, a))
    BY <1>1, DeleteReceiveKeeps, DeleteTransmitKeeps DEF Keeps
  <2>3. delete_receive_sa(u, a).sak = u.sak  BY <2>1, DeleteReceiveFrame
  <2>4. delete_transmit_sa(u, a).sak = u.sak /\ delete_transmit_sa(u, a).rxsc = u.rxsc
    BY <2>1, DeleteTransmitFrame
  <2> QED BY <2>2, <2>3, <2>4
<1>2. PICK d0 : d0 = delete_receive_sa(s, 0)  OBVIOUS
<1>3. PICK d1 : d1 = delete_receive_sa(d0, 1)  OBVIOUS
<1>4. PICK d2 : d2 = delete_receive_sa(d1, 2)  OBVIOUS
<1>5. PICK d3 : d3 = delete_receive_sa(d2, 3)  OBVIOUS
<1>6. SaOK(d0) /\ d0.sak = s.sak  BY <1>0, <1>1, <1>2
<1>7. SaOK(d1) /\ d1.sak = s.sak  BY <1>0, <1>1, <1>3, <1>6
<1>8. SaOK(d2) /\ d2.sak = s.sak  BY <1>0, <1>1, <1>4, <1>7
<1>9. SaOK(d3) /\ d3.sak = s.sak  BY <1>0, <1>1, <1>5, <1>8
<1>10. PICK r : r = deinit_receive_sc(s)  OBVIOUS
<1>11. r = [d3 EXCEPT !.rxsc = FALSE]
  BY <1>2, <1>3, <1>4, <1>5, <1>10, Zenon DEF deinit_receive_sc
<1>12. SaOK(r)  BY <1>10, DeinitReceiveScKeeps DEF Keeps
<1>13. r.sak = s.sak /\ r.rxsc = FALSE  BY <1>9, <1>11 DEF SaOK, SaRecord
<1>14. PICK e0 : e0 = delete_transmit_sa(r, 0)  OBVIOUS
<1>15. PICK e1 : e1 = delete_transmit_sa(e0, 1)  OBVIOUS
<1>16. PICK e2 : e2 = delete_transmit_sa(e1, 2)  OBVIOUS
<1>17. PICK e3 : e3 = delete_transmit_sa(e2, 3)  OBVIOUS
<1>18. SaOK(e0) /\ e0.sak = s.sak /\ e0.rxsc = FALSE  BY <1>0, <1>1, <1>12, <1>13, <1>14
<1>19. SaOK(e1) /\ e1.sak = s.sak /\ e1.rxsc = FALSE  BY <1>0, <1>1, <1>15, <1>18
<1>20. SaOK(e2) /\ e2.sak = s.sak /\ e2.rxsc = FALSE  BY <1>0, <1>1, <1>16, <1>19
<1>21. SaOK(e3) /\ e3.sak = s.sak /\ e3.rxsc = FALSE  BY <1>0, <1>1, <1>17, <1>20
<1>22. delete_transmit_sas(r) = e3
  BY <1>14, <1>15, <1>16, <1>17, Zenon DEF delete_transmit_sas
<1>23. t = [e3 EXCEPT !.to_use_sak = FALSE]  BY <1>10, <1>22, Zenon
<1> QED BY <1>21, <1>23 DEF SaOK, SaRecord

(* The peer is lost: CP falls back to AUTHENTICATED. *)
LEMMA PeerExpiredStep ==
  ASSUME StepInv, peer_expired
  PROVE  StepInv' /\ Announced
<1>1. Inv'  BY PeerInv DEF StepInv
<1>2. /\ Idle /\ loop' = loop /\ lastkn' = lastkn /\ is_key_server' = is_key_server
      /\ node.sa.rxsc
  BY DEF peer_expired, KayCallback, sa
<1>3. PICK t : t = [delete_transmit_sas(deinit_receive_sc(node.sa)) EXCEPT !.to_use_sak = FALSE]
  OBVIOUS
<1>4. node' = [cp |-> [node.cp EXCEPT !.connect = "AUTHENTICATED", !.step_timer = TRUE],
               sa |-> t]
  BY <1>3 DEF peer_expired, KayCallback, cp, sa
<1>5. RoleOK(node, is_key_server) /\ node.cp \in CpRecord /\ SaOK(node.sa)
  BY DEF StepInv, StepOK, Inv, NodeOK
<1>6. /\ node'.cp.state = node.cp.state /\ node'.cp.dki = node.cp.dki
      /\ SameFlags(node.cp, node'.cp) /\ node'.cp.elected_self = node.cp.elected_self
      /\ node'.cp.step_timer = TRUE /\ node'.cp.connect = "AUTHENTICATED"
  BY <1>4, <1>5 DEF CpRecord, SameFlags
<1>7. node'.sa.rxsc = FALSE /\ node'.sa.sak = node.sa.sak
  BY <1>2, <1>3, <1>4, <1>5, ExpiredEffect
<1>8. RoleOK(node', is_key_server)
  BY <1>5, <1>6, <1>7 DEF RoleOK, ServerOK, PeerOK, SameFlags
<1> QED BY <1>1, <1>2, <1>6, <1>8, SameKeysStep

(* The participant is deleted: it has no peer, so CP is not secured. *)
LEMMA ParticipantDeletedStep ==
  ASSUME StepInv, participant_deleted
  PROVE  StepInv' /\ Announced
<1>1. Inv'  BY PeerInv DEF StepInv
<1>2. /\ Idle /\ loop' = loop /\ lastkn' = lastkn /\ is_key_server' = is_key_server
      /\ ~node.sa.rxsc /\ node' = [cp |-> node.cp, sa |-> FreshSa(FALSE)]
  BY DEF participant_deleted, KayCallback, sa, cp
<1>3. RoleOK(node, is_key_server) /\ (node.cp.step_timer \/ Stable(node.cp))
  BY <1>2 DEF StepInv, StepOK
<1>4. node'.cp = node.cp /\ node'.sa.rxsc = FALSE /\ \A k \in KN : node'.sa.sak[k] = NoAN
  BY <1>2 DEF FreshSa
<1>5. RoleOK(node', is_key_server)
  BY <1>2, <1>3, <1>4 DEF RoleOK, ServerOK, PeerOK
<1>6. SameFlags(node.cp, node'.cp)  BY <1>4 DEF SameFlags
<1> QED BY <1>1, <1>2, <1>3, <1>4, <1>5, <1>6, SameKeysStep

(* The key server advises against MACsec, or repeats a SAK. *)
LEMMA ConnectStep ==
  ASSUME StepInv, no_macsec \/ sak_installed
  PROVE  StepInv' /\ Announced
<1>1. Inv'  BY ParameterInv DEF StepInv
<1>2. /\ Idle /\ loop' = loop /\ lastkn' = lastkn /\ is_key_server' = is_key_server
      /\ ~is_key_server /\ node.sa.principal /\ node.sa.rxsc
  BY DEF no_macsec, sak_installed, KayCallback, sa
<1>3. /\ PeerOK(node) /\ node.cp \in CpRecord /\ node.sa \in SaRecord
      /\ node = [cp |-> node.cp, sa |-> node.sa]
  BY <1>2 DEF StepInv, StepOK, Inv, NodeOK, RoleOK, SaOK
<1>4. PICK v \in Connect :
        /\ node'.cp = [node.cp EXCEPT !.connect = v, !.step_timer = TRUE]
        /\ node'.sa.rxsc = node.sa.rxsc /\ node'.sa.principal = node.sa.principal
        /\ node'.sa.sak = node.sa.sak
        /\ v = "SECURE" => \E k \in KN : node.sa.sak[k] # NoAN
  <2>1. CASE no_macsec
    <3>1. node' = [cp |-> [node.cp EXCEPT !.connect = "AUTHENTICATED", !.step_timer = TRUE],
                   sa |-> [node.sa EXCEPT !.to_use_sak = TRUE]]
      BY <2>1 DEF no_macsec, KayCallback, cp, sa
    <3>2. /\ node'.sa.rxsc = node.sa.rxsc /\ node'.sa.principal = node.sa.principal
          /\ node'.sa.sak = node.sa.sak
      BY <1>3, <3>1 DEF SaRecord
    <3> QED BY <3>1, <3>2 DEF Connect
  <2>2. CASE sak_installed
    <3>1. /\ node' = [node EXCEPT !.cp.connect = "SECURE", !.cp.step_timer = TRUE]
          /\ \E k \in KN : node.sa.sak[k] # NoAN
      BY <2>2 DEF sak_installed, KayCallback, Listed, sa
    <3>2. node'.cp = [node.cp EXCEPT !.connect = "SECURE", !.step_timer = TRUE]
          /\ node'.sa = node.sa
      BY <1>3, <3>1
    <3> QED BY <3>1, <3>2 DEF Connect
  <2> QED BY <2>1, <2>2
<1>5. /\ node'.cp.state = node.cp.state /\ node'.cp.dki = node.cp.dki
      /\ SameFlags(node.cp, node'.cp) /\ node'.cp.elected_self = node.cp.elected_self
      /\ node'.cp.step_timer = TRUE /\ node'.cp.connect = v
  BY <1>3, <1>4 DEF CpRecord, SameFlags
<1>6. RoleOK(node', is_key_server)
  BY <1>2, <1>3, <1>4, <1>5 DEF RoleOK, PeerOK, SameFlags
<1> QED BY <1>1, <1>2, <1>5, <1>6, SameKeysStep

(* The peer's SAK Use parameter set. *)
LEMMA SakUseStep ==
  ASSUME StepInv, all_receiving \/ server_transmitting
  PROVE  StepInv' /\ Announced
<1>1. Inv'  BY ParameterInv DEF StepInv
<1>2. Idle /\ loop' = loop /\ lastkn' = lastkn /\ is_key_server' = is_key_server
  BY DEF all_receiving, server_transmitting, KayCallback
<1>3. /\ RoleOK(node, is_key_server) /\ node.cp \in CpRecord
      /\ node = [cp |-> node.cp, sa |-> node.sa]
  BY DEF StepInv, StepOK, Inv, NodeOK
<1>4. \/ node' = [node EXCEPT !.cp.all_receiving = TRUE, !.cp.step_timer = TRUE]
      \/ node' = [node EXCEPT !.cp.server_transmitting = TRUE, !.cp.step_timer = TRUE]
  BY DEF all_receiving, server_transmitting, KayCallback
<1>5. /\ node'.sa = node.sa
      /\ \/ node'.cp = [node.cp EXCEPT !.all_receiving = TRUE, !.step_timer = TRUE]
         \/ node'.cp = [node.cp EXCEPT !.server_transmitting = TRUE, !.step_timer = TRUE]
  BY <1>3, <1>4
<1>6. /\ node'.cp.state = node.cp.state /\ Steady(node.cp, node'.cp)
      /\ SameFlags(node.cp, node'.cp) /\ node'.cp.step_timer = TRUE
  <2>1. PICK d : d = node'.cp  OBVIOUS
  <2>2. CASE d = [node.cp EXCEPT !.all_receiving = TRUE, !.step_timer = TRUE]
    BY <1>3, <2>1, <2>2 DEF CpRecord, Steady, SameFlags
  <2>3. CASE d = [node.cp EXCEPT !.server_transmitting = TRUE, !.step_timer = TRUE]
    BY <1>3, <2>1, <2>3 DEF CpRecord, Steady, SameFlags
  <2> QED BY <1>5, <2>1, <2>2, <2>3
<1>7. RoleOK(node', is_key_server)
  BY <1>3, <1>5, <1>6 DEF RoleOK, ServerOK, PeerOK, SameFlags, Steady
<1>8. node'.cp.dki = node.cp.dki  BY <1>6 DEF Steady
<1> QED BY <1>1, <1>2, <1>6, <1>7, <1>8, SameKeysStep

(* A new SAK: its number is larger than any in use, and it is listed. *)
LEMMA DistributeStep ==
  ASSUME StepInv, distribute_sak
  PROVE  StepInv' /\ Announced
<1>1. Inv'  BY DistributeInv DEF StepInv
<1>2. /\ Idle /\ loop' = loop /\ lastkn' = lastkn + 1 /\ is_key_server' = is_key_server
      /\ node.sa.principal /\ node.sa.rxsc /\ lastkn < MaxKN
  BY DEF distribute_sak, sa
<1>3. /\ RoleOK(node, is_key_server) /\ KeysOK(node.cp, lastkn) /\ node.cp \in CpRecord
      /\ node.sa \in SaRecord /\ lastkn \in KI /\ is_key_server \in BOOLEAN
  BY DEF StepInv, StepOK, Inv, NodeOK, SaOK
<1>4. PICK k : k = lastkn + 1  OBVIOUS
<1>5. PICK an : an = lastkn % 4  OBVIOUS
<1>6. k \in KN /\ an \in AN /\ an # NoAN /\ k > lastkn /\ k \in Int
  BY <1>2, <1>3, <1>4, <1>5, MaxKNAssumption DEF KN, KI, AN, NoAN
<1>7. PICK v : v = IF is_key_server THEN node.cp.connect ELSE "SECURE"  OBVIOUS
<1>8. PICK nk, us, x :
        node' = [cp |-> [node.cp EXCEPT !.connect = v, !.cipher = x, !.dki = k, !.dan = an,
                                        !.new_sak = TRUE, !.step_timer = TRUE],
                 sa |-> [AddSak(node.sa, k, an) EXCEPT !.new_key = nk, !.to_use_sak = us]]
  <2>1. PICK x \in Ciphers :
          node' = [cp |-> [node.cp EXCEPT !.connect = IF is_key_server THEN @ ELSE "SECURE",
                                          !.cipher = x, !.dki = k, !.dan = an,
                                          !.new_sak = TRUE, !.step_timer = TRUE],
                   sa |-> [AddSak(node.sa, k, an)
                             EXCEPT !.new_key = IF is_key_server THEN k ELSE @,
                                    !.to_use_sak = @ \/ ~is_key_server]]
    BY <1>4, <1>5, Zenon DEF distribute_sak, cp, sa
  <2>2. PICK nk : nk = IF is_key_server THEN k ELSE AddSak(node.sa, k, an).new_key  OBVIOUS
  <2>3. PICK us : us = (AddSak(node.sa, k, an).to_use_sak \/ ~is_key_server)  OBVIOUS
  <2> QED BY <1>7, <2>1, <2>2, <2>3, Zenon
<1>9. /\ node'.cp.state = node.cp.state /\ node'.cp.dki = k /\ node'.cp.new_sak = TRUE
      /\ node'.cp.lki = node.cp.lki /\ node'.cp.oki = node.cp.oki
      /\ node'.cp.lrx = node.cp.lrx
      /\ node'.cp.using_receive_sas = node.cp.using_receive_sas
      /\ node'.cp.using_transmit_sa = node.cp.using_transmit_sa
      /\ node'.cp.elected_self = node.cp.elected_self /\ node'.cp.step_timer = TRUE
  BY <1>3, <1>8 DEF CpRecord
<1>10. /\ node'.sa.principal = node.sa.principal /\ node'.sa.rxsc = node.sa.rxsc
       /\ node'.sa.sak = [node.sa.sak EXCEPT ![k] = an]
  BY <1>3, <1>6, <1>8 DEF AddSak, SaRecord
<1>11. node'.sa.sak[k] = an  BY <1>3, <1>6, <1>10 DEF SaRecord
<1>12. KeysOK(node'.cp, lastkn')
  <2>1. node.cp.lki \in Int /\ node.cp.oki \in Int /\ lastkn \in Int
    BY <1>3 DEF CpRecord, KI
  <2> QED BY <1>2, <1>3, <1>4, <1>6, <1>9, <2>1 DEF KeysOK
<1>13. RoleOK(node', is_key_server)
  <2>1. CASE is_key_server
    BY <1>2, <1>3, <1>9, <1>10, <2>1 DEF RoleOK, ServerOK
  <2>2. CASE ~is_key_server
    BY <1>2, <1>3, <1>6, <1>9, <1>10, <1>11, <2>2 DEF RoleOK, PeerOK
  <2> QED BY <2>1, <2>2
<1> QED BY <1>1, <1>2, <1>9, <1>12, <1>13, CallbackStep

(* Every step keeps the invariant and announces only what is enabled. *)
LEMMA NextStep == StepInv /\ [Next]_vars => StepInv' /\ [Announced]_vars
<1> SUFFICES ASSUME StepInv, [Next]_vars PROVE StepInv' /\ [Announced]_vars  OBVIOUS
<1>1. CASE step_cb \/ transmit_when_timeout \/ retire_when_timeout  BY <1>1, TimeoutStep
<1>2. CASE step_run  BY <1>2, PassStep
<1>3. CASE restart  BY <1>3, RestartStep
<1>4. CASE reauthenticated  BY <1>4, ReauthenticatedStep
<1>5. CASE peer_live  BY <1>5, PeerLiveStep
<1>6. CASE peer_expired  BY <1>6, PeerExpiredStep
<1>7. CASE participant_deleted  BY <1>7, ParticipantDeletedStep
<1>8. CASE no_macsec \/ sak_installed  BY <1>8, ConnectStep
<1>9. CASE all_receiving \/ server_transmitting  BY <1>9, SakUseStep
<1>10. CASE distribute_sak  BY <1>10, DistributeStep
<1>11. CASE UNCHANGED vars
  <2>1. Inv'  BY <1>11, NextInv DEF StepInv
  <2> QED BY <1>11, <2>1 DEF vars, StepInv, Idle, cp
<1> QED BY <1>1, <1>2, <1>3, <1>4, <1>5, <1>6, <1>7, <1>8, <1>9, <1>10, <1>11 DEF Next

(* The loop of ieee802_1x_cp_step_run has reached a stable state after six *)
(* state changes at the latest, whatever the order in which the KaY set    *)
(* CP's inputs: its bound of 100 passes never cuts it short.               *)
THEOREM LoopConverges == Spec => []StepRunConverges
<1>1. StepInv => StepRunConverges
  <2> SUFFICES ASSUME StepInv PROVE StepRunConverges  OBVIOUS
  <2>1. NodeOK(node) /\ loop \in 0..MaxPasses  BY DEF StepInv, Inv
  <2>2. Rank(node) \in 0..6  BY <2>1, NodeRank
  <2> QED BY <2>1, <2>2 DEF StepInv, StepRunConverges, MaxPasses
<1> QED BY <1>1, InitStep, NextStep, PTL DEF Spec

(* Between two callbacks CP either has a pass registered or needs none:    *)
(* every setter that enables a transition also registers step_cb, and the  *)
(* loop ends only where SM_STEP has nothing left to do.                    *)
THEOREM WakeupNeverLost == Spec => []NoLostWakeup
<1>1. StepInv => NoLostWakeup
  BY StableStep DEF StepInv, NoLostWakeup, cp
<1> QED BY <1>1, InitStep, NextStep, PTL DEF Spec

(* No stale using_receive_sas or using_transmit_sa makes CP announce a key *)
(* as receiving, or retire the old key, before the SA is enabled.          *)
THEOREM AnnouncedAlwaysEnabled == Spec => AnnouncedSasEnabled
<1>1. StepInv /\ [Next]_vars => [Announced]_vars  BY NextStep
<1>2. StepInv /\ [Next]_vars => StepInv'  BY NextStep
<1> QED BY <1>1, <1>2, InitStep, PTL DEF Spec, AnnouncedSasEnabled, Announced
==============================================================================
