--------------------------------- MODULE MKA ---------------------------------
(***************************************************************************)
(* Two KaYs on one link: hostapd's (auth), which is obliged to be the key  *)
(* server, and wpa_supplicant's (supp).  Each runs the MKA participant of  *)
(* src/src/pae/ieee802_1x_kay.c over the CP machine of module CPMachine:   *)
(* EAP hands both a new CAK, hellos make the peers live, the key server    *)
(* generates SAKs, distributes them and replaces them when their packet    *)
(* numbers run out.                                                        *)
(*                                                                         *)
(* A callback is one action: it maps the record x of its node, with fields *)
(*    cp, sa   the CP machine, the keys and SAs (CPMachine, KaySa)         *)
(*    p        the rest of the participant, its peer, and kay's own fields *)
(*    out      the MKPDUs the callback sends                               *)
(* through the operators named after the C functions it calls.  One tick   *)
(* of the clock is a second; every MKA time is a multiple of it.  Callbacks*)
(* due in the same second come in any order, and an MKPDU that arrives     *)
(* before the step_cb the previous callback registered is handled first:   *)
(* the eloop serves a ready socket between two timeouts.                   *)
(***************************************************************************)
EXTENDS CPMachine, FiniteSets

CONSTANTS
  MaxSess,        \* bound: successful EAP authentications
  MaxTime,        \* bound: seconds after an EAP success
  MaxFaults,      \* bound: MKPDUs lost, duplicated or delayed, and outages
  MaxWorn,        \* bound: SAKs that wear out are 1..MaxWorn
  MaxOutage,      \* bound: seconds the link is down in an outage
  ReauthPeriod,   \* seconds from an EAP success to the next, at least
  LastReauth      \* bound: seconds from an EAP success to the next, at most

ASSUME MKAAssumption ==
  /\ MaxSess \in Nat /\ MaxTime \in Nat /\ MaxFaults \in Nat
  /\ MaxWorn \in 0..MaxKN /\ MaxOutage \in Nat /\ ReauthPeriod \in Nat
  /\ LastReauth \in Nat

VARIABLES
  node,           \* the two KaYs, without out
  net,            \* MKPDUs under way
  sess,           \* EAP authentications so far; each gives a new CAK and CKN
  success,        \* the last EAP-Success has not reached the supplicant
  worn,           \* seconds since the packet numbers of a SAK passed
                  \* pn_exhaustion, at most WornCap; Fresh before
  up,             \* the link is up
  outage,         \* seconds the link was down, or is down so far
  now,            \* seconds since EAP last succeeded or the link came back
  faults          \* faults so far

vars == <<node, net, sess, success, worn, up, outage, now, faults>>

Nodes == {"auth", "supp"}

Other(i) == CHOOSE j \in Nodes : j # i

HelloTime   == 2          \* MKA_HELLO_TIME, seconds
LifeTime    == 6          \* MKA_LIFE_TIME, seconds
MaxRetryCnt == 5          \* MAX_RETRY_CNT
NoLife      == 99         \* mka_life = 0: the participant lives on
Fresh       == -1
RekeyTime   == 6          \* seconds, see RekeyInTime
WornCap     == RekeyTime + 1

(***************************************************************************)
(* kay: the KaY exists; session: the CKN of its participant, 0 if it has   *)
(* none; hello: seconds to participant_timer; life: seconds to mka_life.   *)
(* peer and the fields after it are the entry of the peer: the lists are   *)
(* empty or hold the other node.  ks_known: key_server_sci is the peer.    *)
(* dist_age: seconds since dist_time, at most LifeTime.                    *)
(***************************************************************************)
InitialKay(kay) ==
  [ kay |-> kay, session |-> 0, mn |-> 0, retry_count |-> 0, hello |-> 0, life |-> NoLife,
    peer |-> "none", peer_mn |-> 0, peer_age |-> 0, sak_used |-> FALSE,
    new_sak |-> FALSE, to_dist_sak |-> FALSE, advised |-> FALSE,
    ks_known |-> FALSE, dist_kn |-> 1, dist_an |-> 0, dist_age |-> LifeTime ]

(* The participant goes, the KaY's own fields stay. *)
NoParticipant(p) ==
  [InitialKay(p.kay) EXCEPT !.ks_known = p.ks_known, !.dist_kn = p.dist_kn,
                            !.dist_an = p.dist_an, !.dist_age = p.dist_age]

Ongoing(x) == x.p.session # 0
Live(x)    == x.p.peer = "live"
Mine(i)    == i = "auth"         \* is_key_server of the participant of node i
-----------------------------------------------------------------------------
(* Sending.  A Distributed SAK or SAK Use parameter set without a body is  *)
(* left out: the loop of decode_mkpdu does not handle the former, which is *)
(* the last set of an MKPDU, and decode_sak_use_body ignores the latter.   *)

NoUse == [kind |-> "none"]

(* A variant that watches the packet numbers of the old SAK. *)
WatchesOldKey(x) ==
  IF x.sa.to_use_sak /\ x.p.advised
  THEN [kind |-> "use",
        lki |-> x.sa.lki, lan |-> x.sa.lan, ltx |-> x.sa.ltx, lrx |-> x.sa.lrx,
        old |-> x.sa.oki # x.sa.lki /\ x.sa.oki # NoKey,
        oki |-> x.sa.oki, oan |-> x.sa.oan,
        exhausted |-> RxAnsOf(x.sa, x.sa.oki) # {} /\ worn[x.sa.oki] # Fresh]
  ELSE NoUse

SakUse(x) ==
  IF x.sa.to_use_sak /\ x.p.advised
  THEN [kind |-> "use",
        lki |-> x.sa.lki, lan |-> x.sa.lan, ltx |-> x.sa.ltx, lrx |-> x.sa.lrx,
        old |-> x.sa.oki # x.sa.lki /\ x.sa.oki # NoKey,
        oki |-> x.sa.oki, oan |-> x.sa.oan,
        exhausted |-> RxAnsOf(x.sa, x.sa.lki) # {} /\ worn[x.sa.lki] # Fresh]
  ELSE NoUse

DistSak(x) ==
  IF x.p.to_dist_sak /\ x.p.advised THEN x.sa.new_key ELSE NoKey

(* The peer lists: the MN of the peer, live or potential; 0 if none. *)
ListedMn(x) == IF x.p.peer = "none" THEN 0 ELSE x.p.peer_mn

(* A variant that distributes the SAK under kay->dist_an, the next AN. *)
SendsNextAn(x, i) ==
  LET use == SakUse(x)
      k   == DistSak(x)
      m   == [src |-> i, session |-> x.p.session, mn |-> x.p.mn + 1,
              listed |-> ListedMn(x),
              use |-> use, kn |-> k, an |-> IF k = NoKey THEN NoAN ELSE x.p.dist_an,
              late |-> FALSE]
      rekey == use.kind = "use" /\ use.exhausted /\ Mine(i)
  IN  [x EXCEPT !.p.mn = @ + 1, !.out = @ \cup {m}, !.p.new_sak = @ \/ rekey]

(* encode_mkpdu: the basic parameter set counts the MKPDU, the SAK Use set *)
(* asks for a rekey when the latest SAK is worn.                           *)
send_mkpdu(x, i) ==
  LET use == SakUse(x)
      k   == DistSak(x)
      m   == [src |-> i, session |-> x.p.session, mn |-> x.p.mn + 1,
              listed |-> ListedMn(x),
              use |-> use, kn |-> k, an |-> IF k = NoKey THEN NoAN ELSE x.sa.sak[k],
              late |-> FALSE]
      rekey == use.kind = "use" /\ use.exhausted /\ Mine(i)
  IN  [x EXCEPT !.p.mn = @ + 1, !.out = @ \cup {m}, !.p.new_sak = @ \/ rekey]

SendIfAllowed(x, i) ==
  IF x.p.retry_count < MaxRetryCnt
  THEN [send_mkpdu(x, i) EXCEPT !.p.retry_count = @ + 1]
  ELSE x

enable_new_info(x, i) == IF x.sa.principal THEN SendIfAllowed(x, i) ELSE x
-----------------------------------------------------------------------------
(* CP inside its KaY.  The loop of ieee802_1x_cp_step_run ends with the    *)
(* pass that does not change the state; StepRunConverges of module CP says *)
(* that it is one of the first LastPass.                                   *)

LastPass == 7

(* The node x after a pass that left CP and the SAs as m. *)
AfterPass(x, m, i) ==
  LET y == [x EXCEPT !.cp = [m.cp EXCEPT !.new_info = FALSE], !.sa = m.sa]
  IN  IF m.cp.new_info THEN enable_new_info(y, i) ELSE y

StepPass(x, i) == AfterPass(x, SM_STEP([cp |-> x.cp, sa |-> x.sa]), i)

(* A turn of the loop: it goes on (more) until a pass keeps the state. *)
Turn(r, i) ==
  LET y == StepPass(r.x, i)
  IN  IF r.more THEN [x |-> y, more |-> y.cp.state # r.x.cp.state] ELSE r

cp_step_run(x, i) ==
  LET run[k \in 0..LastPass] ==
        IF k = 0 THEN [x |-> x, more |-> TRUE] ELSE Turn(run[k - 1], i)
  IN  run[LastPass].x

cp_sm_step(x) == [x EXCEPT !.cp.step_timer = TRUE]

connect(x, how) == cp_sm_step([x EXCEPT !.cp.connect = how])
-----------------------------------------------------------------------------
(* Receiving. *)

(* A variant that goes on distributing the SAK of a peer that was lost. *)
ElectKeepsDistributing(x, i) ==
  IF Mine(i)
  THEN [x EXCEPT !.p.new_sak = TRUE, !.cp.elected_self = TRUE]
  ELSE LET y == [x EXCEPT !.cp.elected_self = FALSE, !.sa.principal = TRUE,
                          !.p.ks_known = TRUE]
       IN  IF x.p.ks_known THEN y ELSE cp_sm_step([y EXCEPT !.cp.chgd_server = TRUE])

(* The peer listed this node's last MKPDU: it becomes live. *)
elect_key_server(x, i) ==
  IF Mine(i)
  THEN [x EXCEPT !.p.new_sak = TRUE, !.p.to_dist_sak = FALSE, !.cp.elected_self = TRUE]
  ELSE LET y == [x EXCEPT !.cp.elected_self = FALSE, !.sa.principal = TRUE,
                          !.p.ks_known = TRUE]
       IN  IF x.p.ks_known THEN y ELSE cp_sm_step([y EXCEPT !.cp.chgd_server = TRUE])

decide_macsec_use(x, i) ==
  IF Mine(i) THEN connect([x EXCEPT !.p.advised = TRUE], "SECURE") ELSE x

move_live_peer(x, i) ==
  decide_macsec_use(
    elect_key_server([x EXCEPT !.p.peer = "live", !.sa.rxsc = TRUE], i), i)

(* The CKN is known, and the ICV was computed with the ICK of its CAK. *)
SanityCheck(x, m) == Ongoing(x) /\ m.session = x.p.session

(* New peers are potential; a known one must send a greater MN. *)
Accepts(x, m) == SanityCheck(x, m) /\ (x.p.peer = "none" \/ x.p.peer_mn < m.mn)

(* The sender has seen the last MKPDU of this node.  (The peer list        *)
(* handlers skip the entry of the node itself; there is no third.)         *)
i_in_peerlist(x, m) == m.listed # 0 /\ m.listed = x.p.mn

decode_basic(x, m) ==
  [x EXCEPT !.p.peer = IF @ = "none" THEN "potential" ELSE @,
            !.p.peer_mn = m.mn, !.p.peer_age = 0]

decode_sak_use(x, i, u) ==
  LET latest  == u.ltx \/ u.lrx
      same    == latest /\ u.lki = x.sa.lki /\ u.lan = x.sa.lan
      server  == latest /\ u.ltx /\ ~Mine(i)
      y == [x EXCEPT !.p.sak_used = @ \/ same,
                     !.cp.server_transmitting = @ \/ server,
                     !.cp.step_timer = @ \/ server]
      z == IF y.p.sak_used
           THEN cp_sm_step([y EXCEPT !.p.to_dist_sak = FALSE, !.cp.all_receiving = TRUE])
           ELSE y
  IN  IF ~x.sa.principal \/ ~Live(x) \/ (latest /\ ~Listed(x.sa, u.lki)) THEN x
      ELSE IF u.old /\ ~(u.oki = x.sa.oki /\ u.oan = x.sa.oan) THEN y
      ELSE [z EXCEPT !.p.new_sak = @ \/ (Mine(i) /\ u.exhausted)]

decode_dist_sak(x, i, k, an) ==
  LET y == connect([x EXCEPT !.p.advised = TRUE], "SECURE")
  IN  IF ~x.sa.principal \/ Mine(i) \/ ~Live(x) \/ ~x.p.ks_known THEN x
      ELSE IF Listed(x.sa, k) THEN y
      ELSE [y EXCEPT !.sa = [AddSak(@, k, an) EXCEPT !.to_use_sak = TRUE],
                     !.cp = [@ EXCEPT !.dki = k, !.dan = an, !.new_sak = TRUE]]

(* A variant that does not reset the retry counter. *)
DecodeKeepsRetries(x, i, m) ==
  LET b == decode_basic(x, m)
      l == IF i_in_peerlist(b, m) /\ ~Live(b) THEN move_live_peer(b, i) ELSE b
      u == IF m.use.kind = "use" THEN decode_sak_use(l, i, m.use) ELSE l
      d == IF m.kn # NoKey THEN decode_dist_sak(u, i, m.kn, m.an) ELSE u
  IN  IF Accepts(x, m) THEN d ELSE x

decode_mkpdu(x, i, m) ==
  LET b == decode_basic(x, m)
      l == IF i_in_peerlist(b, m) /\ ~Live(b) THEN move_live_peer(b, i) ELSE b
      u == IF m.use.kind = "use" THEN decode_sak_use(l, i, m.use) ELSE l
      d == IF m.kn # NoKey THEN decode_dist_sak(u, i, m.kn, m.an) ELSE u
  IN  IF Accepts(x, m) THEN [d EXCEPT !.p.retry_count = 0] ELSE x
-----------------------------------------------------------------------------
(* participant_timer, every HelloTime seconds. *)

delete_mka(x) == [x EXCEPT !.p = NoParticipant(@), !.sa = FreshSa(FALSE)]

(* A variant that generates a SAK whenever it is asked to. *)
GeneratesAnytime(x) == Live(x)

(* A SAK is not generated within LifeTime of the one before it. *)
CanGenerate(x) == Live(x) /\ x.p.dist_age >= LifeTime

(* A variant that does not reset sak_used for the new SAK. *)
GenerateKeepsUsed(x) ==
  LET k == x.p.dist_kn
  IN  cp_sm_step(
        [x EXCEPT !.sa = [AddSak(x.sa, k, x.p.dist_an) EXCEPT !.new_key = k],
                  !.cp = [x.cp EXCEPT !.dki = k, !.dan = x.p.dist_an, !.new_sak = TRUE],
                  !.p  = [x.p EXCEPT !.to_dist_sak = TRUE,
                                     !.dist_kn = @ + 1, !.dist_an = (@ + 1) % 4,
                                     !.dist_age = 0]])

generate_new_sak(x) ==
  LET k == x.p.dist_kn
  IN  cp_sm_step(
        [x EXCEPT !.sa = [AddSak(x.sa, k, x.p.dist_an) EXCEPT !.new_key = k],
                  !.cp = [x.cp EXCEPT !.dki = k, !.dan = x.p.dist_an, !.new_sak = TRUE],
                  !.p  = [x.p EXCEPT !.sak_used = FALSE, !.to_dist_sak = TRUE,
                                     !.dist_kn = @ + 1, !.dist_an = (@ + 1) % 4,
                                     !.dist_age = 0]])

GenerateIfAsked(x) ==
  LET y == IF x.p.new_sak /\ CanGenerate(x) THEN generate_new_sak(x) ELSE x
  IN  [y EXCEPT !.p.new_sak = FALSE]

RemoveExpiredPeer(x) ==
  LET gone == [x EXCEPT !.p.peer = "none", !.p.peer_mn = 0, !.p.peer_age = 0,
                        !.p.sak_used = FALSE]
  IN  IF x.p.peer = "none" \/ x.p.peer_age <= LifeTime THEN x
      ELSE IF ~Live(x) THEN gone
      ELSE connect([gone EXCEPT
               !.p.advised = FALSE,
               !.sa = [delete_transmit_sas(deinit_receive_sc(@)) EXCEPT !.to_use_sak = FALSE]],
               "AUTHENTICATED")

LifeElapsed(x) == x.p.life < 0 /\ ~Live(x)

(* A variant that registers the next hello in milliseconds. *)
HelloInMilliseconds(x, i) ==
  IF LifeElapsed(x) THEN delete_mka(x)
  ELSE LET l == [x EXCEPT !.p.life = IF Live(x) THEN NoLife ELSE @]
       IN  [SendIfAllowed(GenerateIfAsked(RemoveExpiredPeer(l)), i)
              EXCEPT !.p.hello = 1000 * HelloTime]

ParticipantTimer(x, i) ==
  IF LifeElapsed(x) THEN delete_mka(x)
  ELSE LET l == [x EXCEPT !.p.life = IF Live(x) THEN NoLife ELSE @]
       IN  [SendIfAllowed(GenerateIfAsked(RemoveExpiredPeer(l)), i)
              EXCEPT !.p.hello = HelloTime]
-----------------------------------------------------------------------------
(* delete_mka but for the transmit SC, which stays in the SecY. *)
delete_mka_hotswap(x) == delete_mka(x)

(* EAP success: hostapd creates its KaY with the first participant; a KaY  *)
(* that exists drops its participants first.  delay is the random time to  *)
(* the first hello.                                                        *)
create_mka(x, i, s, delay) ==
  LET y == IF x.p.kay THEN delete_mka_hotswap(connect(x, "UNAUTHENTICATED")) ELSE x
  IN  [y EXCEPT !.sa = FreshSa(Mine(i)),
                !.p  = [@ EXCEPT !.kay = TRUE, !.session = s, !.hello = delay,
                                 !.life = LifeTime + delay]]

InitialNode(i, c) ==
  [cp |-> cp_sm_init(c, FreshSa(FALSE)).cp, sa |-> FreshSa(FALSE),
   p  |-> InitialKay(~Mine(i))]
-----------------------------------------------------------------------------
Init ==
  /\ \E c \in Ciphers : node = [i \in Nodes |-> InitialNode(i, c)]
  /\ net = {} /\ sess = 0 /\ success = FALSE /\ worn = [k \in KN |-> Fresh]
  /\ up = TRUE /\ outage = 0 /\ now = 0 /\ faults = 0

(* late: the receiver had step_cb registered when the MKPDU was sent; the  *)
(* eloop serves a timeout without delay before a frame that arrives later. *)
Sent(i, x) ==
  IF up THEN {[m EXCEPT !.late = node[Other(i)].cp.step_timer] : m \in x.out} ELSE {}

(* The callback of node i that ends with x and leaves the MKPDUs rest.     *)
Callback(i, x, rest) ==
  /\ node' = [node EXCEPT ![i] = [cp |-> x.cp, sa |-> x.sa, p |-> x.p]]
  /\ net' = rest \cup Sent(i, x)

Running(i) == [cp |-> node[i].cp, sa |-> node[i].sa, p |-> node[i].p, out |-> {}]

(* An MKPDU arrives before the next timer of either node unless it is      *)
(* delayed, which is a fault.  (step_cb has no delay and may come first.)  *)
Overtakes ==
  /\ net # {} \/ success => faults < MaxFaults
  /\ faults' = IF net # {} \/ success THEN faults + 1 ELSE faults

step_cb(i) ==
  /\ node[i].cp.step_timer
  /\ Callback(i, cp_step_run([Running(i) EXCEPT !.cp.step_timer = FALSE], i),
              {[m EXCEPT !.late = @ /\ m.src = i] : m \in net})
  /\ UNCHANGED <<sess, success, worn, up, outage, now, faults>>

transmit_when_timeout(i) ==
  /\ node[i].cp.transmit_timer = 0
  /\ Callback(i, cp_step_run([Running(i) EXCEPT !.cp.transmit_timer = NoTimer,
                                                !.cp.transmit_when = FALSE], i), net)
  /\ Overtakes
  /\ UNCHANGED <<sess, success, worn, up, outage, now>>

retire_when_timeout(i) ==
  /\ node[i].cp.retire_timer = 0
  /\ Callback(i, cp_step_run([Running(i) EXCEPT !.cp.retire_timer = NoTimer,
                                                !.cp.retire_when = FALSE], i), net)
  /\ Overtakes
  /\ UNCHANGED <<sess, success, worn, up, outage, now>>

(* MaxKN bounds the SAKs: a key server that would generate another stops.  *)
OutOfKeys == node["auth"].p.new_sak /\ node["auth"].p.dist_kn > MaxKN

(* The first hello is registered after the step_cb of create_mka, so it    *)
(* comes after it.                                                         *)
participant_timer(i) ==
  /\ Ongoing(node[i]) /\ node[i].p.hello = 0
  /\ node[i].p.mn = 0 => ~node[i].cp.step_timer
  /\ ~(Mine(i) /\ OutOfKeys)
  /\ Callback(i, ParticipantTimer(Running(i), i), net)
  /\ Overtakes
  /\ UNCHANGED <<sess, success, worn, up, outage, now>>

l2_receive(i) ==
  /\ \E m \in net :
       /\ m.src = Other(i) /\ ~m.late
       /\ Callback(i, decode_mkpdu(Running(i), i, m), net \ {m})
  /\ UNCHANGED <<sess, success, worn, up, outage, now, faults>>

(* EAP succeeds on the authenticator, then the EAP-Success arrives. *)
eap_success ==
  /\ sess < MaxSess /\ ~success /\ up
  /\ sess > 0 => now \in ReauthPeriod..LastReauth
  /\ \E delay \in 0..HelloTime - 1 :
       Callback("auth", create_mka(Running("auth"), "auth", sess + 1, delay), net)
  /\ sess' = sess + 1 /\ success' = TRUE /\ now' = 0
  /\ UNCHANGED <<worn, up, outage, faults>>

notify_create_actor ==
  /\ success
  /\ \E delay \in 0..HelloTime - 1 :
       Callback("supp", create_mka(Running("supp"), "supp", sess, delay), net)
  /\ success' = FALSE
  /\ UNCHANGED <<sess, worn, up, outage, now, faults>>

(* The environment: MKPDUs are lost, duplicated or delayed past the second *)
(* they were sent in; traffic wears a SAK out; the clock ticks when every  *)
(* callback of the second has been served.                                 *)
lose ==
  /\ faults < MaxFaults
  /\ \E m \in net : net' = net \ {m}
  /\ faults' = faults + 1
  /\ UNCHANGED <<node, sess, success, worn, up, outage, now>>

duplicate(i) ==
  /\ faults < MaxFaults
  /\ \E m \in net :
       /\ m.src = Other(i) /\ ~m.late
       /\ Callback(i, decode_mkpdu(Running(i), i, m), net)
  /\ faults' = faults + 1
  /\ UNCHANGED <<sess, success, worn, up, outage, now>>

cut ==
  /\ faults < MaxFaults /\ MaxOutage > 0
  /\ up /\ ~success /\ sess > 0
  /\ up' = FALSE /\ outage' = 0 /\ net' = {} /\ faults' = faults + 1
  /\ UNCHANGED <<node, sess, success, worn, now>>

mend ==
  /\ ~up
  /\ up' = TRUE /\ now' = 0
  /\ UNCHANGED <<node, net, sess, success, worn, outage, faults>>

wear(k) ==
  /\ k <= MaxWorn /\ worn[k] = Fresh
  /\ \E i \in Nodes, a \in AN : a \in node[i].sa.txuse /\ node[i].sa.txsa[a] = k
  /\ worn' = [worn EXCEPT ![k] = 0]
  /\ UNCHANGED <<node, net, sess, success, up, outage, now, faults>>

Served(i) ==
  LET x == node[i]
  IN  /\ ~x.cp.step_timer /\ x.cp.transmit_timer # 0 /\ x.cp.retire_timer # 0
      /\ Ongoing(x) => x.p.hello # 0

Down(t) == IF t > 0 THEN t - 1 ELSE t

Aged(x) ==
  [x EXCEPT
     !.cp = [x.cp EXCEPT !.transmit_timer = Down(@), !.retire_timer = Down(@)],
     !.p  = [x.p EXCEPT !.hello = Down(@),
                        !.life = IF @ = NoLife \/ @ < 0 THEN @ ELSE @ - 1,
                        !.peer_age = IF x.p.peer # "none" /\ @ <= LifeTime
                                     THEN @ + 1 ELSE @,
                        !.dist_age = IF @ < LifeTime THEN @ + 1 ELSE @]]

tick ==
  /\ now < MaxTime
  /\ sess > 0                   \* time counts from the first authentication
  /\ ~up => outage < MaxOutage
  /\ outage' = IF up THEN outage ELSE outage + 1
  /\ \A i \in Nodes : Served(i)
  /\ Overtakes
  /\ now' = now + 1
  /\ node' = [i \in Nodes |-> Aged(node[i])]
  /\ worn' = [k \in KN |-> IF worn[k] \in 0..WornCap - 1 THEN worn[k] + 1 ELSE worn[k]]
  /\ UNCHANGED <<net, sess, success, up>>

(* The bounds end a behaviour. *)
horizon == (now = MaxTime \/ OutOfKeys) /\ UNCHANGED vars

Next ==
  \/ \E i \in Nodes : \/ step_cb(i) \/ transmit_when_timeout(i) \/ retire_when_timeout(i)
                      \/ participant_timer(i) \/ l2_receive(i) \/ duplicate(i)
  \/ eap_success \/ notify_create_actor \/ lose \/ cut \/ mend \/ tick \/ horizon
  \/ \E k \in KN : wear(k)

Spec == Init /\ [][Next]_vars
-----------------------------------------------------------------------------
(* Node i transmits with SAK k, the SecY encoding with the transmit SA     *)
(* that was enabled last; it receives with k.                              *)
TxKeys(i)       == {node[i].sa.txsa[a] : a \in node[i].sa.txuse}
Transmits(i, k) == k \in TxKeys(i) /\ \A j \in TxKeys(i) : j <= k
Receives(i, k)  == \E a \in node[i].sa.rxuse : node[i].sa.rxsa[a] = k

(* Both controlled ports are open, and what either node transmits the      *)
(* other can receive.                                                      *)
Secured ==
  \A i \in Nodes : /\ node[i].cp.controlled_port
                   /\ \E k \in KN : Transmits(i, k) /\ Receives(Other(i), k)

NoneWorn == \A k \in KN : worn[k] = Fresh

ParticipantRecord ==
  [ kay : BOOLEAN, session : 0..MaxSess, mn : Nat, retry_count : 0..MaxRetryCnt,
    hello : 0..HelloTime, life : -1..LifeTime + HelloTime \cup {NoLife},
    peer : {"none", "potential", "live"}, peer_mn : Nat, peer_age : 0..LifeTime + 1,
    sak_used : BOOLEAN, new_sak : BOOLEAN, to_dist_sak : BOOLEAN, advised : BOOLEAN,
    ks_known : BOOLEAN, dist_kn : 1..MaxKN + 1, dist_an : AN, dist_age : 0..LifeTime ]

(* The types of the variables: the timers within their delays, the retry   *)
(* counter within MAX_RETRY_CNT.                                           *)
TypeOK ==
  /\ node \in [Nodes -> [cp : CpRecord, sa : SaRecord, p : ParticipantRecord]]
  /\ sess \in 0..MaxSess /\ success \in BOOLEAN
  /\ worn \in [KN -> Fresh..WornCap]
  /\ up \in BOOLEAN /\ outage \in 0..MaxOutage
  /\ now \in 0..MaxTime /\ faults \in 0..MaxFaults

(* After an EAP success the two KaYs agree on a SAK, install it in both    *)
(* directions and open their controlled ports: within EstablishTime, and   *)
(* FaultTime later for a lost, duplicated or delayed MKPDU, whatever the   *)
(* random delays and the order of the callbacks of a second.               *)
EstablishTime == 5
FaultTime     == 4
EstablishedInTime == NoneWorn /\ now > EstablishTime + FaultTime * faults => Secured

(* Once established the channel of a session is never interrupted, in      *)
(* particular not while one SAK replaces another: the key server transmits *)
(* with the new one only when its peer receives with it, and the peer      *)
(* follows.                                                                *)
StaysSecured == [][Secured /\ sess' = sess => Secured']_vars

(* Packet number exhaustion: within RekeyTime of the SAK's packet numbers  *)
(* passing pn_exhaustion, neither node transmits with it, although         *)
(* generate_new_sak refuses a SAK within MKA_LIFE_TIME of the last one and *)
(* participant_timer forgets the request it refused.                       *)
RekeyInTime == \A k \in KN, i \in Nodes : worn[k] > RekeyTime => ~Transmits(i, k)

(* A SAK is installed under one AN: the transmit SA of either node and the *)
(* receive SA of the other that share the key share the AN the SecTAG      *)
(* carries, also when distributions are lost, repeated or reordered.       *)
SameAssociation ==
  \A i \in Nodes, k \in KN, a \in AN, b \in AN :
    node[i].sa.txsa[a] = k /\ node[Other(i)].sa.rxsa[b] = k => a = b

(* "check all live peer have used the sak for receiving sa": when the key  *)
(* server starts to transmit with a SAK before transmit_when has run out,  *)
(* it does because its peer receives with that SAK.                        *)
AllReceiving ==
  [][\A k \in KN :
       /\ ~Transmits("auth", k) /\ Transmits("auth", k)'
       /\ node'["auth"].cp.transmit_when
       => Receives("supp", k)]_vars

(* A supplicant transmits only with SAKs the key server receives: it waits *)
(* for the key server to transmit, and the key server keeps the old SAK    *)
(* until the supplicant has changed.                                       *)
SupplicantIsReceived ==
  \A k \in KN :
    /\ \A i \in Nodes : Live(node[i]) /\ node[i].p.session = sess
    /\ Transmits("supp", k)
    => Receives("auth", k)

(* After an outage of up to ShortOutage seconds the channel comes back     *)
(* within RecoverTime, unless a participant was deleted because its life   *)
(* ended before it met its peer.                                           *)
ShortOutage == 3
RecoverTime == 9
RecoversInTime ==
  up /\ outage <= ShortOutage /\ now > RecoverTime /\ NoneWorn
    => Secured \/ \E i \in Nodes : ~Ongoing(node[i])

(* The key an MKPDU distributes, participant->new_key, is not freed: the   *)
(* CP machine deletes the SAK of a lost peer and leaves new_key dangling   *)
(* (delete_sas), so to_dist_sak must be cleared before it is used again.   *)
DistributedKeyAllocated ==
  DistSak(node["auth"]) # NoKey => node["auth"].sa.user[node["auth"].sa.new_key] > 0

(* No NULL key identifier reaches ieee802_1x_kay_enable_tx_sas while there *)
(* are transmit SAs to compare it with.  SM_STEP can enter TRANSMIT in the *)
(* pass in which ABANDON cleared lki, so a new SAK must not find the key   *)
(* server in RECEIVING with all_receiving set or transmit_when run out.    *)
NoNullKey == \A i \in Nodes : ~node[i].cp.fault
==============================================================================
